--------------------------- MODULE AgentHubProofs ---------------------------
(***************************************************************************)
(* Proofs about AgentHub for any number of servers, connections and        *)
(* commands.                                                               *)
(***************************************************************************)
EXTENDS AgentHub, TLAPS

USE HubAssumption DEF Closers

-----------------------------------------------------------------------------
(* Types *)

\* The empty hub of NewHub is well typed.
LEMMA InitTypeOK == Init => TypeOK
BY DEF Init, TypeOK, HoldsMessage

\* Each step of ServeWS, closeAgent, Delete and Send keeps the types, because
\* what it goes on with was tested against nil.
LEMMA NextTypeOK == TypeOK /\ [Next]_vars => TypeOK'
<1> SUFFICES ASSUME TypeOK, [Next]_vars PROVE TypeOK'
  OBVIOUS
<1> USE DEF TypeOK, HoldsMessage, Serving
<1>1. CASE UNCHANGED vars
  BY <1>1 DEF vars, connVars, handlerVars, closeVars, sendVars, reportVars
<1>2. ASSUME NEW c \in Conns, Authenticate(c) PROVE TypeOK'
  BY <1>2 DEF Authenticate, connVars, closeVars, sendVars, reportVars
<1>3. ASSUME NEW c \in Conns, Refuse(c) PROVE TypeOK'
  BY <1>3 DEF Refuse, connVars, closeVars, sendVars, reportVars
<1>4. ASSUME NEW c \in Conns, LinkLost(c) PROVE TypeOK'
  BY <1>4 DEF LinkLost, handlerVars, closeVars, sendVars, reportVars
<1>5. ASSUME NEW c \in Conns, NEW m \in Messages, ReadMessage(c, m) PROVE TypeOK'
  BY <1>5 DEF ReadMessage, connVars, closeVars, sendVars, reportVars
<1>6. ASSUME NEW c \in Conns, Register(c) PROVE TypeOK'
  BY <1>6 DEF Register, Replaced, sendVars, reportVars
<1>7. ASSUME NEW c \in Conns, RecheckOk(c) PROVE TypeOK'
  BY <1>7 DEF RecheckOk, connVars, closeVars, sendVars, reportVars
<1>8. ASSUME NEW c \in Conns, RecheckFail(c) PROVE TypeOK'
  BY <1>8 DEF RecheckFail, Deferred, connVars, closeVars, sendVars, reportVars
<1>9. ASSUME NEW c \in Conns, HandleAccept(c) PROVE TypeOK'
  <2>1. hand[c].cmd \in Cmds
    BY <1>9 DEF HandleAccept, Messages
  <2> QED
    BY <1>9, <2>1 DEF HandleAccept, connVars, closeVars, sendVars
<1>10. ASSUME NEW c \in Conns, FinishLookup(c) PROVE TypeOK'
  BY <1>10 DEF FinishLookup, IsNil, connVars, closeVars, sendVars, reportVars
<1>11. ASSUME NEW c \in Conns, FinishOffline(c) PROVE TypeOK'
  BY <1>11 DEF FinishOffline, connVars, closeVars, sendVars, reportVars
<1>12. ASSUME NEW c \in Conns, FinishLocked(c) PROVE TypeOK'
  BY <1>12 DEF FinishLocked, FoundPending, closeVars, sendVars, reportVars
<1>13. ASSUME NEW c \in Conns, Report(c) PROVE TypeOK'
  <2>1. hand[c] \in Messages /\ hand[c].type \in ReplyTypes /\ hand[c].cmd \in Cmds
    BY <1>13 DEF Report, Messages
  <2>2. hand[c].type \in Outcomes
    BY <1>13, <2>1 DEF Report, ReplyTypes, Outcomes
  <2>3. outcome' \in [Cmds -> Seq(Outcomes)]
    BY <1>13, <2>1, <2>2 DEF Report
  <2> QED
    BY <1>13, <2>3 DEF Report, connVars, closeVars, sendVars
<1>14. ASSUME NEW c \in Conns, ReadFail(c) PROVE TypeOK'
  BY <1>14 DEF ReadFail, Deferred, connVars, closeVars, sendVars, reportVars
<1>15. ASSUME NEW c \in Conns, Unregister(c) PROVE TypeOK'
  BY <1>15 DEF Unregister, IsRegistered, ToClose, sendVars, reportVars
<1>16. ASSUME NEW c \in Conns, HandlerReturn(c) PROVE TypeOK'
  BY <1>16 DEF HandlerReturn, closeVars, sendVars, reportVars
<1>17. ASSUME NEW g \in Closers, CloseAgent(g) PROVE TypeOK'
  BY <1>17 DEF CloseAgent, IdsOf, SocketClosed, handlerVars, sendVars, reportVars
<1>18. ASSUME NEW g \in Closers, Interrupt(g) PROVE TypeOK'
  <2>1. PICK k \in ids[g] :
          /\ outcome' = [outcome EXCEPT ![k] = Append(@, "interrupted")]
          /\ ids' = [ids EXCEPT ![g] = @ \ {k}]
    BY <1>18 DEF Interrupt
  <2>2. k \in Cmds /\ "interrupted" \in Outcomes
    BY DEF Outcomes
  <2>3. outcome' \in [Cmds -> Seq(Outcomes)]
    BY <2>1, <2>2
  <2> QED
    BY <1>18, <2>1, <2>3
    DEF Interrupt, connVars, handlerVars, sendVars
<1>19. ASSUME NEW s \in Servers, DeleteRow(s) PROVE TypeOK'
  BY <1>19 DEF DeleteRow, connVars, handlerVars, closeVars, sendVars, reportVars
<1>20. ASSUME NEW s \in Servers, Disconnect(s) PROVE TypeOK'
  BY <1>20 DEF Disconnect, handlerVars, sendVars, reportVars
<1>21. ASSUME NEW s \in Servers, DeleteReturn(s) PROVE TypeOK'
  BY <1>21
  DEF DeleteReturn, connVars, handlerVars, closeVars, sendVars, reportVars
<1>22. ASSUME NEW k \in Cmds, SendLookup(k) PROVE TypeOK'
  BY <1>22 DEF SendLookup, connVars, handlerVars, closeVars, reportVars
<1>23. ASSUME NEW k \in Cmds, SendRefused(k) PROVE TypeOK'
  BY <1>23 DEF SendRefused, connVars, handlerVars, closeVars, reportVars
<1>24. ASSUME NEW k \in Cmds, SendWritten(k) PROVE TypeOK'
  BY <1>24 DEF SendWritten, handlerVars, closeVars, reportVars
<1>25. ASSUME NEW k \in Cmds, SendFailed(k) PROVE TypeOK'
  BY <1>25
  DEF SendFailed, TakenBack, SocketClosed, handlerVars, closeVars, reportVars
<1> QED
  BY <1>1, <1>2, <1>3, <1>4, <1>5, <1>6, <1>7, <1>8, <1>9, <1>10, <1>12, <1>13,
     <1>14, <1>15, <1>16, <1>17, <1>18, <1>19, <1>20, <1>21, <1>22, <1>23,
     <1>24, <1>25, <1>11
  DEF Next, HandlerStep, CloserStep, SendStep, Terminated

\* Every variable of the hub keeps its type and no goroutine goes on with a nil
\* agent (hub.go's "if agent == nil" and "!ok" tests).
THEOREM TypeCorrect == Spec => []TypeOK
BY InitTypeOK, NextTypeOK, PTL DEF Spec

-----------------------------------------------------------------------------
(* The inductive invariant *)

\* A connection that is not registered yet is known to nobody.
Unregistered ==
    \A c \in Conns :
        /\ hpc[c] \in {"idle", "authed"} => sock[c] = "none"
        /\ sock[c] = "none" =>
              /\ hpc[c] \in {"idle", "authed", "done"}
              /\ ~ closed[c]
              /\ pending[c] = {}
              /\ \A s \in Servers : conns[s] # c
              /\ \A g \in Closers : victim[g] # c

\* Hub.conns holds open agents of running handlers.
Registered ==
    \A s \in Servers : conns[s] # NoConn =>
        /\ ConnServer[conns[s]] = s
        /\ hpc[conns[s]] \in Serving
        /\ ~ closed[conns[s]]

\* An agent on its way to closeAgent is open, out of the map and one
\* goroutine's only, and that goroutine has nothing left from before.
Victims ==
    /\ \A g \in Closers : victim[g] # NoConn =>
          /\ ~ closed[victim[g]]
          /\ conns[ConnServer[victim[g]]] # victim[g]
          /\ ids[g] = {}
          /\ \A h \in Closers : victim[h] = victim[g] => h = g
    /\ \A c \in Conns : ~ CloserIdle(c) => hpc[c] \in {"registering", "closing"}
    /\ \A s \in Servers : ~ CloserIdle(s) => dpc[s] = "closing"

\* An agent that was registered is registered still, or about to be closed, or
\* closed, and then its socket is too.
Settled ==
    \A c \in Conns :
        /\ closed[c] => sock[c] = "closed"
        /\ \/ sock[c] = "none"
           \/ closed[c]
           \/ conns[ConnServer[c]] = c
           \/ \E g \in Closers : victim[g] = c

\* What Send and Finish looked up was registered once.
LookedUp ==
    /\ \A k \in Cmds : spc[k] \in {"chosen", "sent"} => sock[chosen[k]] # "none"
    /\ \A c \in Conns : hpc[c] = "finishing" => sock[found[c]] # "none"

\* The deletion of a server comes before everything that is checked for it.
Deleted ==
    \A s \in Servers :
        /\ dpc[s] # "none" => s \notin rows
        /\ dpc[s] \in {"closing", "done"} /\ conns[s] # NoConn =>
              hpc[conns[s]] \in {"registering", "leaving"}

Reporting(c, k) == hpc[c] = "reporting" /\ hand[c].cmd = k

\* A command has no final callback behind it while it is in anybody's custody,
\* and it is in one custody at a time.  The pending set of an agent excludes
\* the lists of closeAgent, since the one needs an open agent and the others a
\* closed one.
Custody ==
    \A k \in Cmds :
        /\ \A c \in Conns : k \in pending[c] =>
              chosen[k] = c /\ ~ closed[c] /\ Outstanding(k)
        /\ \A g \in Closers : k \in ids[g] =>
              /\ closed[chosen[k]]
              /\ Outstanding(k)
              /\ \A h \in Closers : k \in ids[h] => h = g
        /\ \A c \in Conns : Reporting(c, k) =>
              /\ Outstanding(k)
              /\ \A d \in Conns : k \notin pending[d]
              /\ \A g \in Closers : k \notin ids[g]
              /\ \A d \in Conns : Reporting(d, k) => d = c

\* The history of a command is empty or one callback long, and starts when the
\* command is sent.
Told ==
    \A k \in Cmds :
        /\ outcome[k] = <<>> \/ \E o \in Outcomes : outcome[k] = <<o>>
        /\ spc[k] # "sent" => outcome[k] = <<>>

\* How the map, the agents and the goroutines that close them hang together.
Links ==
    /\ Unregistered
    /\ Registered
    /\ Victims
    /\ Settled
    /\ LookedUp
    /\ Deleted

Inv ==
    /\ Links
    /\ Custody
    /\ Told
    /\ CommandNeverLost

\* The first callback of a command makes a history of length one.
LEMMA AppendToEmpty == ASSUME NEW x PROVE Append(<<>>, x) = <<x>>
OBVIOUS

\* The three custodies CommandNeverLost names.
Kept(k) ==
    \/ \E c \in Conns : k \in pending[c]
    \/ \E g \in Closers : k \in ids[g]
    \/ \E c \in Conns : Reporting(c, k)

\* CommandNeverLost in terms of the three custodies.
LEMMA KeptMeans == CommandNeverLost <=> \A k \in Cmds : Outstanding(k) => Kept(k)
BY DEF CommandNeverLost, Kept, Reporting

\* A step that hands a command from one custody to another keeps it: closeAgent
\* moves an id from the pending set to its list.
LEMMA KeptStep ==
  ASSUME NEW k \in Cmds, Kept(k),
         \A c \in Conns : k \in pending[c] =>
             k \in pending'[c] \/ \E g \in Closers : k \in ids'[g],
         \A g \in Closers : k \in ids[g] => k \in ids'[g],
         \A c \in Conns : Reporting(c, k) => Reporting(c, k)'
  PROVE  Kept(k)'
BY DEF Kept

\* Most steps leave the three custodies alone.
LEMMA KeptFrame ==
  ASSUME CommandNeverLost, UNCHANGED <<pending, ids, outcome>>,
         \A k \in Cmds : spc'[k] = "sent" => spc[k] = "sent",
         \A c \in Conns : hpc[c] = "reporting" =>
                            hpc'[c] = "reporting" /\ hand'[c] = hand[c]
  PROVE  CommandNeverLost'
<1> SUFFICES ASSUME NEW k \in Cmds, Outstanding(k)'
             PROVE  Kept(k)'
  BY DEF CommandNeverLost, Kept, Reporting
<1>1. Kept(k)
  BY KeptMeans DEF Outstanding
<1> QED
  BY <1>1, KeptStep DEF Reporting

\* The invariant is inductive, action by action.
LEMMA NextInv == TypeOK /\ TypeOK' /\ Inv /\ [Next]_vars => Inv'
<1> SUFFICES ASSUME TypeOK, TypeOK', Inv, [Next]_vars PROVE Inv'
  OBVIOUS
<1> USE DEF TypeOK, Inv, Links, HoldsMessage, Serving, CloserIdle, Outstanding,
            Reporting
<1>1. ASSUME NEW c \in Conns, Authenticate(c) PROVE Inv'
  <2> USE <1>1
      DEF Authenticate, connVars, closeVars, sendVars, reportVars, CheckServer
  <2>1. Links'
    BY DEF Unregistered, Registered, Victims, Settled, LookedUp, Deleted
  <2>2. Custody' /\ Told'
    BY DEF Custody, Told, Unregistered, Settled, LookedUp, Victims, Registered
  <2>3. CommandNeverLost'
    BY KeptFrame
  <2> QED
    BY <2>1, <2>2, <2>3
<1>2. ASSUME NEW c \in Conns, Refuse(c) PROVE Inv'
  <2> USE <1>2 DEF Refuse, connVars, closeVars, sendVars, reportVars
  <2>1. Links'
    BY DEF Unregistered, Registered, Victims, Settled, LookedUp, Deleted
  <2>2. Custody' /\ Told'
    BY DEF Custody, Told, Unregistered, Settled, LookedUp, Victims, Registered
  <2>3. CommandNeverLost'
    BY KeptFrame
  <2> QED
    BY <2>1, <2>2, <2>3
<1>3. ASSUME NEW c \in Conns, LinkLost(c) PROVE Inv'
  <2> USE <1>3 DEF LinkLost, handlerVars, closeVars, sendVars, reportVars
  <2>1. Links'
    BY DEF Unregistered, Registered, Victims, Settled, LookedUp, Deleted
  <2>2. Custody' /\ Told'
    BY DEF Custody, Told, Unregistered, Settled, LookedUp, Victims, Registered
  <2>3. CommandNeverLost'
    BY KeptFrame
  <2> QED
    BY <2>1, <2>2, <2>3
<1>4. ASSUME NEW c \in Conns, NEW m \in Messages, ReadMessage(c, m) PROVE Inv'
  <2> USE <1>4 DEF ReadMessage, connVars, closeVars, sendVars, reportVars
  <2>1. Links'
    BY DEF Unregistered, Registered, Victims, Settled, LookedUp, Deleted
  <2>2. Custody' /\ Told'
    BY DEF Custody, Told, Unregistered, Settled, LookedUp, Victims, Registered
  <2>3. CommandNeverLost'
    BY KeptFrame
  <2> QED
    BY <2>1, <2>2, <2>3
<1>5. ASSUME NEW c \in Conns, Register(c) PROVE Inv'
  <2> USE <1>5 DEF Register, Replaced, sendVars, reportVars
  <2>0. /\ sock[c] = "none" /\ ~ closed[c] /\ pending[c] = {}
        /\ victim[c] = NoConn /\ ids[c] = {}
        /\ \A g \in Closers : victim[g] # c
    BY DEF Unregistered, Victims
  <2>4. Unregistered' /\ Registered' /\ LookedUp' /\ Deleted'
    BY <2>0 DEF Unregistered, Registered, LookedUp, Deleted
  <2>5. Victims'
    <3>1. ASSUME NEW g \in Closers, g # c, victim[g] # NoConn
          PROVE  victim'[g] = victim[g] /\ victim[g] # conns[ConnServer[c]]
      BY <3>1 DEF Victims, Registered
    <3>2. CASE conns[ConnServer[c]] = NoConn
      BY <2>0, <3>1, <3>2 DEF Victims
    <3>3. CASE conns[ConnServer[c]] # NoConn
      <4>1. /\ ConnServer[conns[ConnServer[c]]] = ConnServer[c]
            /\ ~ closed[conns[ConnServer[c]]]
            /\ conns[ConnServer[c]] # c
        BY <2>0, <3>3 DEF Registered, Unregistered
      <4> QED
        BY <2>0, <3>1, <4>1 DEF Victims
    <3> QED
      BY <3>2, <3>3
  <2>6. Settled'
    <3> SUFFICES ASSUME NEW d \in Conns
                 PROVE  /\ closed[d] => sock'[d] = "closed"
                        /\ \/ sock'[d] = "none"
                           \/ closed[d]
                           \/ conns'[ConnServer[d]] = d
                           \/ \E g \in Closers : victim'[g] = d
      BY DEF Settled
    <3>1. CASE \E g \in Closers : victim[g] = d
      <4>1. PICK g \in Closers : victim[g] = d
        BY <3>1
      <4>2. g # c
        BY <2>0, <4>1
      <4> QED
        BY <2>0, <4>1, <4>2 DEF Settled
    <3>2. CASE conns[ConnServer[d]] = d
      BY <2>0, <3>2 DEF Settled
    <3> QED
      BY <2>0, <3>1, <3>2 DEF Settled
  <2>1. Links'
    BY <2>4, <2>5, <2>6
  <2>2. Custody' /\ Told'
    BY DEF Custody, Told, Unregistered, Settled, LookedUp, Victims, Registered
  <2>3. CommandNeverLost'
    BY KeptFrame
  <2> QED
    BY <2>1, <2>2, <2>3
<1>6. ASSUME NEW c \in Conns, RecheckOk(c) PROVE Inv'
  <2> USE <1>6
      DEF RecheckOk, connVars, closeVars, sendVars, reportVars, CheckServer
  <2>1. Links'
    BY DEF Unregistered, Registered, Victims, Settled, LookedUp, Deleted
  <2>2. Custody' /\ Told'
    BY DEF Custody, Told, Unregistered, Settled, LookedUp, Victims, Registered
  <2>3. CommandNeverLost'
    BY KeptFrame
  <2> QED
    BY <2>1, <2>2, <2>3
<1>7. ASSUME NEW c \in Conns, RecheckFail(c) PROVE Inv'
  <2> USE <1>7
      DEF RecheckFail, Deferred, connVars, closeVars, sendVars, reportVars
  <2>1. Links'
    BY DEF Unregistered, Registered, Victims, Settled, LookedUp, Deleted
  <2>2. Custody' /\ Told'
    BY DEF Custody, Told, Unregistered, Settled, LookedUp, Victims, Registered
  <2>3. CommandNeverLost'
    BY KeptFrame
  <2> QED
    BY <2>1, <2>2, <2>3
<1>8. ASSUME NEW c \in Conns, HandleAccept(c) PROVE Inv'
  <2> USE <1>8 DEF HandleAccept, connVars, closeVars, sendVars
  <2>1. Links'
    BY DEF Unregistered, Registered, Victims, Settled, LookedUp, Deleted
  <2>2. Custody' /\ Told'
    BY DEF Custody, Told, Unregistered, Settled, LookedUp, Victims, Registered
  <2>3. CommandNeverLost'
    BY KeptFrame
  <2> QED
    BY <2>1, <2>2, <2>3
<1>9. ASSUME NEW c \in Conns, FinishLookup(c) PROVE Inv'
  <2> USE <1>9 DEF FinishLookup, IsNil, connVars, closeVars, sendVars, reportVars
  <2>1. Links'
    BY DEF Unregistered, Registered, Victims, Settled, LookedUp, Deleted
  <2>2. Custody' /\ Told'
    BY DEF Custody, Told, Unregistered, Settled, LookedUp, Victims, Registered
  <2>3. CommandNeverLost'
    BY KeptFrame
  <2> QED
    BY <2>1, <2>2, <2>3
<1>10. ASSUME NEW c \in Conns, FinishOffline(c) PROVE Inv'
  <2> USE <1>10
      DEF FinishOffline, IsNil, connVars, closeVars, sendVars, reportVars
  <2>1. Links'
    BY DEF Unregistered, Registered, Victims, Settled, LookedUp, Deleted
  <2>2. Custody' /\ Told'
    BY DEF Custody, Told, Unregistered, Settled, LookedUp, Victims, Registered
  <2>3. CommandNeverLost'
    BY KeptFrame
  <2> QED
    BY <2>1, <2>2, <2>3
<1>11. ASSUME NEW c \in Conns, FinishLocked(c) PROVE Inv'
  <2> USE <1>11 DEF FinishLocked, FoundPending, closeVars, sendVars, reportVars
  <2>1. Links'
    BY DEF Unregistered, Registered, Victims, Settled, LookedUp, Deleted
  <2>2. Custody' /\ Told'
    BY DEF Custody, Told, Unregistered, Settled, LookedUp, Victims, Registered
  <2>3. CommandNeverLost'
    <3> SUFFICES ASSUME NEW i \in Cmds, Outstanding(i)'
                 PROVE  Kept(i)'
      BY DEF CommandNeverLost, Kept
    <3>1. Kept(i)
      BY KeptMeans
    <3>2. \A d \in Conns : Reporting(d, i) => Reporting(d, i)'
      OBVIOUS
    <3>3. CASE i = hand[c].cmd /\ i \in pending[found[c]]
      BY <3>3 DEF Kept
    <3>4. CASE ~ (i = hand[c].cmd /\ i \in pending[found[c]])
      <4>1. \A d \in Conns : i \in pending[d] => i \in pending'[d]
        BY <3>4
      <4>2. ids' = ids
        OBVIOUS
      <4> QED
        BY <3>1, <3>2, <4>1, <4>2, KeptStep
    <3> QED
      BY <3>3, <3>4
  <2> QED
    BY <2>1, <2>2, <2>3
<1>12. ASSUME NEW c \in Conns, Report(c) PROVE Inv'
  <2> USE <1>12 DEF Report, connVars, closeVars, sendVars
  <2>1. Links'
    BY DEF Unregistered, Registered, Victims, Settled, LookedUp, Deleted
  <2> DEFINE j == hand[c].cmd
  <2>5. hand[c] \in Messages /\ Reporting(c, j)
    OBVIOUS
  <2>6. j \in Cmds /\ hand[c].type \in Outcomes
    BY <2>5 DEF Messages, ReplyTypes, Outcomes
  <2>7. Outstanding(j)
    BY <2>5, <2>6 DEF Custody
  <2>8. outcome' = [outcome EXCEPT ![j] = <<hand[c].type>>]
    BY <2>7, AppendToEmpty
  <2>0. /\ j \in Cmds
        /\ hand[c].type \in Outcomes
        /\ Outstanding(j)
        /\ outcome' = [outcome EXCEPT ![j] = <<hand[c].type>>]
    BY <2>6, <2>7, <2>8
  <2>2. Custody' /\ Told'
    <3> HIDE DEF j
    <3>1. Told'
      <4> SUFFICES ASSUME NEW k \in Cmds
                   PROVE  /\ \/ outcome'[k] = <<>>
                             \/ \E o \in Outcomes : outcome'[k] = <<o>>
                          /\ spc[k] # "sent" => outcome'[k] = <<>>
        BY DEF Told
      <4>1. CASE k = j
        <5> HIDE DEF Report
        <5>1. outcome'[k] = <<hand[c].type>> /\ spc[k] = "sent"
          BY <2>0, <4>1
        <5> QED
          BY <5>1, <2>0
      <4>2. CASE k # j
        BY <2>0, <4>2 DEF Told
      <4> QED
        BY <4>1, <4>2
    <3>2. \A k \in Cmds \ {j} : outcome'[k] = outcome[k]
      BY <2>0
    <3>3. \A d \in Conns \ {c} : hpc'[d] = hpc[d] /\ hand'[d] = hand[d]
      OBVIOUS
    <3>4. hpc'[c] = "reading"
      OBVIOUS
    <3>5. ASSUME NEW k \in Cmds, NEW d \in Conns, Reporting(d, k)'
          PROVE  Reporting(d, k) /\ d # c
      BY <3>3, <3>4, <3>5
    <3>6. Reporting(c, j)
      BY DEF j
    <3> QED
      BY <2>0, <3>1, <3>2, <3>5, <3>6 DEF Custody
  <2>3. CommandNeverLost'
    <3> SUFFICES ASSUME NEW i \in Cmds, Outstanding(i)'
                 PROVE  Kept(i)'
      BY DEF CommandNeverLost, Kept
    <3>1. i # j /\ Outstanding(i)
      BY <2>0
    <3>2. Kept(i)
      BY <3>1, KeptMeans
    <3>3. \A d \in Conns : Reporting(d, i) => Reporting(d, i)'
      BY <3>1
    <3> HIDE DEF Report, Reporting
    <3> QED
      BY <3>2, <3>3, KeptStep DEF Report, connVars, closeVars
  <2> QED
    BY <2>1, <2>2, <2>3
<1>13. ASSUME NEW c \in Conns, ReadFail(c) PROVE Inv'
  <2> USE <1>13 DEF ReadFail, Deferred, connVars, closeVars, sendVars, reportVars
  <2>1. Links'
    BY DEF Unregistered, Registered, Victims, Settled, LookedUp, Deleted
  <2>2. Custody' /\ Told'
    BY DEF Custody, Told, Unregistered, Settled, LookedUp, Victims, Registered
  <2>3. CommandNeverLost'
    BY KeptFrame
  <2> QED
    BY <2>1, <2>2, <2>3
<1>14. ASSUME NEW c \in Conns, Unregister(c) PROVE Inv'
  <2> USE <1>14 DEF Unregister, IsRegistered, ToClose, sendVars, reportVars
  <2>1. Links'
    BY DEF Unregistered, Registered, Victims, Settled, LookedUp, Deleted
  <2>2. Custody' /\ Told'
    BY DEF Custody, Told, Unregistered, Settled, LookedUp, Victims, Registered
  <2>3. CommandNeverLost'
    BY KeptFrame
  <2> QED
    BY <2>1, <2>2, <2>3
<1>15. ASSUME NEW c \in Conns, HandlerReturn(c) PROVE Inv'
  <2> USE <1>15 DEF HandlerReturn, closeVars, sendVars, reportVars
  <2>1. Links'
    BY DEF Unregistered, Registered, Victims, Settled, LookedUp, Deleted
  <2>2. Custody' /\ Told'
    BY DEF Custody, Told, Unregistered, Settled, LookedUp, Victims, Registered
  <2>3. CommandNeverLost'
    BY KeptFrame
  <2> QED
    BY <2>1, <2>2, <2>3
<1>16. ASSUME NEW g \in Closers, CloseAgent(g) PROVE Inv'
  <2> USE <1>16
      DEF CloseAgent, IdsOf, SocketClosed, handlerVars, sendVars, reportVars
  <2>1. Links'
    BY DEF Unregistered, Registered, Victims, Settled, LookedUp, Deleted
  <2>2. Custody' /\ Told'
    BY DEF Custody, Told, Unregistered, Settled, LookedUp, Victims, Registered
  <2>3. CommandNeverLost'
    <3> SUFFICES ASSUME NEW i \in Cmds, Outstanding(i)'
                 PROVE  Kept(i)'
      BY DEF CommandNeverLost, Kept
    <3>1. Kept(i)
      BY KeptMeans
    <3>2. \A d \in Conns : Reporting(d, i) => Reporting(d, i)'
      OBVIOUS
    <3>3. \A d \in Conns : i \in pending[d] =>
             i \in pending'[d] \/ i \in ids'[g]
      OBVIOUS
    <3>4. \A h \in Closers : i \in ids[h] => i \in ids'[h]
      BY DEF Victims
    <3> QED
      BY <3>1, <3>2, <3>3, <3>4, KeptStep
  <2> QED
    BY <2>1, <2>2, <2>3
<1>17. ASSUME NEW g \in Closers, Interrupt(g) PROVE Inv'
  <2> USE <1>17 DEF Interrupt, connVars, handlerVars, sendVars
  <2>1. Links'
    BY DEF Unregistered, Registered, Victims, Settled, LookedUp, Deleted
  <2> PICK k \in ids[g] :
         /\ outcome' = [outcome EXCEPT ![k] = Append(@, "interrupted")]
         /\ ids' = [ids EXCEPT ![g] = @ \ {k}]
         /\ UNCHANGED <<rows, connVars, handlerVars, victim, dpc, sendVars, acked>>
    OBVIOUS
  <2>4. /\ k \in Cmds
        /\ "interrupted" \in Outcomes
        /\ Outstanding(k)
    BY DEF Custody, Outcomes
  <2>5. Append(outcome[k], "interrupted") = <<"interrupted">>
    BY <2>4, AppendToEmpty
  <2>0. /\ k \in Cmds
        /\ "interrupted" \in Outcomes
        /\ Outstanding(k)
        /\ outcome' = [outcome EXCEPT ![k] = <<"interrupted">>]
    BY <2>4, <2>5
  <2>2. Custody' /\ Told'
    <3> HIDE DEF Interrupt
    <3>1. Told'
      BY <2>0 DEF Told
    <3>2. \A i \in Cmds \ {k} : outcome'[i] = outcome[i]
      BY <2>0
    <3>3. \A h \in Closers : ids'[h] \subseteq ids[h] /\ k \notin ids'[h]
      BY <2>0 DEF Custody
    <3>4. \A d \in Conns : k \notin pending[d] /\ ~ Reporting(d, k)
      BY <2>0 DEF Custody
    <3> QED
      BY <2>0, <3>1, <3>2, <3>3, <3>4 DEF Custody
  <2>3. CommandNeverLost'
    <3> SUFFICES ASSUME NEW i \in Cmds, Outstanding(i)'
                 PROVE  Kept(i)'
      BY DEF CommandNeverLost, Kept
    <3>1. i # k /\ Outstanding(i)
      BY <2>0
    <3>2. Kept(i)
      BY <3>1, KeptMeans
    <3>3. \A h \in Closers : i \in ids[h] => i \in ids'[h]
      BY <3>1
    <3>4. UNCHANGED <<pending, hpc, hand>>
      BY DEF connVars, handlerVars
    <3> HIDE DEF Interrupt, Kept, TypeOK, Inv
    <3> QED
      BY <3>2, <3>3, <3>4, KeptStep
  <2> QED
    BY <2>1, <2>2, <2>3
<1>18. ASSUME NEW s \in Servers, DeleteRow(s) PROVE Inv'
  <2> USE <1>18
      DEF DeleteRow, connVars, handlerVars, closeVars, sendVars, reportVars
  <2>1. Links'
    BY DEF Unregistered, Registered, Victims, Settled, LookedUp, Deleted
  <2>2. Custody' /\ Told'
    BY DEF Custody, Told, Unregistered, Settled, LookedUp, Victims, Registered
  <2>3. CommandNeverLost'
    BY KeptFrame
  <2> QED
    BY <2>1, <2>2, <2>3
<1>19. ASSUME NEW s \in Servers, Disconnect(s) PROVE Inv'
  <2> USE <1>19 DEF Disconnect, handlerVars, sendVars, reportVars
  <2>1. Links'
    BY DEF Unregistered, Registered, Victims, Settled, LookedUp, Deleted
  <2>2. Custody' /\ Told'
    BY DEF Custody, Told, Unregistered, Settled, LookedUp, Victims, Registered
  <2>3. CommandNeverLost'
    BY KeptFrame
  <2> QED
    BY <2>1, <2>2, <2>3
<1>20. ASSUME NEW s \in Servers, DeleteReturn(s) PROVE Inv'
  <2> USE <1>20
      DEF DeleteReturn, connVars, handlerVars, closeVars, sendVars, reportVars
  <2>1. Links'
    BY DEF Unregistered, Registered, Victims, Settled, LookedUp, Deleted
  <2>2. Custody' /\ Told'
    BY DEF Custody, Told, Unregistered, Settled, LookedUp, Victims, Registered
  <2>3. CommandNeverLost'
    BY KeptFrame
  <2> QED
    BY <2>1, <2>2, <2>3
<1>21. ASSUME NEW k \in Cmds, SendLookup(k) PROVE Inv'
  <2> USE <1>21 DEF SendLookup, connVars, handlerVars, closeVars, reportVars
  <2>1. Links'
    BY DEF Unregistered, Registered, Victims, Settled, LookedUp, Deleted
  <2>2. Custody' /\ Told'
    BY DEF Custody, Told, Unregistered, Settled, LookedUp, Victims, Registered
  <2>3. CommandNeverLost'
    BY KeptFrame
  <2> QED
    BY <2>1, <2>2, <2>3
<1>22. ASSUME NEW k \in Cmds, SendRefused(k) PROVE Inv'
  <2> USE <1>22 DEF SendRefused, connVars, handlerVars, closeVars, reportVars
  <2>1. Links'
    BY DEF Unregistered, Registered, Victims, Settled, LookedUp, Deleted
  <2>2. Custody' /\ Told'
    BY DEF Custody, Told, Unregistered, Settled, LookedUp, Victims, Registered
  <2>3. CommandNeverLost'
    BY KeptFrame
  <2> QED
    BY <2>1, <2>2, <2>3
<1>23. ASSUME NEW k \in Cmds, SendWritten(k) PROVE Inv'
  <2> USE <1>23 DEF SendWritten, handlerVars, closeVars, reportVars
  <2>1. Links'
    BY DEF Unregistered, Registered, Victims, Settled, LookedUp, Deleted
  <2>2. Custody' /\ Told'
    BY DEF Custody, Told, Unregistered, Settled, LookedUp, Victims, Registered
  <2>3. CommandNeverLost'
    <3> SUFFICES ASSUME NEW i \in Cmds, Outstanding(i)'
                 PROVE  Kept(i)'
      BY DEF CommandNeverLost, Kept
    <3>1. CASE i = k
      BY <3>1 DEF Kept
    <3>2. CASE i # k
      <4>1. Kept(i)
        BY <3>2, KeptMeans
      <4>2. \A d \in Conns : i \in pending[d] => i \in pending'[d]
        OBVIOUS
      <4>3. UNCHANGED <<ids, hpc, hand>>
        OBVIOUS
      <4> QED
        BY <4>1, <4>2, <4>3, KeptStep
    <3> QED
      BY <3>1, <3>2
  <2> QED
    BY <2>1, <2>2, <2>3
<1>24. ASSUME NEW k \in Cmds, SendFailed(k) PROVE Inv'
  <2> USE <1>24
      DEF SendFailed, TakenBack, SocketClosed, handlerVars, closeVars,
          reportVars
  <2>1. Links'
    BY DEF Unregistered, Registered, Victims, Settled, LookedUp, Deleted
  <2>2. Custody' /\ Told'
    BY DEF Custody, Told, Unregistered, Settled, LookedUp, Victims, Registered
  <2>3. CommandNeverLost'
    <3> SUFFICES ASSUME NEW i \in Cmds, Outstanding(i)'
                 PROVE  Kept(i)'
      BY DEF CommandNeverLost, Kept
    <3>1. i # k /\ Outstanding(i)
      OBVIOUS
    <3>2. Kept(i)
      BY <3>1, KeptMeans
    <3>3. \A d \in Conns : i \in pending[d] => i \in pending'[d]
      BY <3>1
    <3>4. UNCHANGED <<ids, hpc, hand>>
      OBVIOUS
    <3> HIDE DEF SendFailed, TypeOK, Inv
    <3> QED
      BY <3>2, <3>3, <3>4, KeptStep
  <2> QED
    BY <2>1, <2>2, <2>3
<1>25. CASE UNCHANGED vars
  BY <1>25, KeptFrame
  DEF Unregistered, Registered, Victims, Settled, LookedUp, Deleted, Custody,
      Told, vars, connVars, handlerVars, closeVars, sendVars, reportVars
<1> QED
  BY <1>1, <1>2, <1>3, <1>4, <1>5, <1>6, <1>7, <1>8, <1>9, <1>10, <1>11, <1>12,
     <1>13, <1>14, <1>15, <1>16, <1>17, <1>18, <1>19, <1>20, <1>21, <1>22,
     <1>23, <1>24, <1>25
  DEF Next, HandlerStep, CloserStep, SendStep, Terminated

\* The empty hub of NewHub satisfies the invariant.
LEMMA InitInv == Init => Inv
BY DEF Init, Inv, Links, Unregistered, Registered, Victims, Settled, LookedUp,
       Deleted,
       Custody, Told, CommandNeverLost, CloserIdle, Reporting, Outstanding

\* So it holds in every state the hub can reach.
LEMMA Invariance == Spec => [](TypeOK /\ Inv)
<1>1. Init => TypeOK /\ Inv
  BY InitTypeOK, InitInv
<1>2. TypeOK /\ Inv /\ [Next]_vars => (TypeOK /\ Inv)'
  BY NextTypeOK, NextInv
<1> QED
  BY <1>1, <1>2, PTL DEF Spec

-----------------------------------------------------------------------------
(* What the invariant gives *)

\* Finish and closeAgent hand each command to one reporter at most.
THEOREM OutcomeOnce == Spec => []AtMostOneOutcome
<1>1. Inv => AtMostOneOutcome
  <2> SUFFICES ASSUME Inv, NEW k \in Cmds PROVE Len(outcome[k]) <= 1
    BY DEF AtMostOneOutcome
  <2>1. CASE outcome[k] = <<>>
    BY <2>1
  <2>2. CASE \E o \in Outcomes : outcome[k] = <<o>>
    <3>1. PICK o \in Outcomes : outcome[k] = <<o>>
      BY <2>2
    <3>2. Len(<<o>>) = 1
      OBVIOUS
    <3> QED
      BY <3>1, <3>2
  <2> QED
    BY <2>1, <2>2 DEF Inv, Told
<1> QED
  BY <1>1, Invariance, PTL

\* A sent command is in somebody's custody until its callback ran.
THEOREM NeverLost == Spec => []CommandNeverLost
BY Invariance, PTL DEF Inv

\* Hub.Send's error is the last its caller hears of the command.
THEOREM FailedSilent == Spec => []FailedSendStaysSilent
<1>1. Inv => FailedSendStaysSilent
  BY DEF Inv, Told, FailedSendStaysSilent
<1> QED
  BY <1>1, Invariance, PTL

\* Whatever is pending has somebody to settle it.
THEOREM NothingStranded == Spec => []NoStrandedCommand
<1>1. TypeOK /\ Inv => NoStrandedCommand
  <2> SUFFICES ASSUME TypeOK, Inv, NEW c \in Conns, NEW k \in pending[c]
               PROVE  /\ ~ closed[c]
                      /\ \/ conns[ConnServer[c]] = c
                         \/ \E g \in Closers : victim[g] = c
    BY DEF NoStrandedCommand
  <2>1. k \in Cmds
    BY DEF TypeOK
  <2>2. ~ closed[c] /\ sock[c] # "none"
    BY <2>1 DEF Inv, Links, Custody, Unregistered
  <2> QED
    BY <2>2 DEF Inv, Links, Settled
<1> QED
  BY <1>1, Invariance, PTL

\* The agent Hub.conns holds belongs to a handler that has still to unregister.
THEOREM OnlineIsServed == Spec => []NoGhostOnline
<1>1. Inv => NoGhostOnline
  BY DEF Inv, Links, Registered, NoGhostOnline
<1> QED
  BY <1>1, Invariance, PTL

\* Disconnect and the second CheckServer between them leave no agent of a
\* deleted server in the read loop with an open agent.
THEOREM DeletedIsCutOff == Spec => []DeletedServerHasNoLiveAgent
<1>1. TypeOK /\ Inv => DeletedServerHasNoLiveAgent
  <2> SUFFICES ASSUME TypeOK, Inv, NEW c \in Conns,
                      dpc[ConnServer[c]] = "done", hpc[c] \in InLoop
               PROVE  closed[c] \/ \E g \in Closers : victim[g] = c
    BY DEF DeletedServerHasNoLiveAgent
  <2>1. sock[c] # "none"
    BY DEF Inv, Links, Unregistered, InLoop, HoldsMessage
  <2>2. conns[ConnServer[c]] # c
    BY DEF Inv, Links, Deleted, InLoop, HoldsMessage
  <2> QED
    BY <2>1, <2>2 DEF Inv, Links, Settled
<1> QED
  BY <1>1, Invariance, PTL

\* Entries of Hub.conns disappear by their own handler or by a deletion only.
THEOREM OwnerUnregisters == Spec => OnlyOwnerUnregisters
<1> DEFINE Disciplined ==
      \A s \in Servers : conns'[s] # conns[s] =>
        IF conns'[s] = NoConn
        THEN dpc[s] = "deleted" \/ hpc[conns[s]] = "leaving"
        ELSE hpc[conns'[s]] = "authed"
<1>1. TypeOK /\ [Next]_vars => [Disciplined]_vars
  <2> SUFFICES ASSUME TypeOK, Next PROVE Disciplined \/ UNCHANGED vars
    OBVIOUS
  <2>1. CASE UNCHANGED conns
    BY <2>1
  <2>2. ASSUME NEW c \in Conns, Register(c) PROVE Disciplined
    BY <2>2 DEF Register, TypeOK
  <2>3. ASSUME NEW c \in Conns, Unregister(c) PROVE Disciplined
    BY <2>3 DEF Unregister, IsRegistered, TypeOK
  <2>4. ASSUME NEW s \in Servers, Disconnect(s) PROVE Disciplined
    BY <2>4 DEF Disconnect, TypeOK
  <2> QED
    BY <2>1, <2>2, <2>3, <2>4
    DEF Next, HandlerStep, CloserStep, SendStep, Terminated, vars, connVars,
        Authenticate, Refuse, LinkLost, ReadMessage, RecheckOk, RecheckFail,
        HandleAccept, FinishLookup, FinishOffline, FinishLocked, Report,
        ReadFail, HandlerReturn, CloseAgent, Interrupt, DeleteRow, DeleteReturn,
        SendLookup, SendRefused, SendWritten, SendFailed
<1> QED
  BY <1>1, TypeCorrect, PTL DEF Spec, OnlyOwnerUnregisters

-----------------------------------------------------------------------------
(* The hub implements the contract *)

\* A socket that is gone stays gone, and a sent command stays sent on its agent.
LEMMA BrokenGrows ==
  ASSUME TypeOK, TypeOK', Inv, [Next]_vars
  PROVE  /\ BrokenOf \subseteq BrokenOf'
         /\ BrokenOf' \subseteq {k \in Cmds : spc'[k] = "sent"}
<1>1. \A k \in Cmds : spc[k] = "sent" => spc'[k] = "sent" /\ chosen'[k] = chosen[k]
  BY DEF Next, HandlerStep, CloserStep, SendStep, Terminated, vars, sendVars,
        Authenticate, Refuse, LinkLost, ReadMessage, Register, RecheckOk,
        RecheckFail, HandleAccept, FinishLookup, FinishOffline, FinishLocked,
        Report, ReadFail, Unregister, HandlerReturn, CloseAgent, Interrupt,
        DeleteRow, Disconnect, DeleteReturn, SendLookup, SendRefused,
        SendWritten, SendFailed, TypeOK
<1>2. \A c \in Conns : sock[c] \notin {"none", "up"} => 
          sock'[c] \notin {"none", "up"}
  <2>1. CASE UNCHANGED sock
    BY <2>1
  <2>2. ASSUME NEW c \in Conns, Register(c) PROVE <1>2
    BY <2>2 DEF Register, Inv, Links, Unregistered, TypeOK
  <2>3. ASSUME NEW c \in Conns, LinkLost(c) \/ HandlerReturn(c) PROVE <1>2
    BY <2>3 DEF LinkLost, HandlerReturn, TypeOK
  <2>4. ASSUME NEW g \in Closers, CloseAgent(g) PROVE <1>2
    BY <2>4 DEF CloseAgent, SocketClosed, TypeOK
  <2>5. ASSUME NEW k \in Cmds, SendFailed(k) PROVE <1>2
    BY <2>5 DEF SendFailed, SocketClosed, TypeOK
  <2> QED
    BY <2>1, <2>2, <2>3, <2>4, <2>5
    DEF Next, HandlerStep, CloserStep, SendStep, Terminated, vars, connVars,
        Authenticate, Refuse, ReadMessage, RecheckOk, RecheckFail,
        HandleAccept, FinishLookup, FinishOffline, FinishLocked, Report,
        ReadFail, Unregister, Interrupt, DeleteRow, Disconnect, DeleteReturn,
        SendLookup, SendRefused, SendWritten
<1>3. \A k \in Cmds : spc[k] = "sent" =>
          chosen[k] \in Conns /\ sock[chosen[k]] # "none"
  BY DEF Inv, Links, LookedUp, TypeOK
<1> QED
  BY <1>1, <1>2, <1>3 DEF BrokenOf, TypeOK

\* The empty hub is the initial state of the contract.
LEMMA ContractInit == Init => Contract!Init
BY DEF Init, Contract!Init, StatusOf, BrokenOf

\* Each step of the hub is Send, Fail, Break or Settle of the contract, or
\* nothing.
LEMMA ContractNext ==
  ASSUME TypeOK, TypeOK', Inv, [Next]_vars
  PROVE  [Contract!Next]_(Contract!vars)
<1>1. /\ BrokenOf \subseteq BrokenOf'
      /\ BrokenOf' \subseteq {k \in Cmds : spc'[k] = "sent"}
  BY BrokenGrows
<1>2. \A k \in Cmds : StatusOf[k] = "sent" <=> spc[k] = "sent"
  BY DEF StatusOf
<1>3. \A k \in Cmds : StatusOf'[k] = "sent" <=> spc'[k] = "sent"
  BY DEF StatusOf
<1>5. ASSUME UNCHANGED <<StatusOf, outcome>> PROVE Contract!Break
  <2>1. BrokenOf' \subseteq Contract!Sent
    BY <1>1, <1>3, <1>5 DEF Contract!Sent
  <2> QED
    BY <1>1, <1>5, <2>1 DEF Contract!Break
<1>6. ASSUME UNCHANGED <<spc, outcome>> PROVE Contract!Break
  BY <1>5, <1>6 DEF StatusOf
<1>7. ASSUME NEW k \in Cmds, spc[k] \in {"new", "chosen"},
             spc' = [spc EXCEPT ![k] = "failed"], UNCHANGED outcome
      PROVE  Contract!Fail(k)
  <2>1. StatusOf[k] = "new" /\ StatusOf' = [StatusOf EXCEPT ![k] = "failed"]
    BY <1>7 DEF StatusOf, TypeOK
  <2>2. BrokenOf' \subseteq Contract!Sent
    BY <1>1, <1>2, <1>7 DEF Contract!Sent, TypeOK
  <2> QED
    BY <1>1, <1>7, <2>1, <2>2 DEF Contract!Fail
<1>8. ASSUME NEW k \in Cmds, SendLookup(k) PROVE Contract!Break \/ Contract!Fail(k)
  <2>1. CASE conns[CmdServer[k]] = NoConn
    BY <1>7, <1>8, <2>1 DEF SendLookup, reportVars
  <2>2. CASE conns[CmdServer[k]] # NoConn
    <3>1. UNCHANGED <<StatusOf, outcome>>
      BY <1>8, <2>2 DEF SendLookup, StatusOf, TypeOK, reportVars
    <3> QED
      BY <1>5, <3>1
  <2> QED
    BY <2>1, <2>2
<1>9. ASSUME NEW k \in Cmds, SendRefused(k) \/ SendFailed(k) PROVE Contract!Fail(k)
  BY <1>7, <1>9 DEF SendRefused, SendFailed, reportVars
<1>10. ASSUME NEW k \in Cmds, SendWritten(k) PROVE Contract!Send(k)
  <2>1. StatusOf[k] = "new" /\ StatusOf' = [StatusOf EXCEPT ![k] = "sent"]
    BY <1>10 DEF SendWritten, StatusOf, TypeOK
  <2>2. BrokenOf' \subseteq BrokenOf \cup {k}
    BY <1>10 DEF SendWritten, BrokenOf, TypeOK
  <2> QED
    BY <1>1, <1>10, <2>1, <2>2 DEF Contract!Send, SendWritten, reportVars
<1>11. ASSUME NEW c \in Conns, Report(c)
       PROVE  Contract!Settle(hand[c].cmd, hand[c].type)
  <2> DEFINE j == hand[c].cmd
  <2>1. hand[c] \in Messages /\ Reporting(c, j)
    BY <1>11 DEF Report, TypeOK, HoldsMessage, Reporting
  <2>2. j \in Cmds /\ Outstanding(j) /\ hand[c].type # "interrupted"
    BY <2>1 DEF Inv, Custody, Messages, ReplyTypes
  <2>3. outcome' = [outcome EXCEPT ![j] = <<hand[c].type>>]
    BY <1>11, <2>2, AppendToEmpty DEF Report, Outstanding
  <2>4. UNCHANGED <<StatusOf, BrokenOf>>
    BY <1>11 DEF Report, StatusOf, BrokenOf, sendVars, connVars
  <2> QED
    BY <1>2, <2>2, <2>3, <2>4 DEF Contract!Settle, Outstanding
<1>12. ASSUME NEW g \in Closers, Interrupt(g)
       PROVE  \E k \in Cmds : Contract!Settle(k, "interrupted")
  <2>1. PICK k \in ids[g] :
           /\ outcome' = [outcome EXCEPT ![k] = Append(@, "interrupted")]
           /\ UNCHANGED <<connVars, sendVars>>
    BY <1>12 DEF Interrupt
  <2>2. k \in Cmds /\ Outstanding(k) /\ closed[chosen[k]]
    BY DEF TypeOK, Inv, Custody
  <2>3. outcome' = [outcome EXCEPT ![k] = <<"interrupted">>]
    BY <2>1, <2>2, AppendToEmpty DEF Outstanding
  <2>4. k \in BrokenOf
    BY <2>2 DEF BrokenOf, Outstanding, Inv, Links, Settled, TypeOK
  <2>5. UNCHANGED <<StatusOf, BrokenOf>>
    BY <2>1 DEF StatusOf, BrokenOf, sendVars, connVars
  <2> QED
    BY <1>2, <2>2, <2>3, <2>4, <2>5 DEF Contract!Settle, Outstanding
<1>13. ASSUME NEW c \in Conns, Report(c) PROVE Contract!Next
  <2>1. hand[c] \in Messages /\ hand[c].type # "ack"
    BY <1>13 DEF Report, TypeOK, HoldsMessage
  <2>2. hand[c].cmd \in Cmds /\ hand[c].type \in Contract!Outcomes
    BY <2>1 DEF Messages, ReplyTypes, Contract!Outcomes
  <2> QED
    BY <1>11, <1>13, <2>2 DEF Contract!Next
<1>14. "interrupted" \in Contract!Outcomes
  BY DEF Contract!Outcomes
<1>15. CASE UNCHANGED <<spc, outcome>>
  BY <1>6, <1>15 DEF Contract!Next
<1>16. ASSUME NEW k \in Cmds, SendLookup(k) \/ SendStep(k) PROVE Contract!Next
  BY <1>8, <1>9, <1>10, <1>16 DEF SendStep, Contract!Next
<1>17. ASSUME NEW g \in Closers, Interrupt(g) PROVE Contract!Next
  BY <1>12, <1>14, <1>17 DEF Contract!Next
<1> QED
  BY <1>13, <1>15, <1>16, <1>17
  DEF Next, HandlerStep, CloserStep, Terminated, vars, sendVars, reportVars,
      Authenticate, Refuse, LinkLost, ReadMessage, Register, RecheckOk,
      RecheckFail, HandleAccept, FinishLookup, FinishOffline, FinishLocked,
      ReadFail, Unregister, HandlerReturn, CloseAgent, DeleteRow, Disconnect,
      DeleteReturn

\* agent_manager.Service keeps the contract it has with its callers: every step
\* of the hub's goroutines is a step of CommandContract or changes nothing there.
THEOREM HubKeepsContract == Spec => KeepsContract
<1>1. TypeOK /\ TypeOK' /\ Inv /\ [Next]_vars => [Contract!Next]_(Contract!vars)
  BY ContractNext
<1> QED
  BY <1>1, ContractInit, Invariance, PTL DEF Spec, KeepsContract, Contract!Spec
=============================================================================
