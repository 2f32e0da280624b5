--------------------------- MODULE ServerRegistry ---------------------------
(***************************************************************************)
(* The panel's records of servers, of the game saves (dst) on them and of  *)
(* the deploy task filed with each server, as concurrent requests of       *)
(* several users change them.  The database runs one statement at a time;  *)
(* between two statements of a request any other request may run.  A row   *)
(* is named by the request that inserts it: ids are auto-incremented, so   *)
(* none is given twice.  They are also small numbers, so that a request    *)
(* may name any of them, its row there, gone, never there or yet to come.  *)
(* Both databases the panel can open are covered: while a transaction is   *)
(* open SQLite lets others read only, MySQL lets them write other rows     *)
(* too.                                                                    *)
(***************************************************************************)
EXTENDS Naturals, FiniteSets

CONSTANTS Users, Addresses, Slots, Calls, NoRow

VARIABLES
    server,    \* server[s]: the row [user, address], or NoRow
    dst,       \* dst[d]: the row [user, server, slot], or NoRow
    task,      \* the servers a deploy task was filed for
    req,       \* req[c]: what the request asks, once it has begun
    pc,        \* pc[c]: the statement it is about to run
    answer,    \* answer[c]: the reply of a request that is done
    seen       \* history: what was so of its target at some moment of c

vars == <<server, dst, task, req, pc, answer, seen>>

ServerRow == [user : Users, address : Addresses]
DstRow == [user : Users, server : Calls, slot : Slots]

\* What can be asked: the handlers take any id that is a positive number.
Requests ==
    [op : {"createServer"}, user : Users, address : Addresses]
    \cup [op : {"updateServer"}, user : Users, target : Calls,
          address : Addresses]
    \cup [op : {"deleteServer"}, user : Users, target : Calls]
    \cup [op : {"createDst"}, user : Users, target : Calls, slot : Slots]
    \cup [op : {"updateDst", "deleteDst"}, user : Users, target : Calls]

\* No row is not a row, nor something that is asked.
ASSUME NoRowAssumption ==
    NoRow \notin ServerRow \cup DstRow \cup Requests

Waiting == {"insertServer", "insertTask", "commit", "updateServer",
            "deleteServer", "recheck", "lookup", "insertDst", "updateDst", "deleteDst"}

Refusals == {"notFound", "conflict"}

\* What can be so of the row a request is about: besides the refusals, that the
\* row is there and that it reads as asked.
Facts == Refusals \cup {"found", "asIs"}

TypeOK ==
    /\ server \in [Calls -> ServerRow \cup {NoRow}]
    /\ dst \in [Calls -> DstRow \cup {NoRow}]
    /\ task \subseteq Calls
    /\ req \in [Calls -> Requests \cup {NoRow}]
    /\ pc \in [Calls -> Waiting \cup {"none", "done"}]
    /\ answer \in [Calls -> Refusals \cup {"none", "ok", "error"}]
    /\ seen \in [Calls -> SUBSET Facts]
    /\ \A c \in Calls : (pc[c] = "none") = (req[c] = NoRow)
                        /\ (pc[c] = "done") = (answer[c] # "none")

Init ==
    /\ server = [c \in Calls |-> NoRow]
    /\ dst = [c \in Calls |-> NoRow]
    /\ task = {}
    /\ req = [c \in Calls |-> NoRow]
    /\ pc = [c \in Calls |-> "none"]
    /\ answer = [c \in Calls |-> "none"]
    /\ seen = [c \in Calls |-> {}]

-----------------------------------------------------------------------------
(* What the statements select *)

\* Mutant: the user is left out of the WHERE clause.
AnyRow(row, u) == row # NoRow

\* WHERE id = ? AND user_id = ?
OwnRow(row, u) == row # NoRow /\ row.user = u

OwnServer(c) == OwnRow(server[req[c].target], req[c].user)
OwnDst(c) == OwnRow(dst[req[c].target], req[c].user)

HasDst(s) == \E d \in Calls : dst[d] # NoRow /\ dst[d].server = s

\* Unique index (user, ip, port): the row another server has at this address.
AddressTaken(c, s) ==
    \E o \in Calls \ {s} : server[o] # NoRow /\ server[o].user = req[c].user
                         /\ server[o].address = req[c].address

\* A row inserted but not committed: statements with its id or its key wait.
InTransaction(o) == pc[o] \in {"insertTask", "commit"}
AddressLocked(c) ==
    \E o \in Calls \ {c} : InTransaction(o) /\ req[o].user = req[c].user
                           /\ req[o].address = req[c].address

SlotTaken(c) ==
    \E d \in Calls : dst[d] # NoRow /\ dst[d].server = req[c].target
                     /\ dst[d].slot = req[c].slot

OnServer == {"updateServer", "deleteServer", "createDst"}
OnDst == {"updateDst", "deleteDst"}

\* What is so now of the row a request is about.
Holds(c) ==
    LET op == req[c].op
    IN  {r \in Facts :
            \/ r = "notFound" /\ op \in OnServer /\ ~OwnServer(c)
            \/ r = "notFound" /\ op \in OnDst /\ ~OwnDst(c)
            \/ r = "found" /\ op \in OnServer /\ OwnServer(c)
            \/ r = "asIs" /\ op = "updateServer" /\ OwnServer(c)
               /\ server[req[c].target].address = req[c].address
            \/ r = "conflict" /\ op = "createServer" /\ AddressTaken(c, c)
            \/ r = "conflict" /\ op = "updateServer"
               /\ AddressTaken(c, req[c].target)
            \/ r = "conflict" /\ op = "deleteServer" /\ OwnServer(c)
               /\ HasDst(req[c].target)
            \/ r = "conflict" /\ op = "createDst" /\ SlotTaken(c)}

Observe ==
    seen' = [c \in Calls |-> IF pc[c] = "done" \/ pc'[c] = "none" THEN seen[c]
                             ELSE seen[c] \cup Holds(c)']

-----------------------------------------------------------------------------
(* Steps *)

Goto(c, p) ==
    /\ pc' = [pc EXCEPT ![c] = p]
    /\ UNCHANGED <<req, answer>>

\* Mutant: the call goes on after its reply, for want of a return.
ReplyAndGoOn(c, a) ==
    /\ answer' = [answer EXCEPT ![c] = a]
    /\ UNCHANGED <<req, pc>>

Reply(c, a) ==
    /\ pc' = [pc EXCEPT ![c] = "done"]
    /\ answer' = [answer EXCEPT ![c] = a]
    /\ UNCHANGED req

\* A statement that took effect is confirmed, or its confirmation is lost.
Confirmed(c) == Reply(c, "ok") \/ Reply(c, "error")

FirstStep(op) ==
    CASE op = "createServer" -> "insertServer"
      [] op = "createDst" -> "lookup"
      [] OTHER -> op

\* The server row that Create inserts.
Inserted(c) == [user |-> req[c].user, address |-> req[c].address]

Begin(c) ==
    /\ pc[c] = "none"
    /\ \E r \in Requests :
        /\ req' = [req EXCEPT ![c] = r]
        /\ pc' = [pc EXCEPT ![c] = FirstStep(r.op)]
    /\ UNCHANGED <<server, dst, task, answer>>
    /\ Observe

\* Mutant: both inserts run outside a transaction.
RowsAtOnce(c) == [server EXCEPT ![c] = Inserted(c)]

\* ExecTx: nothing of a transaction is seen before its commit.
RowsInTx(c) == server

InsertServer(c) ==
    /\ pc[c] = "insertServer"
    /\ ~AddressLocked(c)
    /\ IF AddressTaken(c, c)
       THEN Reply(c, "conflict") /\ UNCHANGED server
       ELSE Goto(c, "insertTask") /\ server' = RowsInTx(c)
    /\ UNCHANGED <<dst, task>>
    /\ Observe

InsertTask(c) ==
    /\ pc[c] = "insertTask"
    /\ Goto(c, "commit")
    /\ UNCHANGED <<server, dst, task>>
    /\ Observe

Commit(c) ==
    /\ pc[c] = "commit"
    /\ server' = [server EXCEPT ![c] = Inserted(c)]
    /\ task' = task \cup {c}
    /\ Confirmed(c)
    /\ UNCHANGED dst
    /\ Observe

\* To MySQL a row that already reads as asked is not affected; it is looked up
\* like one that is missing.
UpdateServer(c) ==
    /\ pc[c] = "updateServer"
    /\ ~InTransaction(req[c].target)
    /\ \/ /\ OwnServer(c) => server[req[c].target].address = req[c].address
          /\ Goto(c, "recheck")
          /\ UNCHANGED server
       \/ /\ OwnServer(c)
          /\ ~AddressLocked(c)
          /\ IF AddressTaken(c, req[c].target)
             THEN Reply(c, "conflict") /\ UNCHANGED server
             ELSE /\ server' = [server EXCEPT
                                   ![req[c].target].address = req[c].address]
                  /\ Confirmed(c)
    /\ UNCHANGED <<dst, task>>
    /\ Observe

\* One statement: DELETE ... WHERE id AND user_id AND NOT EXISTS (saves on it).
DeleteServer(c) ==
    /\ pc[c] = "deleteServer"
    /\ ~InTransaction(req[c].target)
    /\ IF OwnServer(c) /\ ~HasDst(req[c].target)
       THEN server' = [server EXCEPT ![req[c].target] = NoRow] /\ Confirmed(c)
       ELSE Goto(c, "recheck") /\ UNCHANGED server
    /\ UNCHANGED <<dst, task>>
    /\ Observe

\* Mutant: no row affected is taken for a server that has saves.
Presumed(c) == "conflict"

\* Why no row was affected, by GetByID.
Reason(c) ==
    LET there == IF req[c].op = "updateDst" THEN OwnDst(c) ELSE OwnServer(c)
    IN  IF ~there THEN "notFound"
        ELSE IF req[c].op = "deleteServer" THEN "conflict" ELSE "ok"

Recheck(c) ==
    /\ pc[c] = "recheck"
    /\ Reply(c, Reason(c))
    /\ UNCHANGED <<server, dst, task>>
    /\ Observe

\* Create's GetByID of the server a save is for.
Lookup(c) ==
    /\ pc[c] = "lookup"
    /\ IF OwnServer(c) THEN Goto(c, "insertDst") ELSE Reply(c, "notFound")
    /\ UNCHANGED <<server, dst, task>>
    /\ Observe

NewDst(c) ==
    [user |-> req[c].user, server |-> req[c].target, slot |-> req[c].slot]

\* Nothing ties the row to the server's any more: there is no foreign key.
InsertDst(c) ==
    /\ pc[c] = "insertDst"
    /\ IF SlotTaken(c)
       THEN Reply(c, "conflict") /\ UNCHANGED dst
       ELSE /\ dst' = [dst EXCEPT ![c] = NewDst(c)]
            /\ Confirmed(c)
    /\ UNCHANGED <<server, task>>
    /\ Observe

\* What an update writes to a save is not told apart here.
UpdateDst(c) ==
    /\ pc[c] = "updateDst"
    /\ Goto(c, "recheck") \/ (OwnDst(c) /\ Confirmed(c))
    /\ UNCHANGED <<server, dst, task>>
    /\ Observe

DeleteDst(c) ==
    /\ pc[c] = "deleteDst"
    /\ IF OwnDst(c)
       THEN dst' = [dst EXCEPT ![req[c].target] = NoRow] /\ Confirmed(c)
       ELSE Reply(c, "notFound") /\ UNCHANGED dst
    /\ UNCHANGED <<server, task>>
    /\ Observe

\* A statement fails, the request is cancelled, a transaction is rolled back.
Fail(c) ==
    /\ pc[c] \in Waiting
    /\ Reply(c, "error")
    /\ UNCHANGED <<server, dst, task>>
    /\ Observe

Finished == (\A c \in Calls : pc[c] = "done") /\ UNCHANGED vars

Next ==
    \/ \E c \in Calls :
        \/ Begin(c) \/ InsertServer(c) \/ InsertTask(c) \/ Commit(c)
        \/ UpdateServer(c) \/ DeleteServer(c) \/ Recheck(c)
        \/ Lookup(c) \/ InsertDst(c) \/ UpdateDst(c) \/ DeleteDst(c) \/ Fail(c)
    \/ Finished

Spec == Init /\ [][Next]_vars

-----------------------------------------------------------------------------
(* Properties *)

\* Create files a server and its deploy task together: no server is ever there
\* without the task that deploys its agent.
EveryServerHasItsTask == \A s \in Calls : server[s] # NoRow => s \in task

\* A save belongs to the user whose server it is on, however its creation
\* overlapped with the other user's requests.
SavesStayWithTheirOwner ==
    \A d, s \in Calls :
        dst[d] # NoRow /\ server[s] # NoRow /\ dst[d].server = s
            => dst[d].user = server[s].user

\* The answers that say something of a row: the refusals, and an Update's ok,
\* which says that the server now reads as asked.  What an update writes to a
\* save is left out, and so is its ok.
Fact(c) ==
    IF req[c].op = "updateServer" /\ answer[c] = "ok" THEN "asIs" ELSE answer[c]

\* The look that follows a statement which affected no row met a server that
\* came into being after it.
CameBetween(c) ==
    /\ <<req[c].op, Fact(c)>> \in
          {<<"deleteServer", "conflict">>, <<"updateServer", "asIs">>}
    /\ {"notFound", "found"} \subseteq seen[c]

\* A request that is told "no such row" or "conflict", and an Update of a server
\* that is told "ok", was told what really was so at some moment of it, although
\* Update and Delete find out why they affected no row only by a second
\* statement.  The one exception: the server named came into being between the
\* two; then Delete says that it has saves, and Update that it was written.
AnswersWereRight ==
    \A c \in Calls : answer[c] # "none" /\ Fact(c) \in Facts =>
        Fact(c) \in seen[c] \/ CameBetween(c)

\* A row changes or goes only by a request of its own user.
OnlyOwnersChangeRows ==
    [][\A s \in Calls :
        /\ server[s] # NoRow /\ server'[s] # server[s] =>
               \E c \in Calls : pc[c] # pc'[c] /\ req[c].user = server[s].user
        /\ dst[s] # NoRow /\ dst'[s] # dst[s] =>
               \E c \in Calls : pc[c] # pc'[c] /\ req[c].user = dst[s].user]_vars

\* "The server still has saves, delete them first": Delete refuses as long as
\* there are saves, so a save is never left without its server.
NoOrphanSave ==
    \A d \in Calls : dst[d] # NoRow => server[dst[d].server] # NoRow
=============================================================================
