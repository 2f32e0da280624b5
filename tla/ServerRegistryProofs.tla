------------------------- MODULE ServerRegistryProofs -------------------------
(***************************************************************************)
(* Proofs about ServerRegistry for any number of users, addresses, slots   *)
(* and requests, whatever ids they name.  A row carries the request that   *)
(* inserts it; the proofs rest on what a statement found once and no other *)
(* request can undo: an id that was given keeps its user.                  *)
(***************************************************************************)
EXTENDS ServerRegistry, TLAPS

USE NoRowAssumption

-----------------------------------------------------------------------------
(* Types, and what a request at some statement was asked *)

\* The operations whose code has a statement.
InPlace ==
    \A c \in Calls :
        /\ pc[c] \in {"insertServer", "insertTask", "commit"} =>
              req[c].op = "createServer"
        /\ pc[c] = "updateServer" => req[c].op = "updateServer"
        /\ pc[c] = "deleteServer" => req[c].op = "deleteServer"
        /\ pc[c] = "recheck" =>
              req[c].op \in {"updateServer", "deleteServer", "updateDst"}
        /\ pc[c] \in {"lookup", "insertDst"} => req[c].op = "createDst"
        /\ pc[c] = "updateDst" => req[c].op = "updateDst"
        /\ pc[c] = "deleteDst" => req[c].op = "deleteDst"

Basics == TypeOK /\ InPlace

\* The ids that requests of this operation have given.
Given(op) == {o \in Calls : pc[o] = "done" /\ req[o].op = op}

\* The user of a save is the one whose server it was created on.
SameUser(d) ==
    /\ req[d].target \in Given("createServer")
    /\ req[d].user = req[req[d].target].user

\* A row is the one its request inserted, and has its user.
Keyed ==
    \A c \in Calls :
        /\ server[c] # NoRow =>
              c \in Given("createServer") /\ server[c].user = req[c].user
        /\ dst[c] # NoRow =>
              c \in Given("createDst") /\ dst[c] = NewDst(c) /\ SameUser(c)
        /\ pc[c] = "insertDst" => SameUser(c)

\* What is so now has been noted, and a statement that affected no row has found
\* the reason its request may be answered with, or no row.
Noted ==
    \A c \in Calls :
        /\ pc[c] \notin {"none", "done"} => Holds(c) \subseteq seen[c]
        /\ pc[c] = "recheck" /\ req[c].op = "deleteServer" =>
              "conflict" \in seen[c] \/ "notFound" \in seen[c]
        /\ pc[c] = "recheck" /\ req[c].op = "updateServer" =>
              "asIs" \in seen[c] \/ "notFound" \in seen[c]

\* The fields of a request.
LEMMA RequestFields ==
    ASSUME NEW r \in Requests
    PROVE  /\ r.op \in {"createServer"} \cup OnServer \cup OnDst
           /\ r.user \in Users
           /\ r.op \in {"createServer", "updateServer"} => r.address \in Addresses
           /\ r.op \in OnServer \cup OnDst => r.target \in Calls
           /\ r.op = "createDst" => r.slot \in Slots
<1>1. CASE r \in [op : {"createServer"}, user : Users, address : Addresses]
  BY <1>1 DEF OnServer, OnDst
<1>2. CASE r \in [op : {"updateServer"}, user : Users, target : Calls,
                  address : Addresses]
  BY <1>2 DEF OnServer, OnDst
<1>3. CASE r \in [op : {"deleteServer"}, user : Users, target : Calls]
  BY <1>3 DEF OnServer, OnDst
<1>4. CASE r \in [op : {"createDst"}, user : Users, target : Calls, slot : Slots]
  BY <1>4 DEF OnServer, OnDst
<1>5. CASE r \in [op : {"updateDst", "deleteDst"}, user : Users, target : Calls]
  BY <1>5 DEF OnServer, OnDst
<1> QED
  BY <1>1, <1>2, <1>3, <1>4, <1>5 DEF Requests

-----------------------------------------------------------------------------
(* What a step may do *)

\* The steps of a request.
CallStep(c) ==
    \/ Begin(c) \/ InsertServer(c) \/ InsertTask(c) \/ Commit(c)
    \/ UpdateServer(c) \/ DeleteServer(c) \/ Recheck(c)
    \/ Lookup(c) \/ InsertDst(c) \/ UpdateDst(c) \/ DeleteDst(c) \/ Fail(c)

\* Nothing of a request changes but the history.
Rests(c) == pc'[c] = pc[c] /\ req'[c] = req[c] /\ answer'[c] = answer[c]

\* What stays as it is, whoever steps.
Lasting ==
    \A c \in Calls :
        /\ pc[c] # "none" => pc'[c] # "none" /\ req'[c] = req[c]
        /\ pc[c] = "done" => Rests(c)

\* A step of one request leaves the others alone; every step is noted.
LEMMA OthersRest ==
    ASSUME TypeOK, NEW c \in Calls, CallStep(c)
    PROVE  /\ \A d \in Calls \ {c} : Rests(d)
           /\ Lasting
           /\ Observe
<1> USE DEF TypeOK, Rests, Lasting, Goto, Reply, Confirmed
<1>1. CASE Begin(c)
  BY <1>1 DEF Begin
<1>2. CASE InsertServer(c) \/ InsertTask(c) \/ Commit(c)
  BY <1>2 DEF InsertServer, InsertTask, Commit
<1>3. CASE UpdateServer(c)
  BY <1>3 DEF UpdateServer
<1>4. CASE DeleteServer(c)
  BY <1>4 DEF DeleteServer
<1>5. CASE Recheck(c) \/ Lookup(c)
  BY <1>5 DEF Recheck, Lookup
<1>6. CASE InsertDst(c)
  BY <1>6 DEF InsertDst
<1>7. CASE UpdateDst(c)
  BY <1>7 DEF UpdateDst
<1>8. CASE DeleteDst(c)
  BY <1>8 DEF DeleteDst
<1>9. CASE Fail(c)
  BY <1>9 DEF Fail, Waiting
<1> QED
  BY <1>1, <1>2, <1>3, <1>4, <1>5, <1>6, <1>7, <1>8, <1>9 DEF CallStep

\* A step changes one request at most.
LEMMA StepFrame ==
    ASSUME TypeOK, [Next]_vars
    PROVE  /\ Lasting
           /\ \A c \in Calls : ~ Rests(c) => CallStep(c)
<1>1. CASE \E c \in Calls : CallStep(c)
  BY <1>1, OthersRest
<1>2. CASE UNCHANGED vars
  BY <1>2 DEF vars, Lasting, Rests
<1> QED
  BY <1>1, <1>2 DEF Next, CallStep, Finished

\* An id stays given.
LEMMA GivenLasts ==
    ASSUME Lasting, NEW op
    PROVE  Given(op) \subseteq Given(op)'
BY DEF Lasting, Rests, Given

-----------------------------------------------------------------------------
(* The basics are invariant *)

\* There is nothing yet to be out of place.
LEMMA InitBasics == Init => Basics
BY DEF Init, Basics, TypeOK, InPlace

\* The statements each operation goes through, and the reply it ends with.
LEMMA CallBasics ==
    ASSUME Basics, NEW c \in Calls, CallStep(c)
    PROVE  TypeOK' /\ InPlace'
<1>1. /\ TypeOK /\ InPlace
      /\ pc[c] # "none" => req[c] \in Requests
  BY DEF Basics, TypeOK
<1>2. pc[c] # "none" =>
        /\ req[c].user \in Users
        /\ req[c].op \in {"createServer", "updateServer"} =>
              req[c].address \in Addresses
        /\ req[c].op \in OnServer \cup OnDst => req[c].target \in Calls
        /\ req[c].op = "createDst" => req[c].slot \in Slots
  BY <1>1, RequestFields
<1>3. seen' \in [Calls -> SUBSET Facts]
  <2>1. \A d : Holds(d)' \subseteq Facts
    BY DEF Holds
  <2> QED
    BY <1>1, <2>1, OthersRest DEF Observe, TypeOK
<1>4. /\ server' \in [Calls -> ServerRow \cup {NoRow}]
      /\ dst' \in [Calls -> DstRow \cup {NoRow}]
      /\ task' \subseteq Calls
  <2> USE <1>1, <1>2 DEF TypeOK, InPlace, OnServer, OnDst
  <2>1. CASE Begin(c)
    BY <2>1 DEF Begin
  <2>2. CASE InsertServer(c) \/ InsertTask(c)
    BY <2>2 DEF InsertServer, InsertTask, RowsInTx
  <2>3. CASE Commit(c)
    BY <2>3 DEF Commit, Inserted, ServerRow
  <2>4. CASE UpdateServer(c)
    BY <2>4 DEF UpdateServer, OwnServer, OwnRow, ServerRow
  <2>5. CASE DeleteServer(c)
    BY <2>5 DEF DeleteServer
  <2>6. CASE Recheck(c) \/ Lookup(c)
    BY <2>6 DEF Recheck, Lookup
  <2>7. CASE InsertDst(c)
    BY <2>7 DEF InsertDst, NewDst, DstRow
  <2>8. CASE UpdateDst(c)
    BY <2>8 DEF UpdateDst
  <2>9. CASE DeleteDst(c)
    BY <2>9 DEF DeleteDst
  <2>10. CASE Fail(c)
    BY <2>10 DEF Fail
  <2> QED
    BY <2>1, <2>2, <2>3, <2>4, <2>5, <2>6, <2>7, <2>8, <2>9, <2>10 DEF CallStep
<1>5. /\ req' \in [Calls -> Requests \cup {NoRow}]
      /\ pc' \in [Calls -> Waiting \cup {"none", "done"}]
      /\ answer' \in [Calls -> Refusals \cup {"none", "ok", "error"}]
      /\ \A d \in Calls : (pc'[d] = "none") = (req'[d] = NoRow)
                          /\ (pc'[d] = "done") = (answer'[d] # "none")
      /\ InPlace'
  <2> USE DEF TypeOK, InPlace, Goto, Reply, Confirmed, Waiting, Refusals
  <2>1. CASE Begin(c)
    <3>1. PICK r \in Requests :
            /\ req' = [req EXCEPT ![c] = r]
            /\ pc' = [pc EXCEPT ![c] = FirstStep(r.op)]
      BY <2>1 DEF Begin
    <3>2. r.op \in {"createServer", "updateServer", "deleteServer", "createDst",
                    "updateDst", "deleteDst"}
      BY RequestFields DEF OnServer, OnDst
    <3>3. pc[c] = "none" /\ UNCHANGED answer
      BY <2>1 DEF Begin
    <3>4. r # NoRow
      OBVIOUS
    <3> QED
      BY <1>1, <3>1, <3>2, <3>3, <3>4 DEF FirstStep
  <2>2. CASE InsertServer(c)
    BY <1>1, <2>2 DEF InsertServer
  <2>3. CASE InsertTask(c)
    BY <1>1, <2>3 DEF InsertTask
  <2>4. CASE Commit(c)
    BY <1>1, <2>4 DEF Commit
  <2>5. CASE UpdateServer(c)
    BY <1>1, <2>5 DEF UpdateServer
  <2>6. CASE DeleteServer(c)
    BY <1>1, <2>6 DEF DeleteServer
  <2>7. CASE Recheck(c)
    BY <1>1, <2>7 DEF Recheck, Reason
  <2>8. CASE Lookup(c)
    BY <1>1, <2>8 DEF Lookup
  <2>9. CASE InsertDst(c)
    BY <1>1, <2>9 DEF InsertDst
  <2>10. CASE UpdateDst(c)
    BY <1>1, <2>10 DEF UpdateDst
  <2>11. CASE DeleteDst(c)
    BY <1>1, <2>11 DEF DeleteDst
  <2>12. CASE Fail(c)
    BY <1>1, <2>12 DEF Fail
  <2> QED
    BY <2>1, <2>2, <2>3, <2>4, <2>5, <2>6, <2>7, <2>8, <2>9, <2>10, <2>11, <2>12
    DEF CallStep
<1> QED
  BY <1>3, <1>4, <1>5 DEF TypeOK

\* Every step keeps the basics.
LEMMA NextBasics == Basics /\ [Next]_vars => Basics'
<1> SUFFICES ASSUME Basics, [Next]_vars PROVE Basics'
  OBVIOUS
<1>1. CASE \E c \in Calls : CallStep(c)
  BY <1>1, CallBasics DEF Basics
<1>2. CASE UNCHANGED vars
  BY <1>2 DEF vars, Basics, TypeOK, InPlace
<1> QED
  BY <1>1, <1>2 DEF Next, CallStep, Finished

-----------------------------------------------------------------------------
(* Whose the rows are *)

\* What makes a row change.
ServerChange(c, s) ==
    /\ pc'[c] = "done"
    /\ \/ pc[c] = "commit" /\ s = c /\ server'[s] = Inserted(c)
       \/ /\ pc[c] = "updateServer" /\ s = req[c].target /\ OwnServer(c)
          /\ server'[s].user = server[s].user
       \/ /\ pc[c] = "deleteServer" /\ s = req[c].target /\ OwnServer(c)
          /\ server'[s] = NoRow

DstChange(c, d) ==
    /\ pc'[c] = "done"
    /\ \/ pc[c] = "insertDst" /\ d = c /\ dst'[d] = NewDst(c)
       \/ /\ pc[c] = "deleteDst" /\ d = req[c].target /\ OwnDst(c)
          /\ dst'[d] = NoRow

\* Which statement changes a row, and what comes before one that does.
LEMMA RowChanges ==
    ASSUME TypeOK, NEW c \in Calls, CallStep(c), NEW s \in Calls
    PROVE  /\ server'[s] # server[s] => ServerChange(c, s)
           /\ dst'[s] # dst[s] => DstChange(c, s)
           /\ pc'[c] = "insertDst" /\ pc[c] # "insertDst" => Lookup(c)
           /\ pc'[c] = "recheck" /\ pc[c] # "recheck" =>
                 UpdateServer(c) \/ DeleteServer(c) \/ UpdateDst(c)
<1> USE DEF TypeOK, ServerChange, DstChange, Goto, Reply, Confirmed
<1>1. CASE Begin(c)
  BY <1>1 DEF Begin, FirstStep, Requests
<1>2. CASE InsertServer(c) \/ InsertTask(c)
  BY <1>2 DEF InsertServer, InsertTask, RowsInTx
<1>3. CASE Commit(c)
  BY <1>3 DEF Commit
<1>4. CASE UpdateServer(c)
  <2>1. CASE server' = server
    BY <1>4, <2>1 DEF UpdateServer
  <2>2. CASE server' # server
    <3>1. /\ OwnServer(c) /\ pc[c] = "updateServer" /\ UNCHANGED dst
          /\ server' = [server EXCEPT ![req[c].target].address = req[c].address]
          /\ pc' = [pc EXCEPT ![c] = "done"]
      BY <1>4, <2>2 DEF UpdateServer
    <3>2. s = req[c].target /\ server'[s] # server[s] =>
            server'[s].user = server[s].user
      <4> SUFFICES ASSUME s = req[c].target
                   PROVE  server'[s].user = server[s].user
        OBVIOUS
      <4>1. server[s] \in ServerRow
        BY <3>1 DEF OwnServer, OwnRow
      <4> QED
        BY <3>1, <4>1 DEF ServerRow
    <3> QED
      BY <3>1, <3>2
  <2> QED
    BY <2>1, <2>2
<1>5. CASE DeleteServer(c)
  BY <1>5 DEF DeleteServer
<1>6. CASE Recheck(c) \/ Lookup(c)
  BY <1>6 DEF Recheck, Lookup
<1>7. CASE InsertDst(c)
  BY <1>7 DEF InsertDst
<1>8. CASE UpdateDst(c)
  BY <1>8 DEF UpdateDst
<1>9. CASE DeleteDst(c)
  BY <1>9 DEF DeleteDst
<1>10. CASE Fail(c)
  BY <1>10 DEF Fail
<1> QED
  BY <1>1, <1>2, <1>3, <1>4, <1>5, <1>6, <1>7, <1>8, <1>9, <1>10 DEF CallStep

\* A row that changes with a step changes by some request's statement.
LEMMA ChangesHaveCalls ==
    ASSUME TypeOK, [Next]_vars, NEW s \in Calls
    PROVE  /\ server'[s] # server[s] => \E c \in Calls : ServerChange(c, s)
           /\ dst'[s] # dst[s] => \E c \in Calls : DstChange(c, s)
<1>1. CASE \E c \in Calls : CallStep(c)
  BY <1>1, RowChanges
<1>2. CASE UNCHANGED vars
  BY <1>2 DEF vars
<1> QED
  BY <1>1, <1>2 DEF Next, CallStep, Finished

\* Nothing changes whose a row is: the id was given with its user.
LEMMA KeyedStep == Basics /\ Keyed /\ [Next]_vars => Keyed'
<1> SUFFICES ASSUME Basics, Keyed, [Next]_vars, NEW s \in Calls
             PROVE  /\ server'[s] # NoRow =>
                          /\ s \in Given("createServer")'
                          /\ server'[s].user = req'[s].user
                    /\ dst'[s] # NoRow =>
                          /\ s \in Given("createDst")'
                          /\ dst'[s] = NewDst(s)'
                          /\ SameUser(s)'
                    /\ pc'[s] = "insertDst" => SameUser(s)'
  BY DEF Keyed
<1>1. TypeOK /\ InPlace
  BY DEF Basics
<1>2. Lasting /\ \A c \in Calls : ~ Rests(c) => CallStep(c)
  BY <1>1, StepFrame
<1>3. \A op : Given(op) \subseteq Given(op)'
  BY <1>2, GivenLasts
<1>4. ASSUME server'[s] # NoRow
      PROVE  s \in Given("createServer")' /\ server'[s].user = req'[s].user
  <2>1. CASE server'[s] = server[s]
    BY <1>2, <1>3, <1>4, <2>1 DEF Keyed, Given, Lasting
  <2>2. CASE server'[s] # server[s]
    <3>1. PICK c \in Calls : ServerChange(c, s)
      BY <1>1, <2>2, ChangesHaveCalls
    <3>2. CASE pc[c] = "commit" /\ s = c /\ server'[s] = Inserted(c)
      <4>1. req'[s] = req[s] /\ req[s].op = "createServer"
        BY <1>1, <1>2, <3>2 DEF Lasting, InPlace
      <4> QED
        BY <3>1, <3>2, <4>1 DEF ServerChange, Inserted, Given
    <3>3. CASE /\ s = req[c].target /\ OwnServer(c)
               /\ server'[s].user = server[s].user
      <4>1. server[s] # NoRow
        BY <3>3 DEF OwnServer, OwnRow
      <4> QED
        BY <1>2, <1>3, <3>3, <4>1 DEF Keyed, Given, Lasting
    <3> QED
      BY <1>4, <3>1, <3>2, <3>3 DEF ServerChange
  <2> QED
    BY <2>1, <2>2
<1>5. ASSUME pc[s] # "none", req[s].op = "createDst", SameUser(s)
      PROVE  SameUser(s)' /\ NewDst(s)' = NewDst(s)
  <2>1. req[s].target \in Calls /\ pc[req[s].target] = "done"
    BY <1>5 DEF SameUser, Given
  <2>2. req'[s] = req[s] /\ req'[req[s].target] = req[req[s].target]
    BY <1>2, <1>5, <2>1 DEF Lasting
  <2> QED
    BY <1>3, <1>5, <2>2 DEF SameUser, NewDst
<1>6. ASSUME pc'[s] = "insertDst" PROVE SameUser(s)'
  <2>1. CASE pc[s] = "insertDst"
    BY <1>1, <1>5, <2>1 DEF Keyed, InPlace
  <2>2. CASE pc[s] # "insertDst"
    <3>1. Lookup(s)
      BY <1>1, <1>2, <1>6, <2>2, RowChanges DEF Rests
    <3>2. /\ pc[s] = "lookup" /\ req[s].op = "createDst" /\ OwnServer(s)
          /\ req[s].target \in Calls
      <4>1. /\ pc[s] = "lookup" /\ req[s].op = "createDst" /\ OwnServer(s)
            /\ req[s] \in Requests
        BY <1>1, <1>6, <3>1 DEF Lookup, Reply, TypeOK, InPlace
      <4> QED
        BY <4>1, RequestFields DEF OnServer
    <3>3. SameUser(s)
      BY <3>2 DEF OwnServer, OwnRow, Keyed, SameUser
    <3> QED
      BY <1>5, <3>2, <3>3
  <2> QED
    BY <2>1, <2>2
<1>7. ASSUME dst'[s] # NoRow
      PROVE  /\ s \in Given("createDst")'
             /\ dst'[s] = NewDst(s)'
             /\ SameUser(s)'
  <2>1. CASE dst'[s] = dst[s]
    BY <1>3, <1>5, <1>7, <2>1 DEF Keyed, Given
  <2>2. CASE dst'[s] # dst[s]
    <3>1. PICK c \in Calls : DstChange(c, s)
      BY <1>1, <2>2, ChangesHaveCalls
    <3>2. /\ pc[s] = "insertDst" /\ dst'[s] = NewDst(s) /\ pc'[s] = "done"
          /\ req[s].op = "createDst" /\ SameUser(s)
      BY <1>1, <1>7, <3>1 DEF DstChange, Keyed, InPlace
    <3>3. req'[s] = req[s]
      BY <1>2, <3>2 DEF Lasting
    <3> QED
      BY <1>5, <3>2, <3>3 DEF Given
  <2> QED
    BY <2>1, <2>2
<1> QED
  BY <1>4, <1>6, <1>7

-----------------------------------------------------------------------------
(* The answers were right *)

\* What was noted stays noted, and what is so now is noted for a request that
\* has not been done before.
LEMMA Observed ==
    ASSUME Basics, Noted, [Next]_vars, NEW c \in Calls
    PROVE  /\ seen[c] \subseteq seen'[c]
           /\ pc'[c] \notin {"none", "done"} => Holds(c)' \subseteq seen'[c]
           /\ pc[c] # "done" /\ pc'[c] = "done" => Holds(c)' \subseteq seen'[c]
<1>1. TypeOK
  BY DEF Basics
<1>2. CASE \E d \in Calls : CallStep(d)
  <2>1. Observe /\ Lasting
    BY <1>1, <1>2, OthersRest
  <2>2. seen'[c] = IF pc[c] = "done" \/ pc'[c] = "none" THEN seen[c]
                   ELSE seen[c] \cup Holds(c)'
    BY <2>1 DEF Observe
  <2>3. pc[c] = "done" => pc'[c] = "done"
    BY <2>1 DEF Lasting, Rests
  <2> QED
    BY <2>2, <2>3
<1>3. CASE UNCHANGED vars
  BY <1>3
  DEF vars, Noted, Holds, OwnServer, OwnDst, OwnRow, HasDst, AddressTaken,
      SlotTaken
<1> QED
  BY <1>2, <1>3 DEF Next, CallStep, Finished

\* What the second statement of Update and Delete goes by has been noted.
LEMMA NotedStep == Basics /\ Noted /\ [Next]_vars => Noted'
<1> SUFFICES ASSUME Basics, Noted, [Next]_vars, NEW c \in Calls,
                    pc'[c] = "recheck"
             PROVE  /\ req'[c].op = "deleteServer" =>
                          "conflict" \in seen'[c] \/ "notFound" \in seen'[c]
                    /\ req'[c].op = "updateServer" =>
                          "asIs" \in seen'[c] \/ "notFound" \in seen'[c]
  BY Observed DEF Noted
<1>1. TypeOK /\ InPlace
  BY DEF Basics
<1>2. Lasting /\ (~ Rests(c) => CallStep(c))
  BY <1>1, StepFrame
<1>3. seen[c] \subseteq seen'[c]
  BY Observed
<1>4. CASE pc[c] = "recheck"
  BY <1>2, <1>3, <1>4 DEF Noted, Lasting
<1>5. CASE pc[c] # "recheck"
  <2>1. UpdateServer(c) \/ DeleteServer(c) \/ UpdateDst(c)
    BY <1>1, <1>2, <1>5, RowChanges DEF Rests
  <2>2. /\ req' = req
        /\ Holds(c) \subseteq seen[c]
    BY <2>1
    DEF UpdateServer, DeleteServer, UpdateDst, Goto, Reply, Confirmed, Noted
  <2>3. CASE DeleteServer(c)
    <3>1. req[c].op = "deleteServer" /\ ~ (OwnServer(c) /\ ~ HasDst(req[c].target))
      BY <1>1, <2>3 DEF DeleteServer, Confirmed, Reply, TypeOK, InPlace
    <3>2. "conflict" \in Holds(c) \/ "notFound" \in Holds(c)
      BY <3>1 DEF Holds, Facts, Refusals, OnServer
    <3> QED
      BY <1>3, <2>2, <3>1, <3>2
  <2>4. CASE UpdateServer(c)
    <3>1. /\ req[c].op = "updateServer"
          /\ OwnServer(c) => server[req[c].target].address = req[c].address
      BY <1>1, <2>4 DEF UpdateServer, Confirmed, Reply, TypeOK, InPlace
    <3>2. "asIs" \in Holds(c) \/ "notFound" \in Holds(c)
      BY <3>1 DEF Holds, Facts, Refusals, OnServer
    <3> QED
      BY <1>3, <2>2, <3>1, <3>2
  <2>5. CASE UpdateDst(c)
    BY <1>1, <2>2, <2>5 DEF UpdateDst, InPlace
  <2> QED
    BY <2>1, <2>3, <2>4, <2>5
<1> QED
  BY <1>4, <1>5

\* The row an Update has changed reads as asked.
LEMMA UpdateWrites ==
    ASSUME Basics, NEW c \in Calls, UpdateServer(c), answer'[c] = "ok",
           answer[c] = "none"
    PROVE  OwnServer(c)' /\ server'[req'[c].target].address = req'[c].address
<1>1. TypeOK /\ req[c].op = "updateServer" /\ req[c] \in Requests
  BY DEF Basics, TypeOK, InPlace, UpdateServer
<1>2. req[c].target \in Calls
  BY <1>1, RequestFields DEF OnServer
<1>3. /\ OwnServer(c) /\ req' = req
      /\ server' = [server EXCEPT ![req[c].target].address = req[c].address]
  BY <1>1 DEF UpdateServer, Goto, Reply, Confirmed, TypeOK
<1>4. server[req[c].target] \in ServerRow /\ server[req[c].target].user = req[c].user
  BY <1>1, <1>2, <1>3 DEF OwnServer, OwnRow, TypeOK
<1>5. /\ server'[req[c].target] \in [user : Users, address : {req[c].address}]
      /\ server'[req[c].target].user = req[c].user
      /\ server'[req[c].target].address = req[c].address
  BY <1>1, <1>2, <1>3, <1>4 DEF TypeOK, ServerRow
<1>6. server'[req[c].target] # NoRow
  <2>1. req[c].address \in Addresses
    BY <1>1, RequestFields
  <2>2. server'[req[c].target] \in ServerRow
    BY <1>5, <2>1 DEF ServerRow
  <2> QED
    BY <2>2
<1> QED
  BY <1>3, <1>5, <1>6 DEF OwnServer, OwnRow

\* The statement that ends a request finds what its answer says, or the second
\* look goes by what was found before it; or the server has come in between.
LEMMA AnswerStep ==
    ASSUME Basics, Noted, [Next]_vars, NEW c \in Calls, CallStep(c),
           answer'[c] # answer[c], Fact(c)' \in Facts
    PROVE  Fact(c)' \in seen'[c] \/ CameBetween(c)'
<1> USE DEF Goto, Reply, Confirmed, Refusals, Facts, Fact, OnServer, OnDst
<1>1. /\ TypeOK /\ InPlace
      /\ pc[c] # "done"
      /\ answer[c] = "none"
  <2>1. TypeOK /\ InPlace
    BY DEF Basics
  <2>2. pc[c] # "done"
    BY <2>1, StepFrame DEF Lasting, Rests
  <2> QED
    BY <2>1, <2>2 DEF TypeOK
<1>2. /\ seen[c] \subseteq seen'[c]
      /\ pc'[c] = "done" => Holds(c)' \subseteq seen'[c]
  BY <1>1, Observed
<1>3. pc[c] \notin {"none", "done"} => Holds(c) \subseteq seen'[c] /\ req'[c] = req[c]
  BY <1>1, <1>2, StepFrame DEF Noted, Lasting
<1>4. CASE Begin(c)
  BY <1>1, <1>4 DEF Begin
<1>5. CASE InsertServer(c)
  <2>1. AddressTaken(c, c) /\ answer'[c] = "conflict" /\ req[c].op = "createServer"
    BY <1>1, <1>5 DEF InsertServer, TypeOK, InPlace
  <2> QED
    BY <1>3, <1>5, <2>1 DEF InsertServer, Holds
<1>6. CASE InsertTask(c) \/ Commit(c)
  BY <1>1, <1>3, <1>6 DEF InsertTask, Commit, TypeOK, InPlace
<1>7. CASE UpdateServer(c)
  <2>1. req[c].op = "updateServer" /\ pc[c] = "updateServer"
    BY <1>1, <1>7 DEF UpdateServer, InPlace
  <2>2. CASE answer'[c] = "ok"
    <3>1. "asIs" \in Holds(c)'
      BY <1>1, <1>3, <1>7, <2>1, <2>2, UpdateWrites DEF Holds
    <3>2. pc'[c] = "done"
      BY <1>1, <1>7, <2>2 DEF UpdateServer, TypeOK
    <3> QED
      BY <1>2, <1>3, <2>1, <2>2, <3>1, <3>2
  <2>3. CASE answer'[c] # "ok"
    <3>1. AddressTaken(c, req[c].target) /\ answer'[c] = "conflict"
      BY <1>1, <1>3, <1>7, <2>1, <2>3 DEF UpdateServer, TypeOK
    <3> QED
      BY <1>3, <2>1, <3>1 DEF Holds
  <2> QED
    BY <2>2, <2>3
<1>8. CASE DeleteServer(c)
  BY <1>1, <1>3, <1>8 DEF DeleteServer, TypeOK, InPlace
<1>9. CASE Recheck(c)
  <2>1. pc[c] = "recheck" /\ answer'[c] = Reason(c) /\ req'[c] = req[c]
    BY <1>1, <1>3, <1>9 DEF Recheck, TypeOK
  <2>2. req[c].op \in {"updateServer", "deleteServer", "updateDst"}
    BY <1>1, <2>1 DEF InPlace
  <2>3. CASE req[c].op = "updateDst"
    <3>1. ~ OwnDst(c) /\ answer'[c] = "notFound"
      BY <2>1, <2>3 DEF Reason
    <3> QED
      BY <1>3, <2>1, <2>3, <3>1 DEF Holds
  <2>4. CASE req[c].op \in {"updateServer", "deleteServer"} /\ ~ OwnServer(c)
    <3>1. answer'[c] = "notFound"
      BY <2>1, <2>4 DEF Reason
    <3> QED
      BY <1>3, <2>1, <2>4, <3>1 DEF Holds
  <2>5. CASE req[c].op = "deleteServer" /\ OwnServer(c)
    <3>1. answer'[c] = "conflict" /\ "found" \in Holds(c)
      BY <2>1, <2>5 DEF Reason, Holds
    <3> QED
      BY <1>2, <1>3, <2>1, <2>5, <3>1 DEF Noted, CameBetween
  <2>6. CASE req[c].op = "updateServer" /\ OwnServer(c)
    <3>1. answer'[c] = "ok" /\ "found" \in Holds(c)
      BY <2>1, <2>6 DEF Reason, Holds
    <3> QED
      BY <1>2, <1>3, <2>1, <2>6, <3>1 DEF Noted, CameBetween
  <2> QED
    BY <2>2, <2>3, <2>4, <2>5, <2>6
<1>10. CASE Lookup(c)
  <2>1. ~ OwnServer(c) /\ answer'[c] = "notFound" /\ req[c].op = "createDst"
    BY <1>1, <1>10 DEF Lookup, TypeOK, InPlace
  <2> QED
    BY <1>3, <1>10, <2>1 DEF Lookup, Holds
<1>11. CASE InsertDst(c)
  <2>1. SlotTaken(c) /\ answer'[c] = "conflict" /\ req[c].op = "createDst"
    BY <1>1, <1>3, <1>11 DEF InsertDst, TypeOK, InPlace
  <2> QED
    BY <1>3, <1>11, <2>1 DEF InsertDst, Holds
<1>12. CASE UpdateDst(c)
  BY <1>1, <1>3, <1>12 DEF UpdateDst, TypeOK, InPlace
<1>13. CASE DeleteDst(c)
  <2>1. ~ OwnDst(c) /\ answer'[c] = "notFound" /\ req[c].op = "deleteDst"
    BY <1>1, <1>3, <1>13 DEF DeleteDst, TypeOK, InPlace
  <2> QED
    BY <1>3, <1>13, <2>1 DEF DeleteDst, Holds
<1>14. CASE Fail(c)
  BY <1>1, <1>14 DEF Fail, TypeOK
<1> QED
  BY <1>4, <1>5, <1>6, <1>7, <1>8, <1>9, <1>10, <1>11, <1>12, <1>13, <1>14
  DEF CallStep

\* No step answers what was not so.
LEMMA AnswersStep ==
    Basics /\ Noted /\ AnswersWereRight /\ [Next]_vars => AnswersWereRight'
<1> SUFFICES ASSUME Basics, Noted, AnswersWereRight, [Next]_vars,
                    NEW c \in Calls, answer'[c] # "none", Fact(c)' \in Facts
             PROVE  Fact(c)' \in seen'[c] \/ CameBetween(c)'
  BY DEF AnswersWereRight
<1>1. TypeOK
  BY DEF Basics
<1>2. seen[c] \subseteq seen'[c]
  BY Observed
<1>3. CASE answer'[c] = answer[c]
  <2>1. pc[c] = "done"
    BY <1>1, <1>3 DEF TypeOK
  <2>2. req'[c] = req[c]
    BY <1>1, <2>1, StepFrame DEF Lasting
  <2>3. Fact(c)' = Fact(c)
    BY <1>3, <2>2 DEF Fact
  <2>4. Fact(c) \in seen[c] \/ CameBetween(c)
    BY <1>3, <2>3 DEF AnswersWereRight
  <2>5. CameBetween(c) => CameBetween(c)'
    BY <1>2, <2>2, <2>3 DEF CameBetween
  <2> QED
    BY <1>2, <2>3, <2>4, <2>5
<1>4. CASE answer'[c] # answer[c]
  <2>1. CallStep(c)
    BY <1>1, <1>4, StepFrame DEF Rests
  <2> QED
    BY <1>4, <2>1, AnswerStep
<1> QED
  BY <1>3, <1>4

-----------------------------------------------------------------------------
(* Whose statements change a row *)

\* No step changes a row for want of the user in its WHERE clause.
LEMMA OwnersStep ==
    ASSUME Basics, Keyed, [Next]_vars
    PROVE  \A s \in Calls :
              /\ server[s] # NoRow /\ server'[s] # server[s] =>
                    \E c \in Calls : pc[c] # pc'[c] /\ req[c].user = server[s].user
              /\ dst[s] # NoRow /\ dst'[s] # dst[s] =>
                    \E c \in Calls : pc[c] # pc'[c] /\ req[c].user = dst[s].user
<1> SUFFICES ASSUME NEW s \in Calls
             PROVE  /\ server[s] # NoRow /\ server'[s] # server[s] =>
                          \E c \in Calls : /\ pc[c] # pc'[c]
                                           /\ req[c].user = server[s].user
                    /\ dst[s] # NoRow /\ dst'[s] # dst[s] =>
                          \E c \in Calls : /\ pc[c] # pc'[c]
                                           /\ req[c].user = dst[s].user
  OBVIOUS
<1>1. TypeOK
  BY DEF Basics
<1>2. ASSUME server[s] # NoRow, server'[s] # server[s]
      PROVE  \E c \in Calls : pc[c] # pc'[c] /\ req[c].user = server[s].user
  <2>1. PICK c \in Calls : ServerChange(c, s)
    BY <1>1, <1>2, ChangesHaveCalls
  <2>2. pc[c] # "commit" \/ s # c
    BY <1>2 DEF Keyed, Given
  <2> QED
    BY <2>1, <2>2 DEF ServerChange, OwnServer, OwnRow
<1>3. ASSUME dst[s] # NoRow, dst'[s] # dst[s]
      PROVE  \E c \in Calls : pc[c] # pc'[c] /\ req[c].user = dst[s].user
  <2>1. PICK c \in Calls : DstChange(c, s)
    BY <1>1, <1>3, ChangesHaveCalls
  <2>2. pc[c] # "insertDst" \/ s # c
    BY <1>3 DEF Keyed, Given
  <2> QED
    BY <2>1, <2>2 DEF DstChange, OwnDst, OwnRow
<1> QED
  BY <1>2, <1>3

-----------------------------------------------------------------------------
(* The theorems *)

\* Rows and requests are what the code takes them for at every statement, and
\* a request has its reply when it is done and not before.
THEOREM RegistryTypes == Spec => []TypeOK
<1>1. Basics => TypeOK
  BY DEF Basics
<1> QED
  BY <1>1, InitBasics, NextBasics, PTL DEF Spec

\* The basics hold in every run.
LEMMA RegistryBasics == Spec => []Basics
BY InitBasics, NextBasics, PTL DEF Spec

\* Every row is the one its request inserted, in every run.
LEMMA RegistryKeyed == Spec => []Keyed
<1>1. Init => Keyed
  BY DEF Init, Keyed
<1> QED
  BY <1>1, RegistryBasics, KeyedStep, PTL DEF Spec

\* Create: a server and its deploy task become visible with one commit, so
\* that whoever sees the server finds a task filed for it.
THEOREM ServersHaveTasks == Spec => []EveryServerHasItsTask
<1>1. Init => EveryServerHasItsTask
  BY DEF Init, EveryServerHasItsTask
<1>2. Basics /\ EveryServerHasItsTask /\ [Next]_vars => EveryServerHasItsTask'
  <2> SUFFICES ASSUME Basics, EveryServerHasItsTask, [Next]_vars,
                      NEW s \in Calls, server'[s] # NoRow
               PROVE  s \in task'
    BY DEF EveryServerHasItsTask
  <2>1. TypeOK
    BY DEF Basics
  <2>2. task \subseteq task' /\ \A c \in Calls : Commit(c) => c \in task'
    <3>1. ASSUME NEW c \in Calls, CallStep(c)
          PROVE  task \subseteq task'
      BY <3>1
      DEF CallStep, Begin, InsertServer, InsertTask, Commit, UpdateServer,
          DeleteServer, Recheck, Lookup, InsertDst, UpdateDst, DeleteDst, Fail
    <3> QED
      BY <3>1 DEF Next, CallStep, Finished, vars, Commit
  <2>3. CASE server[s] # NoRow
    BY <2>2, <2>3 DEF EveryServerHasItsTask
  <2>4. CASE server[s] = NoRow
    <3>1. PICK c \in Calls : ServerChange(c, s)
      BY <2>1, <2>4, ChangesHaveCalls
    <3>2. pc[s] = "commit" /\ pc'[s] = "done"
      BY <2>4, <3>1 DEF ServerChange, OwnServer, OwnRow
    <3>3. CallStep(s)
      BY <2>1, <3>2, StepFrame DEF Rests
    <3>4. Commit(s) \/ Fail(s)
      BY <3>2, <3>3
      DEF CallStep, Begin, InsertServer, InsertTask, UpdateServer, DeleteServer,
          Recheck, Lookup, InsertDst, UpdateDst, DeleteDst
    <3> QED
      BY <2>2, <2>4, <3>4 DEF Fail
  <2> QED
    BY <2>3, <2>4
<1> QED
  BY <1>1, <1>2, RegistryBasics, PTL DEF Spec

\* Create of a save looks the server up with its own user and inserts later:
\* whatever happened in between, no server of another user has its id.
THEOREM SavesKeepTheirOwner == Spec => []SavesStayWithTheirOwner
<1>1. Keyed => SavesStayWithTheirOwner
  <2> SUFFICES ASSUME Keyed, NEW d \in Calls, NEW s \in Calls,
                      dst[d] # NoRow, server[s] # NoRow, dst[d].server = s
               PROVE  dst[d].user = server[s].user
    BY DEF SavesStayWithTheirOwner
  <2>1. dst[d] = NewDst(d) /\ SameUser(d) /\ server[s].user = req[s].user
    BY DEF Keyed
  <2>2. dst[d].user = req[d].user /\ dst[d].server = req[d].target
    BY <2>1 DEF NewDst
  <2> QED
    BY <2>1, <2>2 DEF SameUser
<1> QED
  BY <1>1, RegistryKeyed, PTL

\* Update and Delete tell why they affected no row by a second statement.  What
\* they answer, and every refusal, was so while they ran, but for a server that
\* came into being between the two statements.
THEOREM AnswersAreRight == Spec => []AnswersWereRight
<1>1. Init => Noted /\ AnswersWereRight
  BY DEF Init, Noted, AnswersWereRight
<1> QED
  BY <1>1, RegistryBasics, NotedStep, AnswersStep, PTL DEF Spec

\* The WHERE clauses name the user: a row changes, or goes, by a statement of
\* a request of the user it belongs to.
THEOREM OwnersChangeRows == Spec => OnlyOwnersChangeRows
<1>1. Basics /\ Keyed /\ [Next]_vars =>
        [\A s \in Calls :
           /\ server[s] # NoRow /\ server'[s] # server[s] =>
                  \E c \in Calls : pc[c] # pc'[c] /\ req[c].user = server[s].user
           /\ dst[s] # NoRow /\ dst'[s] # dst[s] =>
                  \E c \in Calls : pc[c] # pc'[c] /\ req[c].user = dst[s].user]_vars
  BY OwnersStep
<1> QED
  BY <1>1, RegistryBasics, RegistryKeyed, PTL DEF Spec, OnlyOwnersChangeRows
=============================================================================
