-------------------------- MODULE AuthSessionProofs --------------------------
(***************************************************************************)
(* Proofs about AuthSession for any number of users and requests.  What a  *)
(* request has learned may be out of date when it acts on it; the facts    *)
(* that carry the proofs are those no other request can undo: versions     *)
(* only grow, a pair never changes, what is in the blacklist or expired    *)
(* stays so, and an answer is given once.                                  *)
(***************************************************************************)
EXTENDS AuthSession, TLAPS

USE SessionAssumption, NoneAssumption

-----------------------------------------------------------------------------
(* Types, and what a request at some statement was asked *)

\* The operations whose code has a statement.
InPlace ==
    \A c \in Calls :
        /\ pc[c] # "none" => req[c] \in Requests
        /\ pc[c] \in {"checkFree", "insertUser"} => req[c].op = "register"
        /\ pc[c] = "readUser" =>
              req[c].op \in {"login", "loginBySMS", "authenticate", "refresh",
                             "verifyReset"}
        /\ pc[c] = "askBlacklist" => req[c].op = "authenticate"
        /\ pc[c] = "consume" => req[c].op = "refresh"
        /\ pc[c] \in {"revokeRefresh", "revokeAccess"} => req[c].op = "logout"
        /\ pc[c] = "storeReset" => req[c].op = "verifyReset"
        /\ pc[c] \in {"readReset", "updatePassword", "dropReset"} =>
              req[c].op = "resetPassword"
        /\ pc[c] = "none" => late[c] = {}

\* A token was handed out with the answer of a session, and so was a reset
\* token.
HandedOut ==
    \A c \in Calls : pc[c] # "none" =>
        /\ req[c].op \in {"refresh", "authenticate"} =>
              req[c].token[2] \in Sessions
        /\ req[c].op = "resetPassword" =>
              req[c].via \in Succeeded({"verifyReset"})

\* Who has a session has a pair.
Signed == \A c \in Sessions : issued[c] # None

Basics == TypeOK /\ InPlace /\ HandedOut /\ Signed

\* The fields of a request.
LEMMA RequestFields ==
    ASSUME NEW r \in Requests
    PROVE  /\ r.op \in {"register", "loginBySMS", "verifyReset", "login"} =>
                 r.user \in Users
           /\ r.op = "login" => r.password \in Nat
           /\ r.op \in {"refresh", "authenticate"} =>
                 r.token \in Tokens /\ r.token[2] \in Calls
           /\ r.op = "logout" =>
                 r.access \in Tokens /\ r.refresh \in Tokens \cup {None}
           /\ r.op = "resetPassword" => r.via \in Calls
BY DEF Requests, Tokens

\* The requests that can be made are requests, for tokens that were handed out.
LEMMA PossibleRequests ==
    ASSUME TypeOK, NEW r \in Possible
    PROVE  /\ r \in Requests
           /\ r.op \in {"refresh", "authenticate"} => r.token[2] \in Sessions
           /\ r.op = "resetPassword" => r.via \in Succeeded({"verifyReset"})
<1>1. Access \subseteq Tokens /\ Refresh \subseteq Tokens
  BY DEF Access, Refresh, Tokens, Sessions, Succeeded
<1>2. CASE r \in [op : {"register", "loginBySMS", "verifyReset"}, user : Users]
  BY <1>2 DEF Requests
<1>3. CASE r \in UNION {[op : {"login"}, user : {u}, password : 1..version[u]] :
                            u \in Users}
  <2>1. PICK u \in Users :
          r \in [op : {"login"}, user : {u}, password : 1..version[u]]
    BY <1>3
  <2>2. r \in [op : {"login"}, user : Users, password : Nat]
    BY <2>1 DEF TypeOK
  <2> QED
    BY <2>2 DEF Requests
<1>4. CASE r \in [op : {"refresh"}, token : Refresh \ expired]
  BY <1>1, <1>4 DEF Requests, Refresh
<1>5. CASE r \in [op : {"authenticate"}, token : Access \ expired]
  BY <1>1, <1>5 DEF Requests, Access
<1>6. CASE r \in [op : {"logout"}, access : Access, refresh : Refresh \cup {None}]
  BY <1>1, <1>6 DEF Requests
<1>7. CASE r \in [op : {"resetPassword"}, via : Succeeded({"verifyReset"})]
  BY <1>7 DEF Requests, Succeeded
<1> QED
  BY <1>2, <1>3, <1>4, <1>5, <1>6, <1>7 DEF Possible

-----------------------------------------------------------------------------
(* What a step may do *)

\* The steps of a request.
CallStep(c) ==
    \/ Begin(c) \/ CheckFree(c) \/ InsertUser(c) \/ Login(c)
    \/ AskBlacklist(c) \/ Authenticate(c) \/ CheckRefresh(c) \/ Consume(c)
    \/ RevokeRefresh(c) \/ RevokeAccess(c)
    \/ ReadVersion(c) \/ StoreReset(c) \/ ReadReset(c) \/ UpdatePassword(c)
    \/ DropReset(c) \/ EndReset(c) \/ Fail(c)

\* Nothing of a request changes.
Rests(c) ==
    /\ pc'[c] = pc[c] /\ answer'[c] = answer[c]
    /\ req'[c] = req[c] /\ late'[c] = late[c]
    /\ issued'[c] = issued[c] /\ read'[c] = read[c]

\* What stays as it is, whoever steps.
Lasting ==
    /\ \A c \in Calls : pc[c] # "none" =>
          pc'[c] # "none" /\ req'[c] = req[c] /\ late'[c] = late[c]
    /\ \A c \in Calls : pc[c] = "done" => Rests(c)
    /\ \A u \in Users : version'[u] >= version[u]
    /\ blacklist \subseteq blacklist'
    /\ expired \subseteq expired'

\* A step of one request leaves the others alone.
LEMMA OthersRest ==
    ASSUME TypeOK, NEW c \in Calls, CallStep(c)
    PROVE  /\ \A d \in Calls \ {c} : Rests(d)
           /\ Lasting
<1> USE DEF TypeOK, Rests, Lasting, Goto, Reply, Confirmed, ConfirmedLast, Sign,
            redis, clock, call
<1>1. CASE Begin(c)
  BY <1>1 DEF Begin
<1>2. CASE CheckFree(c)
  BY <1>2 DEF CheckFree
<1>3. CASE InsertUser(c)
  BY <1>3 DEF InsertUser
<1>4. CASE Login(c)
  BY <1>4 DEF Login
<1>5. CASE AskBlacklist(c)
  BY <1>5 DEF AskBlacklist
<1>6. CASE Authenticate(c)
  BY <1>6 DEF Authenticate
<1>7. CASE CheckRefresh(c)
  BY <1>7 DEF CheckRefresh
<1>8. CASE Consume(c)
  BY <1>8 DEF Consume, SetNX
<1>9. CASE RevokeRefresh(c)
  BY <1>9 DEF RevokeRefresh, Revoke, Listed
<1>10. CASE RevokeAccess(c)
  BY <1>10 DEF RevokeAccess, Revoke, Listed
<1>11. CASE ReadVersion(c)
  BY <1>11 DEF ReadVersion
<1>12. CASE StoreReset(c)
  BY <1>12 DEF StoreReset
<1>13. CASE ReadReset(c)
  BY <1>13 DEF ReadReset
<1>14. CASE UpdatePassword(c)
  BY <1>14 DEF UpdatePassword, VersionedRow
<1>15. CASE DropReset(c)
  BY <1>15 DEF DropReset
<1>16. CASE EndReset(c)
  BY <1>16 DEF EndReset
<1>17. CASE Fail(c)
  BY <1>17 DEF Fail, Waiting
<1> QED
  BY <1>1, <1>2, <1>3, <1>4, <1>5, <1>6, <1>7, <1>8, <1>9, <1>10, <1>11, <1>12,
     <1>13, <1>14, <1>15, <1>16, <1>17
  DEF CallStep

\* A step changes one request at most.
LEMMA StepFrame ==
    ASSUME TypeOK, [Next]_vars
    PROVE  /\ Lasting
           /\ \A c \in Calls : ~ Rests(c) => CallStep(c)
<1>1. CASE \E c \in Calls : CallStep(c)
  BY <1>1, OthersRest
<1>2. CASE \E t \in Tokens : Expire(t)
  BY <1>2 DEF Expire, Lasting, Rests, TypeOK, redis, call
<1>3. CASE UNCHANGED vars
  BY <1>3 DEF vars, Lasting, Rests, TypeOK
<1> QED
  BY <1>1, <1>2, <1>3 DEF Next, CallStep, Finished

\* An answer is for good.
LEMMA SuccessLasts ==
    ASSUME TypeOK, InPlace, Lasting, NEW ops
    PROVE  Succeeded(ops) \subseteq Succeeded(ops)'
BY DEF TypeOK, Lasting, Rests, Succeeded

-----------------------------------------------------------------------------
(* The basics are invariant *)

\* The requests that were made before are as they have to be.
LEMMA InitBasics == Init => Basics
BY DEF Init, Basics, TypeOK, InPlace, HandedOut, Signed, Sessions, Succeeded,
       Before, Requests, Pair, Waiting

\* The statements each operation goes through, and the reply it ends with.
LEMMA CallBasics ==
    ASSUME Basics, NEW c \in Calls, CallStep(c)
    PROVE  TypeOK' /\ InPlace'
<1>1. /\ TypeOK /\ InPlace /\ HandedOut /\ Signed
      /\ pc[c] # "none" => req[c] \in Requests
  BY DEF Basics, InPlace
<1>2. pc[c] # "none" =>
        /\ req[c].op \in {"register", "loginBySMS", "verifyReset", "login"} =>
              req[c].user \in Users
        /\ req[c].op \in {"refresh", "authenticate"} =>
              /\ req[c].token \in Tokens
              /\ issued[req[c].token[2]] \in Pair
        /\ req[c].op = "logout" =>
              req[c].access \in Tokens /\ req[c].refresh \in Tokens \cup {None}
  <2> SUFFICES ASSUME pc[c] # "none"
               PROVE  /\ req[c].op \in {"register", "loginBySMS", "verifyReset",
                                        "login"} => req[c].user \in Users
                      /\ req[c].op \in {"refresh", "authenticate"} =>
                            /\ req[c].token \in Tokens
                            /\ issued[req[c].token[2]] \in Pair
                      /\ req[c].op = "logout" =>
                            /\ req[c].access \in Tokens
                            /\ req[c].refresh \in Tokens \cup {None}
    OBVIOUS
  <2>1. req[c] \in Requests
    BY <1>1
  <2>2. CASE req[c].op \in {"refresh", "authenticate"}
    <3>1. req[c].token[2] \in Sessions /\ req[c].token[2] \in Calls
      BY <1>1, <2>1, <2>2, RequestFields DEF HandedOut
    <3>2. issued[req[c].token[2]] \in Pair
      BY <3>1, <1>1 DEF Signed, TypeOK
    <3> QED
      BY <3>2, <2>1, <2>2, RequestFields
  <2>3. CASE req[c].op \notin {"refresh", "authenticate"}
    BY <2>1, <2>3, RequestFields
  <2> QED
    BY <2>2, <2>3
<1> USE DEF TypeOK, InPlace, Goto, Reply, Confirmed, ConfirmedLast, Sign, redis,
            clock, call, Waiting
<1>3. CASE Begin(c)
  <2>1. PICK r \in Possible :
          /\ req' = [req EXCEPT ![c] = r]
          /\ late' = [late EXCEPT ![c] = Overdue(r)]
          /\ Goto(c, FirstStep(r.op))
    BY <1>3 DEF Begin
  <2>2. r \in Requests
    BY <1>1, PossibleRequests
  <2>3. r.op \in {"register", "loginBySMS", "verifyReset", "login", "refresh",
                 "authenticate", "logout", "resetPassword"}
    BY <2>2 DEF Requests
  <2>4. Overdue(r) \subseteq {"loggedOut", "reset"}
    BY DEF Overdue
  <2>5. /\ pc[c] = "none"
        /\ UNCHANGED <<version, blacklist, resets, expired, issued, read,
                        applied, answer>>
    BY <1>3 DEF Begin
  <2>6. FirstStep(r.op) \in Waiting
    BY <2>3 DEF FirstStep
  <2> HIDE DEF Overdue
  <2> QED
    BY <1>1, <2>1, <2>2, <2>3, <2>4, <2>5, <2>6 DEF FirstStep
<1>4. CASE CheckFree(c)
  BY <1>1, <1>2, <1>4 DEF CheckFree
<1>5. CASE InsertUser(c)
  BY <1>1, <1>2, <1>5 DEF InsertUser, Pair
<1>6. CASE Login(c)
  BY <1>1, <1>2, <1>6 DEF Login, Pair
<1>7. CASE AskBlacklist(c)
  BY <1>1, <1>2, <1>7 DEF AskBlacklist
<1>8. CASE Authenticate(c)
  BY <1>1, <1>2, <1>8 DEF Authenticate
<1>9. CASE CheckRefresh(c)
  BY <1>1, <1>2, <1>9 DEF CheckRefresh, Pair
<1>10. CASE Consume(c)
  BY <1>1, <1>2, <1>10 DEF Consume, SetNX
<1>11. CASE RevokeRefresh(c)
  BY <1>1, <1>2, <1>11 DEF RevokeRefresh, Revoke, Listed
<1>12. CASE RevokeAccess(c)
  BY <1>1, <1>2, <1>12 DEF RevokeAccess, Revoke, Listed
<1>13. CASE ReadVersion(c)
  BY <1>1, <1>2, <1>13 DEF ReadVersion
<1>14. CASE StoreReset(c)
  BY <1>1, <1>2, <1>14 DEF StoreReset
<1>15. CASE ReadReset(c)
  BY <1>1, <1>2, <1>15 DEF ReadReset
<1>16. CASE UpdatePassword(c)
  BY <1>1, <1>2, <1>16 DEF UpdatePassword, VersionedRow
<1>17. CASE DropReset(c)
  BY <1>1, <1>2, <1>17 DEF DropReset
<1>18. CASE EndReset(c)
  BY <1>1, <1>2, <1>18 DEF EndReset
<1>19. CASE Fail(c)
  BY <1>1, <1>2, <1>19 DEF Fail
<1> QED
  BY <1>3, <1>4, <1>5, <1>6, <1>7, <1>8, <1>9, <1>10, <1>11, <1>12, <1>13,
     <1>14, <1>15, <1>16, <1>17, <1>18, <1>19
  DEF CallStep

\* What a request that is answered "ok" has done last.
LEMMA SuccessStep ==
    ASSUME Basics, NEW c \in Calls, CallStep(c),
           answer[c] # "ok", answer'[c] = "ok"
    PROVE  /\ pc[c] # "none" /\ req'[c] = req[c]
           /\ req[c].op = "login" => req[c].password = version[req[c].user]
           /\ req[c].op \in {"register", "login", "loginBySMS", "refresh"} =>
                 issued'[c] # None
           /\ req[c].op = "authenticate" =>
                 pc[c] = "readUser" /\ SameVersion(issued[req[c].token[2]])
           /\ req[c].op = "refresh" =>
                 /\ pc[c] = "consume"
                 /\ req[c].token \notin blacklist \ expired
                 /\ req[c].token \in blacklist'
           /\ req[c].op = "logout" =>
                 /\ pc[c] = "revokeAccess"
                 /\ req[c].access \in blacklist' \cup expired
<1> USE DEF Basics, TypeOK, InPlace, Goto, Reply, Confirmed, ConfirmedLast, Sign,
            redis, clock, call, Waiting
<1>1. pc[c] # "none" => req[c] \in Requests
  OBVIOUS
<1>2. pc[c] # "none" /\ req[c].op = "logout" => req[c].access \in Tokens
  BY <1>1, RequestFields
<1>3. CASE Begin(c)
  BY <1>1, <1>2, <1>3 DEF Begin, FirstStep
<1>4. CASE CheckFree(c)
  BY <1>1, <1>2, <1>4 DEF CheckFree
<1>5. CASE InsertUser(c)
  <2>1. version[req[c].user] = 0 /\ Sign(c, req[c].user, 1, 1)
    BY <1>1, <1>5 DEF InsertUser
  <2>2. /\ pc[c] = "insertUser" /\ req[c].op = "register" /\ req' = req
        /\ req[c].user \in Users
    BY <1>1, <1>5, RequestFields DEF InsertUser
  <2>3. issued'[c] = [user |-> req[c].user, version |-> 1, root |-> 1]
    BY <2>1
  <2>4. issued'[c] # None
    BY <2>2, <2>3 DEF Pair
  <2> QED
    BY <2>2, <2>4
<1>6. CASE Login(c)
  <2>1. /\ req[c].op = "login" => req[c].password = version[req[c].user]
        /\ Sign(c, req[c].user, version[req[c].user], version[req[c].user])
    BY <1>1, <1>6 DEF Login
  <2>2. /\ pc[c] = "readUser" /\ req[c].op \in {"login", "loginBySMS"}
        /\ req' = req /\ req[c].user \in Users
    BY <1>1, <1>6, RequestFields DEF Login
  <2>3. issued'[c] = [user |-> req[c].user, version |-> version[req[c].user],
                      root |-> version[req[c].user]]
    BY <2>1
  <2>4. issued'[c] # None
    BY <2>2, <2>3 DEF Pair
  <2> QED
    BY <2>1, <2>2, <2>4
<1>7. CASE AskBlacklist(c)
  BY <1>1, <1>2, <1>7 DEF AskBlacklist
<1>8. CASE Authenticate(c)
  BY <1>1, <1>2, <1>8 DEF Authenticate
<1>9. CASE CheckRefresh(c)
  BY <1>1, <1>2, <1>9 DEF CheckRefresh, Pair
<1>10. CASE Consume(c)
  BY <1>1, <1>2, <1>10 DEF Consume, SetNX, Gone, Kept
<1>11. CASE RevokeRefresh(c)
  BY <1>1, <1>2, <1>11 DEF RevokeRefresh, Revoke, Listed
<1>12. CASE RevokeAccess(c)
  BY <1>1, <1>2, <1>12 DEF RevokeAccess, Revoke, Listed
<1>13. CASE ReadVersion(c)
  BY <1>1, <1>2, <1>13 DEF ReadVersion
<1>14. CASE StoreReset(c)
  BY <1>1, <1>2, <1>14 DEF StoreReset
<1>15. CASE ReadReset(c)
  BY <1>1, <1>2, <1>15 DEF ReadReset
<1>16. CASE UpdatePassword(c)
  BY <1>1, <1>2, <1>16 DEF UpdatePassword, VersionedRow
<1>17. CASE DropReset(c)
  BY <1>1, <1>2, <1>17 DEF DropReset
<1>18. CASE EndReset(c)
  BY <1>1, <1>2, <1>18 DEF EndReset
<1>19. CASE Fail(c)
  BY <1>1, <1>2, <1>19 DEF Fail
<1> QED
  BY <1>3, <1>4, <1>5, <1>6, <1>7, <1>8, <1>9, <1>10, <1>11, <1>12, <1>13,
     <1>14, <1>15, <1>16, <1>17, <1>18, <1>19
  DEF CallStep

\* Every step keeps the basics.
LEMMA NextBasics == Basics /\ [Next]_vars => Basics'
<1> SUFFICES ASSUME Basics, [Next]_vars PROVE Basics'
  OBVIOUS
<1>1. TypeOK /\ InPlace /\ HandedOut /\ Signed
  BY DEF Basics
<1>2. Lasting /\ \A c \in Calls : ~ Rests(c) => CallStep(c)
  BY <1>1, StepFrame
<1>3. TypeOK' /\ InPlace'
  <2>1. CASE \E c \in Calls : CallStep(c)
    BY <2>1, CallBasics
  <2>2. CASE \E t \in Tokens : Expire(t)
    BY <1>1, <2>2 DEF Expire, TypeOK, InPlace, redis, call
  <2>3. CASE UNCHANGED vars
    BY <1>1, <2>3 DEF vars, TypeOK, InPlace
  <2> QED
    BY <2>1, <2>2, <2>3 DEF Next, CallStep, Finished
<1>4. \A ops : Succeeded(ops) \subseteq Succeeded(ops)'
  BY <1>1, <1>2, SuccessLasts
<1>5. HandedOut'
  <2> SUFFICES ASSUME NEW c \in Calls, pc'[c] # "none"
               PROVE  /\ req'[c].op \in {"refresh", "authenticate"} =>
                            req'[c].token[2] \in Sessions'
                      /\ req'[c].op = "resetPassword" =>
                            req'[c].via \in Succeeded({"verifyReset"})'
    BY DEF HandedOut
  <2>1. Sessions \subseteq Sessions'
    BY <1>4 DEF Sessions
  <2>2. CASE pc[c] # "none"
    BY <1>1, <1>2, <1>4, <2>1, <2>2 DEF HandedOut, Lasting
  <2>3. CASE pc[c] = "none"
    <3>1. CallStep(c)
      BY <1>2, <2>3 DEF Rests
    <3>2. Begin(c)
      BY <1>1, <2>3, <3>1
      DEF CallStep, InPlace, Waiting, CheckFree, InsertUser, Login, AskBlacklist,
          Authenticate, CheckRefresh, Consume, RevokeRefresh, RevokeAccess,
          ReadVersion, StoreReset, ReadReset, UpdatePassword, DropReset, EndReset,
          Fail
    <3>3. PICK r \in Possible : req' = [req EXCEPT ![c] = r]
      BY <3>2 DEF Begin
    <3>4. req'[c] = r
      BY <1>1, <3>3 DEF TypeOK
    <3> QED
      BY <1>1, <1>4, <2>1, <3>4, PossibleRequests
  <2> QED
    BY <2>2, <2>3
<1>6. Signed'
  <2> SUFFICES ASSUME NEW c \in Sessions' PROVE issued'[c] # None
    BY DEF Signed
  <2>1. CASE c \in Sessions
    BY <1>1, <1>2, <2>1 DEF Signed, Sessions, Succeeded, Lasting, Rests, TypeOK
  <2>2. CASE c \notin Sessions
    <3>1. /\ c \in Calls /\ answer'[c] = "ok"
          /\ req'[c].op \in {"register", "login", "loginBySMS", "refresh"}
      BY DEF Sessions, Succeeded
    <3>2. answer[c] # "ok"
      BY <1>1, <1>2, <2>2, <3>1
      DEF Sessions, Succeeded, Lasting, Rests, TypeOK
    <3>3. CallStep(c)
      BY <1>2, <3>1, <3>2 DEF Rests
    <3> QED
      BY <3>1, <3>2, <3>3, SuccessStep
  <2> QED
    BY <2>1, <2>2
<1> QED
  BY <1>3, <1>5, <1>6 DEF Basics

-----------------------------------------------------------------------------
(* The invariants, one for each property of the runs *)

\* A refresh token that was accepted has left its key, for as long as it
\* lives.
Spent == \A c \in Succeeded({"refresh"}) : req[c].token \in blacklist \cup expired

\* A logout that was confirmed has left the keys of both tokens.  Whoever
\* asks with such a token finds the key, or finds the token expired.
Revoked ==
    /\ \A c \in Calls :
          /\ pc[c] = "revokeAccess" =>
                req[c].refresh \in blacklist \cup expired \cup {None}
          /\ "loggedOut" \in late[c] =>
                /\ req[c].op \in {"refresh", "authenticate"}
                /\ req[c].token \in blacklist \cup expired
          /\ pc[c] = "readUser" /\ req[c].op = "authenticate"
             /\ "loggedOut" \in late[c] => req[c].token \in expired
    /\ \A l \in Succeeded({"logout"}) :
          /\ req[l].access \in blacklist \cup expired
          /\ req[l].refresh \in blacklist \cup expired \cup {None}

\* A pair has the version its session began with; what was out of date when
\* a request began stays out of date, and no such request gets to the
\* statement that spends its token.
OutOfDate(c) ==
    \/ /\ req[c].op \in {"refresh", "authenticate"}
       /\ LET p == issued[req[c].token[2]] IN p.root < version[p.user]
    \/ req[c].op = "login" /\ req[c].password < version[req[c].user]

Stale ==
    \A c \in Calls :
        /\ issued[c] # None => issued[c].version = issued[c].root
        /\ "reset" \in late[c] => OutOfDate(c) /\ pc[c] # "consume"

\* A reset that took effect went by a version that is no longer the user's.
Advanced ==
    \A c \in applied :
        /\ pc[c] \in {"dropReset", "done"}
        /\ req[c].op = "resetPassword"
        /\ read[c] < version[req[req[c].via].user]

\* How a request gets to the statements the invariants speak of.
LEMMA Arrivals ==
    ASSUME Basics, NEW c \in Calls, CallStep(c)
    PROVE  /\ pc[c] = "none" /\ pc'[c] # "none" => Begin(c)
           /\ late'[c] # late[c] => Begin(c)
           /\ pc'[c] = "revokeAccess" /\ pc[c] # "revokeAccess" =>
                 RevokeRefresh(c)
           /\ pc'[c] = "readUser" /\ pc[c] # "readUser" =>
                 Begin(c) \/ AskBlacklist(c)
           /\ pc'[c] = "consume" /\ pc[c] # "consume" => CheckRefresh(c)
           /\ issued'[c] # issued[c] =>
                 InsertUser(c) \/ Login(c) \/ CheckRefresh(c)
           /\ applied' # applied => UpdatePassword(c)
           /\ read'[c] # read[c] => ReadVersion(c) \/ ReadReset(c)
<1> USE DEF Basics, TypeOK, Goto, Reply, Confirmed, ConfirmedLast, Waiting, redis,
            clock, call
<1>1. CASE Begin(c)
  BY <1>1 DEF Begin, FirstStep
<1>2. CASE CheckFree(c) \/ InsertUser(c) \/ Login(c) \/ AskBlacklist(c)
  BY <1>2 DEF CheckFree, InsertUser, Login, AskBlacklist
<1>3. CASE Authenticate(c) \/ CheckRefresh(c) \/ Consume(c)
  BY <1>3 DEF Authenticate, CheckRefresh, Consume
<1>4. CASE RevokeRefresh(c) \/ RevokeAccess(c)
  BY <1>4 DEF RevokeRefresh, RevokeAccess
<1>5. CASE ReadVersion(c) \/ StoreReset(c) \/ ReadReset(c)
  BY <1>5 DEF ReadVersion, StoreReset, ReadReset
<1>6. CASE UpdatePassword(c) \/ DropReset(c)
  BY <1>6 DEF UpdatePassword, DropReset
<1>7. CASE EndReset(c) \/ Fail(c)
  BY <1>7 DEF EndReset, Fail
<1> QED
  BY <1>1, <1>2, <1>3, <1>4, <1>5, <1>6, <1>7 DEF CallStep

\* The request a token names has its answer.
LEMMA Granted ==
    ASSUME Basics, NEW c \in Calls, pc[c] # "none"
    PROVE  /\ req[c] \in Requests
           /\ req[c].op \in {"refresh", "authenticate"} =>
                 /\ req[c].token[2] \in Calls
                 /\ pc[req[c].token[2]] = "done"
                 /\ issued[req[c].token[2]] \in Pair
           /\ req[c].op = "resetPassword" =>
                 /\ req[c].via \in Calls
                 /\ pc[req[c].via] = "done"
                 /\ req[req[c].via].user \in Users
<1>1. req[c] \in Requests
  BY DEF Basics, InPlace
<1>2. ASSUME req[c].op \in {"refresh", "authenticate"}
      PROVE  /\ req[c].token[2] \in Calls
             /\ pc[req[c].token[2]] = "done"
             /\ issued[req[c].token[2]] \in Pair
  BY <1>2 DEF Basics, HandedOut, Signed, Sessions, Succeeded, TypeOK
<1>3. ASSUME req[c].op = "resetPassword"
      PROVE  /\ req[c].via \in Calls
             /\ pc[req[c].via] = "done"
             /\ req[req[c].via].user \in Users
  <2>1. /\ req[c].via \in Calls /\ pc[req[c].via] = "done"
        /\ req[req[c].via].op = "verifyReset"
    BY <1>3 DEF Basics, HandedOut, Succeeded, TypeOK
  <2>2. req[req[c].via] \in Requests
    BY <2>1 DEF Basics, InPlace
  <2> QED
    BY <2>1, <2>2, RequestFields
<1> QED
  BY <1>1, <1>2, <1>3

\* A success is one from before or what the step is about.
LEMMA NewSuccess ==
    ASSUME Basics, [Next]_vars, NEW ops, NEW c \in Succeeded(ops)'
    PROVE  /\ c \in Calls /\ answer'[c] = "ok" /\ req'[c].op \in ops
           /\ \/ c \in Succeeded(ops) /\ Rests(c)
              \/ /\ CallStep(c) /\ answer[c] # "ok"
                 /\ \A d \in Calls \ {c} : Rests(d)
<1>1. TypeOK /\ InPlace
  BY DEF Basics
<1>2. Lasting /\ \A d \in Calls : ~ Rests(d) => CallStep(d)
  BY <1>1, StepFrame
<1>3. c \in Calls /\ answer'[c] = "ok" /\ req'[c].op \in ops
  BY DEF Succeeded
<1>4. CASE answer[c] = "ok"
  <2>1. pc[c] = "done"
    BY <1>1, <1>3, <1>4 DEF TypeOK
  <2>2. Rests(c)
    BY <1>2, <1>3, <2>1 DEF Lasting
  <2> QED
    BY <1>3, <1>4, <2>2 DEF Succeeded, Rests
<1>5. CASE answer[c] # "ok"
  <2>1. CallStep(c)
    BY <1>2, <1>3, <1>5 DEF Rests
  <2> QED
    BY <1>1, <1>3, <1>5, <2>1, OthersRest
<1> QED
  BY <1>3, <1>4, <1>5

-----------------------------------------------------------------------------
(* A refresh token works once *)

\* An accepted refresh token stays spent.
LEMMA SpentStep == Basics /\ Spent /\ [Next]_vars => Spent'
<1> SUFFICES ASSUME Basics, Spent, [Next]_vars, NEW c \in Succeeded({"refresh"})'
             PROVE  req'[c].token \in blacklist' \cup expired'
  BY DEF Spent
<1>1. Lasting
  BY StepFrame DEF Basics
<1>2. CASE c \in Succeeded({"refresh"}) /\ Rests(c)
  BY <1>1, <1>2 DEF Spent, Lasting, Rests
<1>3. CASE CallStep(c) /\ answer[c] # "ok"
  BY <1>3, NewSuccess, SuccessStep
<1> QED
  BY <1>2, <1>3, NewSuccess

\* The second request with a refresh token finds the key of the first.
LEMMA OneUseStep ==
    Basics /\ Spent /\ OneUsePerRefreshToken /\ [Next]_vars
    => OneUsePerRefreshToken'
<1> SUFFICES ASSUME Basics, Spent, OneUsePerRefreshToken, [Next]_vars,
                    NEW c \in Succeeded({"refresh"})',
                    NEW d \in Succeeded({"refresh"})',
                    c # d, req'[c].token = req'[d].token
             PROVE  req'[c].token \in expired'
  BY DEF OneUsePerRefreshToken
<1>1. expired \subseteq expired'
  BY StepFrame DEF Basics, Lasting
<1>2. ASSUME NEW e \in Succeeded({"refresh"}), Rests(e),
             NEW f \in Calls, CallStep(f), answer[f] # "ok", answer'[f] = "ok",
             req'[f].op = "refresh", req'[e].token = req'[f].token
      PROVE  req'[e].token \in expired'
  <2>1. req[e].token \in blacklist \cup expired /\ req'[e] = req[e]
    BY <1>2 DEF Spent, Rests
  <2>2. req[f].token \notin blacklist \ expired /\ req'[f] = req[f]
    BY <1>2, SuccessStep
  <2> QED
    BY <1>1, <1>2, <2>1, <2>2
<1>3. CASE c \in Succeeded({"refresh"}) /\ d \in Succeeded({"refresh"})
  <2>1. Rests(c) /\ Rests(d)
    BY <1>3, StepFrame DEF Basics, TypeOK, Succeeded, Lasting
  <2> QED
    BY <1>1, <1>3, <2>1 DEF OneUsePerRefreshToken, Rests
<1>4. CASE c \notin Succeeded({"refresh"})
  <2>1. /\ c \in Calls /\ CallStep(c) /\ answer[c] # "ok" /\ answer'[c] = "ok"
        /\ req'[c].op = "refresh" /\ \A e \in Calls \ {c} : Rests(e)
    BY <1>4, NewSuccess
  <2>2. d \in Calls /\ answer'[d] = "ok" /\ req'[d].op = "refresh"
    BY NewSuccess
  <2>3. Rests(d) /\ d \in Succeeded({"refresh"})
    BY <2>1, <2>2 DEF Rests, Succeeded
  <2> QED
    BY <1>2, <2>1, <2>3
<1>5. CASE d \notin Succeeded({"refresh"})
  <2>1. /\ d \in Calls /\ CallStep(d) /\ answer[d] # "ok" /\ answer'[d] = "ok"
        /\ req'[d].op = "refresh" /\ \A e \in Calls \ {d} : Rests(e)
    BY <1>5, NewSuccess
  <2>2. c \in Calls /\ answer'[c] = "ok" /\ req'[c].op = "refresh"
    BY NewSuccess
  <2>3. Rests(c) /\ c \in Succeeded({"refresh"})
    BY <2>1, <2>2 DEF Rests, Succeeded
  <2> QED
    BY <1>2, <2>1, <2>3
<1> QED
  BY <1>3, <1>4, <1>5

-----------------------------------------------------------------------------
(* Logout is final *)

\* A token of a logout that succeeded is under its key, or expired.
LEMMA RevokedTokens ==
    ASSUME Basics, Revoked, NEW r \in Requests, LoggedOut(r.token),
           r.op \in {"refresh", "authenticate"}
    PROVE  r.token \in blacklist \cup expired
<1>1. r.token # None
  BY RequestFields
<1> QED
  BY <1>1 DEF LoggedOut, Revoked

\* A revoked token stays revoked, for who asked before and who asks now.
LEMMA RevokedStep == Basics /\ Revoked /\ [Next]_vars => Revoked'
<1> SUFFICES ASSUME Basics, Revoked, [Next]_vars PROVE Revoked'
  OBVIOUS
<1>1. TypeOK /\ InPlace
  BY DEF Basics
<1>2. Lasting /\ \A c \in Calls : ~ Rests(c) => CallStep(c)
  BY <1>1, StepFrame
<1>3. blacklist \subseteq blacklist' /\ expired \subseteq expired'
  BY <1>2 DEF Lasting
<1>4. ASSUME NEW c \in Calls, pc'[c] = "revokeAccess"
      PROVE  req'[c].refresh \in blacklist' \cup expired' \cup {None}
  <2>1. CASE pc[c] = "revokeAccess"
    BY <1>2, <1>3, <2>1 DEF Revoked, Lasting
  <2>2. CASE pc[c] # "revokeAccess"
    <3>1. RevokeRefresh(c)
      BY <1>2, <1>4, <2>2, Arrivals DEF Rests
    <3> QED
      BY <3>1 DEF RevokeRefresh, Revoke, Listed, call, clock
  <2> QED
    BY <2>1, <2>2
<1>5. ASSUME NEW c \in Calls, "loggedOut" \in late'[c]
      PROVE  /\ req'[c].op \in {"refresh", "authenticate"}
             /\ req'[c].token \in blacklist' \cup expired'
  <2>1. CASE "loggedOut" \in late[c]
    <3>1. pc[c] # "none"
      BY <1>1, <2>1 DEF InPlace
    <3> QED
      BY <1>2, <1>3, <2>1, <3>1 DEF Revoked, Lasting
  <2>2. CASE "loggedOut" \notin late[c]
    <3>1. Begin(c)
      BY <1>2, <1>5, <2>2, Arrivals DEF Rests
    <3>2. PICK r \in Possible :
            /\ req' = [req EXCEPT ![c] = r]
            /\ late' = [late EXCEPT ![c] = Overdue(r)]
      BY <3>1 DEF Begin
    <3>3. req'[c] = r /\ "loggedOut" \in Overdue(r)
      BY <1>1, <1>5, <3>2 DEF TypeOK
    <3>4. r.op \in {"refresh", "authenticate"} /\ LoggedOut(r.token)
      BY <3>3 DEF Overdue
    <3>5. r.token \in blacklist \cup expired
      BY <1>1, <3>4, PossibleRequests, RevokedTokens
    <3> QED
      BY <1>3, <3>3, <3>4, <3>5
  <2> QED
    BY <2>1, <2>2
<1>6. ASSUME NEW c \in Calls, pc'[c] = "readUser", req'[c].op = "authenticate",
             "loggedOut" \in late'[c]
      PROVE  req'[c].token \in expired'
  <2>1. CASE pc[c] = "readUser"
    BY <1>2, <1>3, <1>6, <2>1 DEF Revoked, Lasting
  <2>2. CASE pc[c] # "readUser"
    <3>1. Begin(c) \/ AskBlacklist(c)
      BY <1>2, <1>6, <2>2, Arrivals DEF Rests
    <3>2. AskBlacklist(c)
      BY <1>1, <1>6, <3>1 DEF Begin, Goto, FirstStep, TypeOK
    <3>3. req[c].token \notin blacklist \ expired /\ req' = req /\ late' = late
      BY <1>1, <1>6, <3>2 DEF AskBlacklist, Gone, Kept, Reply, call, TypeOK
    <3> QED
      BY <1>3, <1>6, <3>3 DEF Revoked
  <2> QED
    BY <2>1, <2>2
<1>7. ASSUME NEW l \in Succeeded({"logout"})'
      PROVE  /\ req'[l].access \in blacklist' \cup expired'
             /\ req'[l].refresh \in blacklist' \cup expired' \cup {None}
  <2>1. CASE l \in Succeeded({"logout"}) /\ Rests(l)
    BY <1>3, <2>1 DEF Revoked, Rests
  <2>2. CASE CallStep(l) /\ answer[l] # "ok"
    <3>1. /\ pc[l] = "revokeAccess" /\ req'[l] = req[l] /\ l \in Calls
          /\ req[l].access \in blacklist' \cup expired
      BY <2>2, NewSuccess, SuccessStep
    <3> QED
      BY <1>3, <3>1 DEF Revoked
  <2> QED
    BY <2>1, <2>2, NewSuccess
<1> QED
  BY <1>4, <1>5, <1>6, <1>7 DEF Revoked

\* Nobody who began after a logout gets past the key it left.
LEMMA LogoutStep ==
    Basics /\ Revoked /\ LogoutIsFinal /\ [Next]_vars => LogoutIsFinal'
<1> SUFFICES ASSUME Basics, Revoked, LogoutIsFinal, [Next]_vars,
                    NEW c \in Calls, answer'[c] = "ok", "loggedOut" \in late'[c]
             PROVE  req'[c].token \in expired'
  BY DEF LogoutIsFinal
<1>1. TypeOK
  BY DEF Basics
<1>2. Lasting /\ \A d \in Calls : ~ Rests(d) => CallStep(d)
  BY <1>1, StepFrame
<1>3. CASE answer[c] = "ok"
  BY <1>1, <1>2, <1>3 DEF LogoutIsFinal, Lasting, Rests, TypeOK
<1>4. CASE answer[c] # "ok"
  <2>1. CallStep(c)
    BY <1>2, <1>4 DEF Rests
  <2>2. /\ pc[c] # "none" /\ req'[c] = req[c]
        /\ req[c].op = "authenticate" => pc[c] = "readUser"
        /\ req[c].op = "refresh" => req[c].token \notin blacklist \ expired
    BY <1>4, <2>1, SuccessStep
  <2>3. "loggedOut" \in late[c]
    BY <1>2, <2>2 DEF Lasting
  <2>4. req[c].token \in expired
    BY <2>2, <2>3 DEF Revoked
  <2> QED
    BY <1>2, <2>2, <2>4 DEF Lasting
<1> QED
  BY <1>3, <1>4

-----------------------------------------------------------------------------
(* A reset ends the sessions from before *)

\* Every pair that is signed has the version of its session.
LEMMA SignedStep ==
    ASSUME Basics, Stale, NEW c \in Calls, CallStep(c), issued'[c] # issued[c]
    PROVE  issued'[c].version = issued'[c].root
<1> USE DEF Sign, Goto, Reply, SameVersion
<1>1. TypeOK /\ InPlace
  BY DEF Basics
<1>2. CASE InsertUser(c)
  BY <1>1, <1>2 DEF InsertUser, TypeOK
<1>3. CASE Login(c)
  BY <1>1, <1>3 DEF Login, TypeOK
<1>4. CASE CheckRefresh(c)
  <2> DEFINE p == issued[req[c].token[2]]
  <2>1. p.version = version[p.user] /\ Sign(c, p.user, version[p.user], p.root)
    BY <1>4 DEF CheckRefresh
  <2>2. p.version = p.root
    BY <1>1, <1>4, Granted DEF CheckRefresh, Stale, InPlace, Basics
  <2> QED
    BY <1>1, <2>1, <2>2 DEF TypeOK
<1> QED
  BY <1>2, <1>3, <1>4, Arrivals

\* What is out of date stays so.
LEMMA OutOfDateLasts ==
    ASSUME Basics, [Next]_vars, NEW c \in Calls, pc[c] # "none", OutOfDate(c)
    PROVE  OutOfDate(c)'
<1>1. TypeOK /\ InPlace
  BY DEF Basics
<1>2. Lasting
  BY <1>1, StepFrame
<1>3. /\ req'[c] = req[c] /\ req[c] \in Requests
      /\ \A u \in Users : version[u] \in Nat /\ version'[u] \in Nat
                          /\ version'[u] >= version[u]
  BY <1>1, <1>2, NextBasics DEF Lasting, InPlace, Basics, TypeOK
<1>4. CASE req[c].op \in {"refresh", "authenticate"}
  <2> DEFINE d == req[c].token[2]
  <2>1. d \in Calls /\ pc[d] = "done" /\ issued[d] \in Pair
    BY <1>4, Granted
  <2>2. issued'[d] = issued[d]
    BY <1>2, <2>1 DEF Lasting, Rests
  <2>3. issued[d].root < version[issued[d].user]
    BY <1>4 DEF OutOfDate
  <2>4. issued[d].root < version'[issued[d].user]
    BY <1>3, <2>1, <2>3 DEF Pair
  <2> QED
    BY <1>3, <1>4, <2>2, <2>4 DEF OutOfDate
<1>5. CASE req[c].op = "login"
  <2>1. req[c].user \in Users /\ req[c].password \in Nat
    BY <1>3, <1>5, RequestFields
  <2>2. req[c].password < version[req[c].user]
    BY <1>5 DEF OutOfDate
  <2> QED
    BY <1>3, <1>5, <2>1, <2>2 DEF OutOfDate
<1> QED
  BY <1>4, <1>5 DEF OutOfDate

\* What a reset left behind does not catch up with the version.
LEMMA StaleStep == Basics /\ Stale /\ [Next]_vars => Stale'
<1> SUFFICES ASSUME Basics, Stale, [Next]_vars, NEW c \in Calls
             PROVE  /\ issued'[c] # None => issued'[c].version = issued'[c].root
                    /\ "reset" \in late'[c] => OutOfDate(c)' /\ pc'[c] # "consume"
  BY DEF Stale
<1>1. TypeOK /\ InPlace
  BY DEF Basics
<1>2. Lasting /\ \A d \in Calls : ~ Rests(d) => CallStep(d)
  BY <1>1, StepFrame
<1>3. issued'[c] # None => issued'[c].version = issued'[c].root
  BY <1>2, SignedStep DEF Stale, Rests
<1>4. ASSUME "reset" \in late'[c], pc[c] = "none"
      PROVE  OutOfDate(c)' /\ pc'[c] # "consume"
  <2>1. Begin(c)
    BY <1>1, <1>2, <1>4, Arrivals DEF Rests, InPlace
  <2>2. PICK r \in Possible :
          /\ req' = [req EXCEPT ![c] = r]
          /\ late' = [late EXCEPT ![c] = Overdue(r)]
          /\ pc' = [pc EXCEPT ![c] = FirstStep(r.op)]
    BY <2>1 DEF Begin, Goto
  <2>3. req'[c] = r /\ "reset" \in Overdue(r) /\ pc'[c] = FirstStep(r.op)
    BY <1>1, <1>4, <2>2 DEF TypeOK
  <2>4. UNCHANGED <<version, issued>>
    BY <2>1 DEF Begin
  <2>5. OutOfDate(c)'
    BY <2>3, <2>4 DEF Overdue, OutOfDate
  <2> QED
    BY <2>3, <2>5 DEF FirstStep
<1>5. ASSUME "reset" \in late'[c], pc[c] # "none"
      PROVE  OutOfDate(c)' /\ pc'[c] # "consume"
  <2>1. "reset" \in late[c] /\ OutOfDate(c) /\ pc[c] # "consume"
    BY <1>2, <1>5 DEF Lasting, Stale
  <2>2. ASSUME CheckRefresh(c) PROVE pc'[c] # "consume"
    <3> DEFINE d == req[c].token[2]
    <3>1. req[c].op = "refresh" /\ d \in Calls /\ issued[d] \in Pair
      BY <1>1, <2>2, Granted DEF CheckRefresh
    <3>2. issued[d].version = issued[d].root
      BY <3>1 DEF Stale
    <3>3. issued[d].root < version[issued[d].user]
      BY <2>1, <3>1 DEF OutOfDate
    <3>4. ~ SameVersion(issued[d])
      BY <1>1, <3>1, <3>2, <3>3 DEF SameVersion, Pair, TypeOK
    <3> QED
      BY <1>1, <2>2, <3>4 DEF CheckRefresh, Reply, TypeOK
  <2>3. pc'[c] # "consume"
    BY <1>2, <2>1, <2>2, Arrivals DEF Rests
  <2> QED
    BY <1>5, <2>1, <2>3, OutOfDateLasts
<1> QED
  BY <1>3, <1>4, <1>5

\* Nobody who began with what is out of date finds the version he needs.
LEMMA ResetEndsStep ==
    Basics /\ Stale /\ ResetEndsSessions /\ [Next]_vars => ResetEndsSessions'
<1> SUFFICES ASSUME Basics, Stale, ResetEndsSessions, [Next]_vars,
                    NEW c \in Calls, answer'[c] = "ok", "reset" \in late'[c]
             PROVE  FALSE
  BY DEF ResetEndsSessions
<1>1. TypeOK /\ InPlace
  BY DEF Basics
<1>2. Lasting /\ \A d \in Calls : ~ Rests(d) => CallStep(d)
  BY <1>1, StepFrame
<1>3. CASE answer[c] = "ok"
  BY <1>1, <1>2, <1>3 DEF ResetEndsSessions, Lasting, Rests, TypeOK
<1>4. CASE answer[c] # "ok"
  <2>1. CallStep(c)
    BY <1>2, <1>4 DEF Rests
  <2>2. /\ pc[c] # "none"
        /\ req[c].op = "login" => req[c].password = version[req[c].user]
        /\ req[c].op = "authenticate" => SameVersion(issued[req[c].token[2]])
        /\ req[c].op = "refresh" => pc[c] = "consume"
    BY <1>4, <2>1, SuccessStep
  <2>3. OutOfDate(c) /\ pc[c] # "consume"
    BY <1>2, <2>2 DEF Lasting, Stale
  <2>4. CASE req[c].op = "login"
    <3>1. req[c].password \in Nat
      BY <1>1, <2>2, <2>4, RequestFields DEF InPlace
    <3> QED
      BY <2>2, <2>3, <2>4, <3>1 DEF OutOfDate
  <2>5. CASE req[c].op = "authenticate"
    <3> DEFINE p == issued[req[c].token[2]]
    <3>1. p \in Pair /\ p.version = p.root
      BY <2>2, <2>5, Granted DEF Stale
    <3>2. p.root < version[p.user] /\ p.version = version[p.user]
      BY <2>2, <2>3, <2>5 DEF OutOfDate, SameVersion
    <3>3. p.root \in Nat
      BY <3>1 DEF Pair
    <3> QED
      BY <3>1, <3>2, <3>3
  <2> QED
    BY <2>2, <2>3, <2>4, <2>5 DEF OutOfDate
<1> QED
  BY <1>3, <1>4

-----------------------------------------------------------------------------
(* A reset happens once for each version *)

\* A reset that took effect goes by what it read, from then on.
LEMMA AppliedRests ==
    ASSUME Basics, Advanced, [Next]_vars, NEW c \in applied
    PROVE  /\ c \in Calls /\ req'[c] = req[c] /\ read'[c] = read[c]
           /\ pc'[c] \in {"dropReset", "done"}
           /\ req[c].via \in Calls /\ req'[req[c].via] = req[req[c].via]
           /\ req[req[c].via].user \in Users
<1>1. TypeOK
  BY DEF Basics
<1>2. Lasting /\ \A d \in Calls : ~ Rests(d) => CallStep(d)
  BY <1>1, StepFrame
<1>3. /\ c \in Calls /\ pc[c] \in {"dropReset", "done"}
      /\ req[c].op = "resetPassword"
  BY <1>1 DEF Advanced, TypeOK
<1>4. req'[c] = req[c]
  BY <1>2, <1>3 DEF Lasting
<1>5. /\ req[c].via \in Calls /\ pc[req[c].via] = "done"
      /\ req[req[c].via].user \in Users
  BY <1>3, Granted
<1>6. req'[req[c].via] = req[req[c].via]
  BY <1>2, <1>5 DEF Lasting
<1>7. read'[c] = read[c]
  <2>1. ~ ReadVersion(c) /\ ~ ReadReset(c)
    BY <1>3 DEF ReadVersion, ReadReset
  <2> QED
    BY <1>2, <1>3, <2>1, Arrivals DEF Rests
<1>8. pc'[c] \in {"dropReset", "done"}
  <2>1. CASE Rests(c)
    BY <1>3, <2>1 DEF Rests
  <2>2. CASE CallStep(c)
    BY <1>1, <1>3, <2>2
    DEF CallStep, Begin, CheckFree, InsertUser, Login, AskBlacklist,
        Authenticate, CheckRefresh, Consume, RevokeRefresh, RevokeAccess,
        ReadVersion, StoreReset, ReadReset, UpdatePassword, DropReset, EndReset,
        Fail, Waiting, Reply, TypeOK
  <2> QED
    BY <1>2, <1>3, <2>1, <2>2
<1> QED
  BY <1>3, <1>4, <1>5, <1>6, <1>7, <1>8

\* What takes effect with a step is the reset of the version that is current.
LEMMA NewlyApplied ==
    ASSUME Basics, [Next]_vars, NEW c \in applied', c \notin applied
    PROVE  /\ applied' = applied \cup {c}
           /\ c \in Calls /\ req' = req /\ read' = read
           /\ pc'[c] \in {"dropReset", "done"} /\ req[c].op = "resetPassword"
           /\ req[req[c].via].user \in Users
           /\ read[c] = version[req[req[c].via].user]
           /\ version'[req[req[c].via].user] = read[c] + 1
<1>1. TypeOK /\ InPlace
  BY DEF Basics
<1>2. PICK d \in Calls : UpdatePassword(d) /\ applied' = applied \cup {d}
  <2>1. CASE \E d \in Calls : CallStep(d)
    <3>1. PICK d \in Calls : CallStep(d)
      BY <2>1
    <3>2. UpdatePassword(d)
      BY <3>1, Arrivals
    <3> QED
      BY <3>2 DEF UpdatePassword
  <2>2. CASE (\E t \in Tokens : Expire(t)) \/ UNCHANGED vars
    BY <2>2 DEF Expire, vars
  <2> QED
    BY <2>1, <2>2 DEF Next, CallStep, Finished
<1>3. c = d
  BY <1>2
<1>4. /\ pc[c] = "updatePassword" /\ req' = req /\ read' = read
      /\ req[c].op = "resetPassword"
  BY <1>1, <1>2, <1>3 DEF UpdatePassword, call, InPlace
<1>5. req[req[c].via].user \in Users
  BY <1>2, <1>3, <1>4, Granted
<1>6. /\ VersionedRow(req[req[c].via].user, read[c])
      /\ version' = [version EXCEPT ![req[req[c].via].user] = @ + 1]
      /\ Confirmed(c, "dropReset")
  BY <1>2, <1>3 DEF UpdatePassword
<1>7. pc'[c] \in {"dropReset", "done"}
  BY <1>1, <1>2, <1>3, <1>6 DEF Confirmed, Goto, Reply, TypeOK
<1> QED
  BY <1>1, <1>2, <1>3, <1>4, <1>5, <1>6, <1>7 DEF VersionedRow, TypeOK

\* A reset that took effect has left its version behind.
LEMMA AdvancedStep == Basics /\ Advanced /\ [Next]_vars => Advanced'
<1> SUFFICES ASSUME Basics, Advanced, [Next]_vars, NEW c \in applied'
             PROVE  /\ pc'[c] \in {"dropReset", "done"}
                    /\ req'[c].op = "resetPassword"
                    /\ read'[c] < version'[req'[req'[c].via].user]
  BY DEF Advanced
<1>1. TypeOK /\ TypeOK' /\ Lasting
  BY NextBasics, StepFrame DEF Basics
<1>2. CASE c \in applied
  <2> DEFINE u == req[req[c].via].user
  <2>1. /\ c \in Calls /\ req'[c] = req[c] /\ read'[c] = read[c]
        /\ pc'[c] \in {"dropReset", "done"}
        /\ req'[req[c].via] = req[req[c].via] /\ u \in Users
    BY <1>2, AppliedRests
  <2>2. /\ read[c] \in Nat /\ version[u] \in Nat /\ version'[u] \in Nat
        /\ read[c] < version[u] /\ version[u] <= version'[u]
        /\ req[c].op = "resetPassword"
    BY <1>1, <1>2, <2>1 DEF Advanced, Lasting, TypeOK
  <2>3. read[c] < version'[u]
    BY <2>2
  <2> QED
    BY <2>1, <2>2, <2>3
<1>3. CASE c \notin applied
  BY <1>1, <1>3, NewlyApplied DEF TypeOK
<1> QED
  BY <1>2, <1>3

\* The next reset goes by a version no reset before it went by.
LEMMA OneResetStep ==
    Basics /\ Advanced /\ OneResetPerVersion /\ [Next]_vars => OneResetPerVersion'
<1> SUFFICES ASSUME Basics, Advanced, OneResetPerVersion, [Next]_vars
             PROVE  OneResetPerVersion'
  OBVIOUS
<1>1. TypeOK
  BY DEF Basics
<1>2. ASSUME NEW c \in applied, NEW d \in applied', d \notin applied
      PROVE  ~ (/\ req'[req'[c].via].user = req'[req'[d].via].user
                /\ read'[c] = read'[d])
  <2>1. read[c] < version[req[req[c].via].user] /\ c \in Calls
    BY <1>1 DEF Advanced, TypeOK
  <2>2. /\ req' = req /\ read' = read
        /\ read[d] = version[req[req[d].via].user]
    BY <1>2, NewlyApplied
  <2>3. read[c] \in Nat
    BY <1>1, <2>1 DEF TypeOK
  <2> QED
    BY <2>1, <2>2, <2>3
<1>3. ASSUME NEW c \in applied', NEW d \in applied',
             req'[req'[c].via].user = req'[req'[d].via].user, read'[c] = read'[d]
      PROVE  c = d
  <2>1. CASE c \in applied /\ d \in applied
    <3>1. /\ req[req[c].via].user = req[req[d].via].user
          /\ read[c] = read[d]
      BY <1>3, <2>1, AppliedRests
    <3> QED
      BY <2>1, <3>1 DEF OneResetPerVersion
  <2>2. CASE c \notin applied /\ d \notin applied
    BY <2>2, NewlyApplied
  <2>3. CASE c \in applied /\ d \notin applied
    BY <1>2, <1>3, <2>3
  <2>4. CASE c \notin applied /\ d \in applied
    BY <1>2, <1>3, <2>4
  <2> QED
    BY <2>1, <2>2, <2>3, <2>4
<1> QED
  BY <1>3 DEF OneResetPerVersion

-----------------------------------------------------------------------------
(* The theorems *)

\* Requests and rows are what the code takes them for at every statement, and
\* a request that is to spend its token has a pair to answer with.
THEOREM SessionTypes == Spec => []TypeOK
<1>1. Basics => TypeOK
  BY DEF Basics
<1> QED
  BY <1>1, InitBasics, NextBasics, PTL DEF Spec

\* The basics hold in every run.
LEMMA SessionBasics == Spec => []Basics
BY InitBasics, NextBasics, PTL DEF Spec

\* RefreshToken: SETNX lets one of the requests with a refresh token through,
\* however their statements mix; a second one gets through only after the key
\* has gone, with the token that it stood for.
THEOREM RefreshTokensWorkOnce == Spec => []OneUsePerRefreshToken
<1>1. Init => Spent /\ OneUsePerRefreshToken
  BY DEF Init, Spent, OneUsePerRefreshToken, Succeeded, Before
<1> QED
  BY <1>1, SessionBasics, SpentStep, OneUseStep, PTL DEF Spec

\* Logout: after its confirmation nobody who begins to use one of its tokens
\* succeeds while the token lives, in the middleware or in RefreshToken.
THEOREM LogoutStaysFinal == Spec => []LogoutIsFinal
<1>1. Init => Revoked /\ LogoutIsFinal
  BY DEF Init, Revoked, LogoutIsFinal, Succeeded, Before
<1> QED
  BY <1>1, SessionBasics, RevokedStep, LogoutStep, PTL DEF Spec

\* ResetPassword: after the new token_version nobody who begins with a token
\* of a session from before, or with the old password, succeeds.
THEOREM ResetsEndSessions == Spec => []ResetEndsSessions
<1>1. Init => Stale /\ ResetEndsSessions
  BY DEF Init, Stale, ResetEndsSessions, Before
<1> QED
  BY <1>1, SessionBasics, StaleStep, ResetEndsStep, PTL DEF Spec

\* ResetPassword: of the resets that went by one token_version of a user one
\* takes effect, because the UPDATE names the version it read.
THEOREM ResetsHappenOnce == Spec => []OneResetPerVersion
<1>1. Init => Advanced /\ OneResetPerVersion
  BY DEF Init, Advanced, OneResetPerVersion
<1> QED
  BY <1>1, SessionBasics, AdvancedStep, OneResetStep, PTL DEF Spec
=============================================================================
