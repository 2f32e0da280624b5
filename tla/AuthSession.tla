----------------------------- MODULE AuthSession -----------------------------
(***************************************************************************)
(* Accounts and sessions: internal/service/auth with the statements it     *)
(* sends to the user table and to Redis.  Requests overlap; each statement *)
(* is one action, and what a request computes between two statements goes  *)
(* with the first.  Access and refresh tokens are signed, not stored: they *)
(* end by their expiry, by a key in the blacklist, which lives as long as  *)
(* the token, or by a token_version that no longer matches the user's.     *)
(*                                                                         *)
(* A pair of tokens is named by the request that signed it, a password by  *)
(* the token_version it came with: ResetPassword changes both in one       *)
(* statement.  Redis is taken to keep its keys until they expire.  Left    *)
(* out: captcha and SMS codes (a wrong one ends a request as Fail does),   *)
(* and users that were disabled or deleted, which no code here does.       *)
(***************************************************************************)
EXTENDS Naturals, FiniteSets

CONSTANTS
    Users, Calls, None,
    Past,         \* requests that were made before, with success
    Mortal        \* bound: the tokens whose expiry is looked at

ASSUME SessionAssumption ==
    /\ DOMAIN Past \subseteq Calls
    /\ \A c \in DOMAIN Past :
            Past[c] \in [op : {"loginBySMS", "verifyReset"}, user : Users]

VARIABLES
    version,      \* token_version of each user's row; 0: there is no row
    blacklist,    \* tokens with a key in Redis
    expired,      \* tokens whose time is over
    resets,       \* VerifyResetCode calls whose reset token is in Redis
    req,          \* what each request asks, once it has begun
    pc,           \* the statement it is about to run
    issued,       \* the pair it signed: user, token_version, root
    read,         \* the token_version a password reset goes by
    answer,       \* the reply of a request that is done
    late,         \* history: why it should be refused, as of its beginning
    applied       \* history: the resets that took effect

vars == <<version, blacklist, expired, resets, req, pc, issued, read, answer,
          late, applied>>

\* root: the password, or the token_version at the time of the SMS code, that
\* the session goes back to, over any number of refreshes.
Pair == [user : Users, version : Nat, root : Nat]
Tokens == {"access", "refresh"} \X Calls

\* nil is neither a pair nor a token.
ASSUME NoneAssumption == None \notin Pair \cup Tokens

Requests ==
    [op : {"register", "loginBySMS", "verifyReset"}, user : Users]
    \cup [op : {"login"}, user : Users, password : Nat]
    \cup [op : {"refresh", "authenticate"}, token : Tokens]
    \cup [op : {"logout"}, access : Tokens, refresh : Tokens \cup {None}]
    \cup [op : {"resetPassword"}, via : Calls]

Waiting == {"checkFree", "insertUser", "readUser", "askBlacklist", "consume",
            "revokeRefresh", "revokeAccess", "storeReset", "readReset",
            "updatePassword", "dropReset"}

TypeOK ==
    /\ version \in [Users -> Nat]
    /\ blacklist \subseteq Tokens
    /\ expired \subseteq Tokens
    /\ resets \subseteq Calls
    /\ req \in [Calls -> Requests \cup {None}]
    /\ pc \in [Calls -> Waiting \cup {"none", "done"}]
    /\ issued \in [Calls -> Pair \cup {None}]
    /\ read \in [Calls -> Nat]
    /\ answer \in [Calls -> {"none", "ok", "refused", "error"}]
    /\ late \in [Calls -> SUBSET {"loggedOut", "reset"}]
    /\ applied \subseteq Calls
    /\ \A c \in Calls : (pc[c] = "done") = (answer[c] # "none")
    /\ \A c \in Calls : pc[c] = "consume" => issued[c] # None

Before(op) == {c \in DOMAIN Past : Past[c].op = op}

\* Accounts, sessions and reset tokens may be there from before.
Init ==
    /\ version = [u \in Users |->
                    IF \E c \in DOMAIN Past : Past[c].user = u THEN 1 ELSE 0]
    /\ blacklist = {}
    /\ expired = {}
    /\ resets = Before("verifyReset")
    /\ req = [c \in Calls |-> IF c \in DOMAIN Past THEN Past[c] ELSE None]
    /\ pc = [c \in Calls |-> IF c \in DOMAIN Past THEN "done" ELSE "none"]
    /\ issued = [c \in Calls |->
                   IF c \in Before("loginBySMS")
                   THEN [user |-> Past[c].user, version |-> 1, root |-> 1]
                   ELSE None]
    /\ read = [c \in Calls |-> IF c \in Before("verifyReset") THEN 1 ELSE 0]
    /\ answer = [c \in Calls |-> IF c \in DOMAIN Past THEN "ok" ELSE "none"]
    /\ late = [c \in Calls |-> {}]
    /\ applied = {}

-----------------------------------------------------------------------------

redis == <<blacklist, resets>>
clock == <<expired>>
call == <<req, late>>

Goto(c, p) == pc' = [pc EXCEPT ![c] = p] /\ UNCHANGED answer

\* Mutant: the request goes on after its reply, for want of a return.
ReplyAndGoOn(c, a) == answer' = [answer EXCEPT ![c] = a] /\ UNCHANGED pc

Reply(c, a) ==
    /\ answer' = [answer EXCEPT ![c] = a]
    /\ pc' = [pc EXCEPT ![c] = "done"]

\* A statement that took effect is confirmed, or its confirmation is lost.
Confirmed(c, p) == Goto(c, p) \/ Reply(c, "error")
ConfirmedLast(c) == Reply(c, "ok") \/ Reply(c, "error")

\* Who holds tokens, and who was told a reset token.
Succeeded(op) == {d \in Calls : answer[d] = "ok" /\ req[d].op \in op}
Sessions == Succeeded({"register", "login", "loginBySMS", "refresh"})
Access == {"access"} \X Sessions
Refresh == {"refresh"} \X Sessions

\* The requests that can be made now.
Possible ==
    [op : {"register", "loginBySMS", "verifyReset"}, user : Users]
    \cup (UNION {[op : {"login"}, user : {u}, password : 1..version[u]] :
                     u \in Users})
    \cup [op : {"refresh"}, token : Refresh \ expired]
    \cup [op : {"authenticate"}, token : Access \ expired]
    \cup [op : {"logout"}, access : Access, refresh : Refresh \cup {None}]
    \cup [op : {"resetPassword"}, via : Succeeded({"verifyReset"})]

FirstStep(op) ==
    CASE op = "register" -> "checkFree"
      [] op = "authenticate" -> "askBlacklist"
      [] op = "logout" -> "revokeRefresh"
      [] op = "resetPassword" -> "readReset"
      [] OTHER -> "readUser"

LoggedOut(t) ==
    \E l \in Succeeded({"logout"}) : t \in {req[l].access, req[l].refresh}

\* What speaks against a request that begins now.
Overdue(r) ==
    {w \in {"loggedOut", "reset"} :
        \/ /\ r.op \in {"refresh", "authenticate"}
           /\ \/ w = "loggedOut" /\ LoggedOut(r.token)
              \/ w = "reset" /\ LET p == issued[r.token[2]]
                                IN  p.root < version[p.user]
        \/ w = "reset" /\ r.op = "login" /\ r.password < version[r.user]}

\* The handler has decoded a request; a token it carries is still valid.
Begin(c) ==
    /\ pc[c] = "none"
    /\ \E r \in Possible :
        /\ req' = [req EXCEPT ![c] = r]
        /\ late' = [late EXCEPT ![c] = Overdue(r)]
        /\ Goto(c, FirstStep(r.op))
    /\ UNCHANGED <<version, redis, clock, issued, read, applied>>

-----------------------------------------------------------------------------
(* Register, Login, LoginBySMS *)

Sign(c, u, v, root) ==
    issued' = [issued EXCEPT ![c] = [user |-> u, version |-> v, root |-> root]]

\* GetByUsername and GetByPhone; the name may be another user's.
CheckFree(c) ==
    /\ pc[c] = "checkFree"
    /\ \/ version[req[c].user] = 0 /\ Goto(c, "insertUser")
       \/ Reply(c, "refused")
    /\ UNCHANGED <<version, redis, clock, call, issued, read, applied>>

\* The unique indexes decide between two registrations.
InsertUser(c) ==
    LET u == req[c].user
    IN  /\ pc[c] = "insertUser"
        /\ \/ /\ version[u] = 0
              /\ version' = [version EXCEPT ![u] = 1]
              /\ Sign(c, u, 1, 1)
              /\ ConfirmedLast(c)
           \/ Reply(c, "refused") /\ UNCHANGED <<version, issued>>
        /\ UNCHANGED <<redis, clock, call, read, applied>>

Login(c) ==
    LET u == req[c].user
    IN  /\ pc[c] = "readUser"
        /\ req[c].op \in {"login", "loginBySMS"}
        /\ IF version[u] # 0 /\ (req[c].op = "login" => req[c].password = version[u])
           THEN Sign(c, u, version[u], version[u]) /\ Reply(c, "ok")
           ELSE Reply(c, "refused") /\ UNCHANGED issued
        /\ UNCHANGED <<version, redis, clock, call, read, applied>>

-----------------------------------------------------------------------------
(* Authenticate and RefreshToken *)

\* Mutant: the versions are not compared.
AnyVersion(p) == TRUE
SameVersion(p) == p.version = version[p.user]

\* A key of the blacklist ends some time after its token.
Kept(t) == t \in blacklist
Gone(t) == t \notin blacklist \ expired

AskBlacklist(c) ==
    /\ pc[c] = "askBlacklist"
    /\ \/ Kept(req[c].token) /\ Reply(c, "refused")
       \/ Gone(req[c].token) /\ Goto(c, "readUser")
    /\ UNCHANGED <<version, redis, clock, call, issued, read, applied>>

Authenticate(c) ==
    /\ pc[c] = "readUser"
    /\ req[c].op = "authenticate"
    /\ IF SameVersion(issued[req[c].token[2]]) THEN Reply(c, "ok")
                                               ELSE Reply(c, "refused")
    /\ UNCHANGED <<version, redis, clock, call, issued, read, applied>>

\* The version and the time that is left are checked, new tokens signed.
CheckRefresh(c) ==
    LET t == req[c].token
        p == issued[t[2]]
    IN  /\ pc[c] = "readUser"
        /\ req[c].op = "refresh"
        /\ IF SameVersion(p) /\ t \notin expired
           THEN Sign(c, p.user, version[p.user], p.root) /\ Goto(c, "consume")
           ELSE Reply(c, "refused") /\ UNCHANGED issued
        /\ UNCHANGED <<version, redis, clock, call, read, applied>>

\* Mutant: SET in place of SETNX.
AlwaysSet(t) == TRUE
SetNX(t) == Gone(t)

\* ConsumeRefreshToken.
Consume(c) ==
    LET t == req[c].token
    IN  /\ pc[c] = "consume"
        /\ \/ SetNX(t) /\ blacklist' = blacklist \cup {t} /\ ConfirmedLast(c)
           \/ Kept(t) /\ Reply(c, "refused") /\ UNCHANGED blacklist
        /\ UNCHANGED <<version, resets, clock, call, issued, read, applied>>

-----------------------------------------------------------------------------
(* Logout *)

\* Mutant: nothing is written.
NotListed(t) == blacklist
Listed(t) == blacklist \cup {t}

\* revokeToken: nothing to do for a token that is missing or expired; one that
\* expires after the check is written all the same.
Revoke(t) ==
    \/ t # None /\ blacklist' = Listed(t)
    \/ t \in expired \cup {None} /\ UNCHANGED blacklist

RevokeRefresh(c) ==
    /\ pc[c] = "revokeRefresh"
    /\ Revoke(req[c].refresh)
    /\ Confirmed(c, "revokeAccess")
    /\ UNCHANGED <<version, resets, clock, call, issued, read, applied>>

RevokeAccess(c) ==
    /\ pc[c] = "revokeAccess"
    /\ Revoke(req[c].access)
    /\ ConfirmedLast(c)
    /\ UNCHANGED <<version, resets, clock, call, issued, read, applied>>

-----------------------------------------------------------------------------
(* VerifyResetCode and ResetPassword *)

ReadVersion(c) ==
    LET v == version[req[c].user]
    IN  /\ pc[c] = "readUser"
        /\ req[c].op = "verifyReset"
        /\ IF v # 0
           THEN Goto(c, "storeReset") /\ read' = [read EXCEPT ![c] = v]
           ELSE Reply(c, "refused") /\ UNCHANGED read
        /\ UNCHANGED <<version, redis, clock, call, issued, applied>>

StoreReset(c) ==
    /\ pc[c] = "storeReset"
    /\ resets' = resets \cup {c}
    /\ ConfirmedLast(c)
    /\ UNCHANGED <<version, blacklist, clock, call, issued, read, applied>>

\* GetResetToken; the user it names is there, and the new password is hashed.
ReadReset(c) ==
    LET d == req[c].via
    IN  /\ pc[c] = "readReset"
        /\ IF d \in resets
           THEN Goto(c, "updatePassword") /\ read' = [read EXCEPT ![c] = read[d]]
           ELSE Reply(c, "refused") /\ UNCHANGED read
        /\ UNCHANGED <<version, redis, clock, call, issued, applied>>

\* Mutant: the version is left out of the WHERE clause.
AnyRow(u, v) == TRUE
\* WHERE id = ? AND token_version = ?
VersionedRow(u, v) == version[u] = v

UpdatePassword(c) ==
    LET u == req[req[c].via].user
    IN  /\ pc[c] = "updatePassword"
        /\ IF VersionedRow(u, read[c])
           THEN /\ version' = [version EXCEPT ![u] = @ + 1]
                /\ applied' = applied \cup {c}
                /\ Confirmed(c, "dropReset")
           ELSE Reply(c, "refused") /\ UNCHANGED <<version, applied>>
        /\ UNCHANGED <<redis, clock, call, issued, read>>

\* DelResetToken; an error is logged and nothing else.
DropReset(c) ==
    /\ pc[c] = "dropReset"
    /\ resets' \in {resets, resets \ {req[c].via}}
    /\ Reply(c, "ok")
    /\ UNCHANGED <<version, blacklist, clock, call, issued, read, applied>>

-----------------------------------------------------------------------------
(* Failures and time *)

\* A code is wrong, a statement fails, or the request is cancelled.
Fail(c) ==
    /\ pc[c] \in Waiting \ {"dropReset"}
    /\ Reply(c, "error")
    /\ UNCHANGED <<version, redis, clock, call, issued, read, applied>>

Expire(t) ==
    /\ t \in (Mortal \cap (Access \cup Refresh)) \ expired
    /\ expired' = expired \cup {t}
    /\ UNCHANGED <<version, redis, call, pc, issued, read, answer, applied>>

\* A reset token is kept for 10 minutes.
EndReset(d) ==
    /\ d \in resets
    /\ resets' = resets \ {d}
    /\ UNCHANGED <<version, blacklist, clock, call, pc, issued, read, answer,
                   applied>>

Finished == (\A c \in Calls : pc[c] = "done") /\ UNCHANGED vars

Next ==
    \/ \E c \in Calls :
        \/ Begin(c) \/ CheckFree(c) \/ InsertUser(c) \/ Login(c)
        \/ AskBlacklist(c) \/ Authenticate(c) \/ CheckRefresh(c) \/ Consume(c)
        \/ RevokeRefresh(c) \/ RevokeAccess(c)
        \/ ReadVersion(c) \/ StoreReset(c) \/ ReadReset(c) \/ UpdatePassword(c)
        \/ DropReset(c) \/ EndReset(c) \/ Fail(c)
    \/ \E t \in Tokens : Expire(t)
    \/ Finished

Spec == Init /\ [][Next]_vars

-----------------------------------------------------------------------------
(* Properties *)

\* However many refreshes overlap, a refresh token is exchanged for new tokens
\* once.  (Consume writes a key that ends with the token: a second request that
\* checked the time just before may find the key gone, the token expired.)
OneUsePerRefreshToken ==
    \A c, d \in Succeeded({"refresh"}) :
        c # d /\ req[c].token = req[d].token => req[c].token \in expired

\* Once Logout has answered, its tokens open nothing that is asked for later;
\* the same corner is left, a token that expires while the request is at work.
LogoutIsFinal ==
    \A c \in Calls : answer[c] = "ok" /\ "loggedOut" \in late[c] =>
        req[c].token \in expired

\* Once a password reset took effect, the sessions from before it, in however
\* many refreshes they were renewed meanwhile, and the old password are
\* refused, although a refresh or a login may have read the user before it.
ResetEndsSessions == \A c \in Calls : answer[c] = "ok" => "reset" \notin late[c]

\* A reset token is good for one reset, although it is read, used and deleted
\* in three steps and the deletion may fail; and of several reset tokens handed
\* out for one token_version only the first is: it does not undo the other.
OneResetPerVersion ==
    \A c, d \in applied :
        /\ req[req[c].via].user = req[req[d].via].user
        /\ read[c] = read[d]
        => c = d
=============================================================================
