----------------------------- MODULE RateLimiter -----------------------------
(***************************************************************************)
(* The global rate limit: middleware/ratelimit.go in front of every route  *)
(* but the agents', and the Lua script of platform/redis/limiter.go.  One  *)
(* sorted set holds the requests of the last Window.  A request reads the  *)
(* clock of its own panel process, and the script, which may run much      *)
(* later, removes, counts and adds by that time; only the expiry of the    *)
(* whole key goes by Redis's clock.                                        *)
(*                                                                         *)
(* now is true time, and Redis's; a time handed to the script is at most   *)
(* Ahead later and at most Behind earlier: clocks that are off or set back *)
(* and requests that were on their way are in these two bounds.            *)
(***************************************************************************)
EXTENDS Naturals, FiniteSets

CONSTANTS
    Requests,
    Limit,
    Window,         \* in ticks
    Second,         \* ticks in a second: the key expires by the second
    Ahead, Behind,  \* bounds on clocks and delays
    Horizon         \* bound: the last tick

ASSUME LimiterAssumption ==
    /\ IsFiniteSet(Requests)
    /\ {Limit, Window, Second} \subseteq Nat \ {0}
    /\ {Ahead, Behind, Horizon} \subseteq Nat

VARIABLES
    now,
    log,        \* the requests in the sorted set
    stamp,      \* their scores
    expiry,     \* when the key ends
    answer,     \* of each request
    admitted    \* history: when each request was let through

vars == <<now, log, stamp, expiry, answer, admitted>>

TypeOK ==
    /\ now \in Nat
    /\ log \subseteq Requests
    /\ stamp \in [Requests -> Nat]
    /\ expiry \in Nat
    /\ answer \in [Requests -> {"none", "passed", "refused"}]
    /\ admitted \in [Requests -> Nat]

Init ==
    /\ now = 0
    /\ log = {}
    /\ stamp = [r \in Requests |-> 0]
    /\ expiry = 0
    /\ answer = [r \in Requests |-> "none"]
    /\ admitted = [r \in Requests |-> 0]

\* The times a request may come with.
Clock == {t \in 0..(now + Ahead) : now <= t + Behind}

Full(n) == n >= Limit

\* Mutant: EXPIRE rounds the window down.
WholeSeconds == Second * (Window \div Second)
Lifetime == Second * ((Window + Second - 1) \div Second)

\* ZREMRANGEBYSCORE -inf .. t - Window
Recent(t) == {q \in log : stamp[q] + Window > t}

\* The script, and what Allow and the middleware make of its answer.  Without
\* one the request is refused, whether or not it was counted.
Allow(r) ==
    /\ answer[r] = "none"
    /\ \E t \in Clock :
        IF Full(Cardinality(Recent(t)))
        THEN /\ log' = Recent(t)
             /\ answer' = [answer EXCEPT ![r] = "refused"]
             /\ UNCHANGED <<stamp, expiry, admitted>>
        ELSE /\ log' = Recent(t) \cup {r}
             /\ stamp' = [stamp EXCEPT ![r] = t]
             /\ expiry' = now + Lifetime
             /\ \/ /\ answer' = [answer EXCEPT ![r] = "passed"]
                   /\ admitted' = [admitted EXCEPT ![r] = now]
                \/ /\ answer' = [answer EXCEPT ![r] = "refused"]
                   /\ UNCHANGED admitted
    /\ UNCHANGED now

\* Redis does not answer, and the script did not run.
Unreachable(r) ==
    /\ answer[r] = "none"
    /\ answer' = [answer EXCEPT ![r] = "refused"]
    /\ UNCHANGED <<now, log, stamp, expiry, admitted>>

\* Time passes; with its end the key is gone.
Tick ==
    /\ now < Horizon
    /\ now' = now + 1
    /\ log' = IF expiry <= now' THEN {} ELSE log
    /\ UNCHANGED <<stamp, expiry, answer, admitted>>

Finished ==
    /\ now = Horizon
    /\ UNCHANGED vars

Next ==
    \/ \E r \in Requests : Allow(r) \/ Unreachable(r)
    \/ Tick
    \/ Finished

Spec == Init /\ [][Next]_vars

-----------------------------------------------------------------------------
(* Properties *)

\* Let through within the last w ticks.
PassedWithin(w) ==
    {r \in Requests : answer[r] = "passed" /\ admitted[r] + w > now}

\* No more than Limit requests are let through in any stretch of true time that
\* is shorter than Window by what clocks and delays may differ, in whatever
\* order the scripts run and whoever's clock they go by.  (now passes the end
\* of every stretch.)  With one exact clock and no delays this is the window.
LimitHolds ==
    \A w \in 0..Window :
        w + Ahead + Behind <= Window => Cardinality(PassedWithin(w)) <= Limit
=============================================================================
