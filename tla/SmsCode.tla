------------------------------- MODULE SmsCode -------------------------------
(***************************************************************************)
(* SMS codes: internal/service/sms with the Lua scripts it runs in Redis,  *)
(* and the captchas in front of it.  SendCode takes a captcha out of       *)
(* Redis, books the four quotas (per address and per phone, by the minute  *)
(* and by the day) in one script, stores the code, and hands it to the     *)
(* provider; a code that could not be stored gives the quotas back.        *)
(* VerifyCode is one script.  Requests overlap between these steps.        *)
(*                                                                         *)
(* A send stands for its code as well: codes are drawn at random.  Each    *)
(* script adds a send to the sorted sets of all four quotas, or removes it *)
(* from all of them, so one set is kept here, and the windows are counted  *)
(* by score; the expiry of the sorted sets removes nothing the next count  *)
(* would not.  Time is Redis's, in ticks.  Captchas have nothing to do     *)
(* with each other: one is followed, any other lets a request through or   *)
(* does not.                                                               *)
(***************************************************************************)
EXTENDS Naturals, FiniteSets

CONSTANTS
    Sends,                      \* SendCode calls
    Phones, Addresses, None,
    PhoneMinute, PhoneDay,      \* the quotas
    IPMinute, IPDay,
    Minute, Day, Life,          \* ticks in a minute, in a day, of a code
    Horizon                     \* bound: the last tick

ASSUME SmsAssumption ==
    /\ {PhoneMinute, PhoneDay, IPMinute, IPDay} \subseteq Nat \ {0}
    /\ {Minute, Day, Life} \subseteq Nat \ {0}
    /\ Horizon \in Nat
    /\ None \notin Sends

VARIABLES
    now,
    pc,        \* where each send is
    for,       \* the phone and the address it was asked for
    at,        \* its score
    booked,    \* the sends in the sorted sets
    code,      \* code[p]: whose code is stored for p, wrong tries, its end
    handed,    \* the sends whose message went to the provider, or may have
    captcha,   \* one captcha: not made yet, in Redis, or gone
    used,      \* history: how often each code was accepted
    wrong,     \* history: how many wrong codes were tried against it
    passed     \* history: how many requests that captcha let through

captchas == <<captcha, passed>>
vars == <<now, pc, for, at, booked, code, handed, used, wrong, captchas>>

Request == [phone : Phones, ip : Addresses]
Code == [of : Sends, attempts : Nat, end : Nat]

TypeOK ==
    /\ now \in 0..Horizon
    /\ pc \in [Sends -> {"none", "reserve", "setCode", "release", "sendSMS",
                         "done"}]
    /\ for \in [Sends -> Request \cup {None}]
    /\ at \in [Sends -> 0..Horizon]
    /\ booked \subseteq Sends
    /\ code \in [Phones -> Code \cup {None}]
    /\ handed \subseteq Sends
    /\ used \in [Sends -> Nat]
    /\ wrong \in [Sends -> Nat]
    /\ captcha \in {"new", "stored", "gone"}
    /\ passed \in Nat
    /\ \A s \in Sends : pc[s] = "none" \/ for[s] \in Request
    /\ \A p \in Phones : code[p] # None => for[code[p].of].phone = p

Init ==
    /\ now = 0
    /\ pc = [s \in Sends |-> "none"]
    /\ for = [s \in Sends |-> None]
    /\ at = [s \in Sends |-> 0]
    /\ booked = {}
    /\ code = [p \in Phones |-> None]
    /\ handed = {}
    /\ used = [s \in Sends |-> 0]
    /\ wrong = [s \in Sends |-> 0]
    /\ captcha = "new"
    /\ passed = 0

-----------------------------------------------------------------------------
(* SendCode *)

history == <<used, wrong>>

Goto(s, p) == pc' = [pc EXCEPT ![s] = p]

NewCaptcha ==
    /\ captcha = "new"
    /\ captcha' = "stored"
    /\ UNCHANGED <<now, pc, for, at, booked, code, handed, history, passed>>

\* Mutant: Verify without clear, GET for GETDEL.
OnlyRead == captcha
TakenOut == "gone"

\* The captcha first, taken out whatever the answer was: one that is wrong ends
\* the request, as does one that has expired and a Redis that does not reply.
Begin(s) ==
    /\ pc[s] = "none"
    /\ \E r \in Request : for' = [for EXCEPT ![s] = r]
    /\ \/ /\ captcha = "stored"
          /\ captcha' = TakenOut
          /\ \/ passed' = passed + 1 /\ Goto(s, "reserve")
             \/ UNCHANGED passed /\ Goto(s, "done")
       \/ /\ Goto(s, "reserve") \/ Goto(s, "done")
          /\ UNCHANGED captchas
    /\ UNCHANGED <<now, at, booked, code, handed, history>>

DayStart(t) == Day * (t \div Day)

SamePhone(d, s) == for[d].phone = for[s].phone
SameIP(d, s) == for[d].ip = for[s].ip

\* What ZCARD counts once the entries before the window are removed.
LastMinute(S, t) == {d \in S : at[d] + Minute > t /\ at[d] <= t}
ThisDay(S, t) == {d \in S : DayStart(at[d]) = DayStart(t)}

Below(S, limit) == Cardinality(S) < limit

Allowed(s) ==
    LET phone == {d \in booked : SamePhone(d, s)}
        ip == {d \in booked : SameIP(d, s)}
    IN  /\ Below(LastMinute(ip, now), IPMinute)
        /\ Below(LastMinute(phone, now), PhoneMinute)
        /\ Below(ThisDay(ip, now), IPDay)
        /\ Below(ThisDay(phone, now), PhoneDay)

\* reserveSMSLua: count and book, or refuse.  Without a reply SendCode gives up
\* and what was booked stays booked.
Reserve(s) ==
    /\ pc[s] = "reserve"
    /\ IF Allowed(s)
       THEN /\ booked' = booked \cup {s}
            /\ at' = [at EXCEPT ![s] = now]
            /\ Goto(s, "setCode") \/ Goto(s, "done")
       ELSE Goto(s, "done") /\ UNCHANGED <<booked, at>>
    /\ UNCHANGED <<now, for, code, handed, history, captchas>>

NewCode(s) == [of |-> s, attempts |-> 0, end |-> now + Life]

\* Mutant: the key does not name the phone.
StoredForAll(s) == [p \in Phones |-> NewCode(s)]
Stored(s) == [code EXCEPT ![for[s].phone] = NewCode(s)]

\* setCodeLua replaces what was stored for the phone, and the count of tries.
\* An error says nothing about whether it ran.
SetCode(s) ==
    /\ pc[s] = "setCode"
    /\ \/ code' = Stored(s) /\ Goto(s, "sendSMS")
       \/ code' \in {code, Stored(s)} /\ Goto(s, "release")
    /\ UNCHANGED <<now, for, at, booked, handed, history, captchas>>

\* releaseSMSLua, or its failure, which is only logged.
Release(s) ==
    /\ pc[s] = "release"
    /\ booked' \in {booked, booked \ {s}}
    /\ Goto(s, "done")
    /\ UNCHANGED <<now, for, at, code, handed, history, captchas>>

\* Mutant: the quota is given back when the provider does not confirm.
GiveBack(s) == "release"
KeepQuota(s) == "done"

\* The provider confirms, or nobody knows: code and quota are kept.
SendSMS(s) ==
    /\ pc[s] = "sendSMS"
    /\ \/ handed' = handed \cup {s} /\ Goto(s, "done")
       \/ handed' \in {handed, handed \cup {s}} /\ Goto(s, KeepQuota(s))
    /\ UNCHANGED <<now, for, at, booked, code, history, captchas>>

\* The script does not run, or the request is cancelled.
Fail(s) ==
    /\ pc[s] = "reserve"
    /\ Goto(s, "done")
    /\ UNCHANGED <<now, for, at, booked, code, handed, history, captchas>>

-----------------------------------------------------------------------------
(* VerifyCode: consumeCodeLua *)

\* Mutant: an accepted code stays.
StaysThere(p) == code
Deleted(p) == [code EXCEPT ![p] = None]

\* Mutant: tries are counted from the last one on.
NotCounted(n) == 0
Tried(n) == n + 1

RightCode(p) ==
    /\ code[p] # None
    /\ used' = [used EXCEPT ![code[p].of] = @ + 1]
    /\ code' = Deleted(p)
    /\ UNCHANGED <<now, pc, for, at, booked, handed, wrong, captchas>>

WrongCode(p) ==
    LET n == Tried(code[p].attempts)
    IN  /\ code[p] # None
        /\ wrong' = [wrong EXCEPT ![code[p].of] = @ + 1]
        /\ code' = IF n >= 3 THEN [code EXCEPT ![p] = None]
                             ELSE [code EXCEPT ![p].attempts = n]
        /\ UNCHANGED <<now, pc, for, at, booked, handed, used, captchas>>

VerifyCode(p) == RightCode(p) \/ WrongCode(p)

\* Time passes, and with it the life of codes.
Tick ==
    /\ now < Horizon
    /\ now' = now + 1
    /\ code' = [p \in Phones |-> IF code[p] # None /\ code[p].end <= now'
                                 THEN None ELSE code[p]]
    /\ UNCHANGED <<pc, for, at, booked, handed, history, captchas>>

Finished ==
    /\ now = Horizon /\ \A s \in Sends : pc[s] = "done"
    /\ UNCHANGED vars

Next ==
    \/ \E s \in Sends :
        \/ Begin(s) \/ Reserve(s) \/ SetCode(s) \/ Release(s) \/ SendSMS(s)
        \/ Fail(s)
    \/ \E p \in Phones : VerifyCode(p)
    \/ NewCaptcha
    \/ Tick
    \/ Finished

Spec == Init /\ [][Next]_vars

-----------------------------------------------------------------------------
(* Properties *)

\* However many requests overlap, fail half-way and give their quota back, no
\* more messages go to the provider for a phone or an address than its quotas
\* say, counted by the time they were booked, in any minute and on any day.
QuotaHolds ==
    \A t \in 0..now :
        /\ \A p \in Phones :
            LET sent == {s \in handed : for[s].phone = p}
            IN  /\ Cardinality(LastMinute(sent, t)) <= PhoneMinute
                /\ Cardinality(ThisDay(sent, t)) <= PhoneDay
        /\ \A i \in Addresses :
            LET sent == {s \in handed : for[s].ip = i}
            IN  /\ Cardinality(LastMinute(sent, t)) <= IPMinute
                /\ Cardinality(ThisDay(sent, t)) <= IPDay

\* A code is accepted once, whoever sends it first and whatever is stored for
\* the phone afterwards.
CodeWorksOnce == \A s \in Sends : used[s] <= 1

\* A code is good for three tries: after the third wrong one it is gone, and
\* no later code inherits what was tried before it.
ThreeTries == \A s \in Sends : wrong[s] <= 3 /\ (used[s] > 0 => wrong[s] < 3)

\* A captcha lets one request through, however many come with it at a time.
CaptchaWorksOnce == passed <= 1
=============================================================================
