-------------------------- MODULE RateLimiterProofs --------------------------
(***************************************************************************)
(* The rate limit holds for every limit, every window and every bound on   *)
(* clocks and delays.  Why: a request that was let through stays in the    *)
(* sorted set until Window, less what two clocks may differ, is over, and  *)
(* the set never has more than Limit members.                              *)
(***************************************************************************)
EXTENDS RateLimiter, FiniteSetTheorems, TLAPS

\* The set is cut down to fewer than Limit before it grows by one.
LogIsBounded == Cardinality(log) <= Limit

\* The score of a request that passed is off by no more than its clock.
ScoredNear(r) ==
    /\ admitted[r] <= now
    /\ admitted[r] <= stamp[r] + Behind

\* The key outlives the window of everything in it.
Outlives(r) == admitted[r] + Window <= expiry

\* No script, whatever its clock, can have removed the request yet.
Fresh(r) == admitted[r] + Window > now + Ahead + Behind

PassedIsLogged ==
    \A r \in Requests : answer[r] = "passed" =>
        ScoredNear(r) /\ Outlives(r) /\ (Fresh(r) => r \in log)

IInv == TypeOK /\ LogIsBounded /\ PassedIsLogged

-----------------------------------------------------------------------------
(* Arithmetic *)

\* EXPIRE rounds the window up.
LEMMA LifetimeCovers == Lifetime \in Nat /\ Lifetime >= Window
<1>1. Second \in Nat /\ Second > 0 /\ Window \in Nat
  BY LimiterAssumption
<1> DEFINE x == Window + Second - 1
<1>2. x \in Nat
  BY <1>1
<1>3. /\ x \div Second \in Nat /\ x % Second \in 0..(Second - 1)
      /\ x = Second * (x \div Second) + (x % Second)
  BY <1>1, <1>2
<1>4. Second * (x \div Second) \in Nat
  BY <1>1, <1>3
<1> QED
  BY <1>1, <1>3, <1>4 DEF Lifetime

-----------------------------------------------------------------------------
(* The invariant *)

\* What one script finds and leaves is a finite set of requests.
LEMMA RecentIsSmall ==
    ASSUME TypeOK, LogIsBounded, NEW t \in Nat
    PROVE  /\ IsFiniteSet(log)
           /\ IsFiniteSet(Recent(t))
           /\ Cardinality(Recent(t)) \in Nat
           /\ Cardinality(Recent(t)) <= Limit
<1>1. IsFiniteSet(Requests) /\ Limit \in Nat
  BY LimiterAssumption
<1>2. IsFiniteSet(log)
  BY <1>1, FS_Subset DEF TypeOK
<1>3. Recent(t) \in SUBSET log
  BY DEF Recent
<1>4. IsFiniteSet(Recent(t)) /\ Cardinality(Recent(t)) <= Cardinality(log)
  BY <1>2, <1>3, FS_Subset
<1>5. Cardinality(Recent(t)) \in Nat /\ Cardinality(log) \in Nat
  BY <1>2, <1>4, FS_CardinalityType
<1> QED
  BY <1>1, <1>2, <1>4, <1>5 DEF LogIsBounded

\* The empty Redis.
LEMMA InitIInv == Init => IInv
<1> SUFFICES ASSUME Init PROVE IInv
  OBVIOUS
<1>1. TypeOK
  BY DEF Init, TypeOK
<1>2. LogIsBounded
  BY LimiterAssumption, FS_EmptySet DEF Init, LogIsBounded
<1>3. PassedIsLogged
  BY DEF Init, PassedIsLogged
<1> QED
  BY <1>1, <1>2, <1>3 DEF IInv

\* A clock that reads t has removed no fresh request.
LEMMA FreshSurvives ==
    ASSUME IInv, NEW t \in Clock, NEW r \in Requests,
           answer[r] = "passed", Fresh(r)
    PROVE  r \in Recent(t)
<1>1. /\ now \in Nat /\ t \in Nat /\ stamp[r] \in Nat /\ admitted[r] \in Nat
      /\ Ahead \in Nat /\ Behind \in Nat /\ Window \in Nat
  BY LimiterAssumption DEF IInv, TypeOK, Clock
<1>2. t <= now + Ahead
  BY <1>1, LimiterAssumption DEF Clock
<1>3. admitted[r] <= stamp[r] + Behind /\ r \in log
  BY DEF IInv, PassedIsLogged, ScoredNear
<1>4. stamp[r] + Window > t
  BY <1>1, <1>2, <1>3 DEF Fresh
<1> QED
  BY <1>3, <1>4 DEF Recent

\* The script counts before it adds, and removes nothing fresh.
LEMMA AllowIInv == ASSUME IInv, NEW r \in Requests, Allow(r) PROVE IInv'
<1> USE LimiterAssumption
<1>1. PICK t \in Clock :
        \/ /\ Full(Cardinality(Recent(t)))
           /\ log' = Recent(t)
           /\ answer' = [answer EXCEPT ![r] = "refused"]
           /\ UNCHANGED <<stamp, expiry, admitted>>
        \/ /\ ~ Full(Cardinality(Recent(t)))
           /\ log' = Recent(t) \cup {r}
           /\ stamp' = [stamp EXCEPT ![r] = t]
           /\ expiry' = now + Lifetime
           /\ \/ /\ answer' = [answer EXCEPT ![r] = "passed"]
                 /\ admitted' = [admitted EXCEPT ![r] = now]
              \/ /\ answer' = [answer EXCEPT ![r] = "refused"]
                 /\ UNCHANGED admitted
  BY DEF Allow
<1>2. /\ now' = now /\ now \in Nat /\ answer[r] = "none"
      /\ t \in Nat /\ t <= now + Ahead /\ now <= t + Behind
  BY DEF Allow, Clock, IInv, TypeOK
<1>3. /\ IsFiniteSet(Recent(t)) /\ Cardinality(Recent(t)) \in Nat
      /\ Cardinality(Recent(t)) <= Limit
  BY <1>2, RecentIsSmall DEF IInv
<1>4. Recent(t) \subseteq log /\ log \subseteq Requests
  BY DEF Recent, IInv, TypeOK
<1>5. TypeOK'
  BY <1>1, <1>2, <1>4, LifetimeCovers DEF IInv, TypeOK
<1>6. LogIsBounded'
  <2>1. CASE log' = Recent(t)
    BY <2>1, <1>3 DEF LogIsBounded
  <2>2. CASE log' = Recent(t) \cup {r} /\ ~ Full(Cardinality(Recent(t)))
    <3>1. Cardinality(Recent(t) \cup {r}) =
            IF r \in Recent(t) THEN Cardinality(Recent(t))
                               ELSE Cardinality(Recent(t)) + 1
      BY <1>3, FS_AddElement
    <3>2. Cardinality(Recent(t)) < Limit
      BY <2>2, <1>3 DEF Full
    <3> QED
      BY <2>2, <3>1, <3>2, <1>3 DEF LogIsBounded
  <2> QED
    BY <1>1, <2>1, <2>2
<1>7. PassedIsLogged'
  <2> SUFFICES ASSUME NEW q \in Requests, answer'[q] = "passed"
               PROVE  (ScoredNear(q) /\ Outlives(q) /\ (Fresh(q) => q \in log))'
    BY DEF PassedIsLogged
  <2>1. CASE q # r
    <3>1. answer[q] = "passed" /\ admitted'[q] = admitted[q]
            /\ stamp'[q] = stamp[q]
      BY <1>1, <2>1 DEF IInv, TypeOK
    <3>2. ScoredNear(q) /\ Outlives(q) /\ (Fresh(q) => q \in log)
      BY <3>1 DEF IInv, PassedIsLogged
    <3>3. ScoredNear(q)'
      BY <3>1, <3>2, <1>2 DEF ScoredNear
    <3>4. Outlives(q)'
      <4>1. admitted[q] \in Nat /\ admitted[q] <= now
        BY <3>2 DEF IInv, TypeOK, ScoredNear
      <4>2. expiry' = expiry \/ expiry' = now + Lifetime
        BY <1>1
      <4> QED
        BY <4>1, <4>2, <3>1, <3>2, <1>2, LifetimeCovers DEF Outlives
    <3>5. ASSUME Fresh(q)' PROVE q \in log'
      <4>1. Fresh(q)
        BY <3>5, <3>1, <1>2 DEF Fresh
      <4>2. q \in Recent(t)
        BY <4>1, <3>1, FreshSurvives
      <4> QED
        BY <4>2, <1>1
    <3> QED
      BY <3>3, <3>4, <3>5
  <2>2. CASE q = r
    <3>1. /\ log' = Recent(t) \cup {r} /\ stamp' = [stamp EXCEPT ![r] = t]
          /\ expiry' = now + Lifetime
          /\ admitted' = [admitted EXCEPT ![r] = now]
      BY <1>1, <2>2 DEF IInv, TypeOK
    <3>2. stamp'[r] = t /\ admitted'[r] = now
      BY <3>1 DEF IInv, TypeOK
    <3>3. ScoredNear(r)'
      BY <3>2, <1>2 DEF ScoredNear
    <3>4. Outlives(r)'
      BY <3>1, <3>2, <1>2, LifetimeCovers DEF Outlives
    <3> QED
      BY <2>2, <3>1, <3>3, <3>4
  <2> QED
    BY <2>1, <2>2
<1> QED
  BY <1>5, <1>6, <1>7 DEF IInv

\* A request that is refused without the script changes nothing that counts.
LEMMA UnreachableIInv ==
    ASSUME IInv, NEW r \in Requests, Unreachable(r) PROVE IInv'
<1>1. /\ UNCHANGED <<now, log, stamp, expiry, admitted>>
      /\ answer' = [answer EXCEPT ![r] = "refused"]
  BY DEF Unreachable
<1>2. TypeOK' /\ LogIsBounded'
  BY <1>1 DEF IInv, TypeOK, LogIsBounded
<1>3. \A q \in Requests : answer'[q] = "passed" => answer[q] = "passed"
  BY <1>1 DEF IInv, TypeOK
<1>4. PassedIsLogged'
  BY <1>1, <1>3 DEF IInv, PassedIsLogged, ScoredNear, Outlives, Fresh
<1> QED
  BY <1>2, <1>4 DEF IInv

\* When the key ends nothing in it is fresh any more.
LEMMA TickIInv == ASSUME IInv, Tick PROVE IInv'
<1> USE LimiterAssumption
<1>1. /\ now' = now + 1 /\ now \in Nat
      /\ log' = IF expiry <= now' THEN {} ELSE log
      /\ UNCHANGED <<stamp, expiry, answer, admitted>>
  BY DEF Tick, IInv, TypeOK
<1>2. TypeOK'
  BY <1>1 DEF IInv, TypeOK
<1>3. LogIsBounded'
  BY <1>1, FS_EmptySet DEF IInv, LogIsBounded
<1>4. PassedIsLogged'
  <2> SUFFICES ASSUME NEW q \in Requests, answer'[q] = "passed"
               PROVE  (ScoredNear(q) /\ Outlives(q) /\ (Fresh(q) => q \in log))'
    BY DEF PassedIsLogged
  <2>1. ScoredNear(q) /\ Outlives(q) /\ (Fresh(q) => q \in log)
    BY <1>1 DEF IInv, PassedIsLogged
  <2>2. admitted[q] \in Nat /\ stamp[q] \in Nat /\ expiry \in Nat
    BY DEF IInv, TypeOK
  <2>3. ScoredNear(q)' /\ Outlives(q)'
    BY <1>1, <2>1, <2>2 DEF ScoredNear, Outlives
  <2>4. ASSUME Fresh(q)' PROVE q \in log'
    <3>1. admitted[q] + Window > now + 1 + Ahead + Behind
      BY <2>4, <1>1 DEF Fresh
    <3>2. Fresh(q)
      BY <3>1, <2>2, <1>1 DEF Fresh
    <3>3. expiry > now'
      BY <3>1, <2>1, <2>2, <1>1 DEF Outlives
    <3> QED
      BY <3>2, <3>3, <2>1, <2>2, <1>1
  <2> QED
    BY <2>3, <2>4
<1> QED
  BY <1>2, <1>3, <1>4 DEF IInv

LEMMA NextIInv == IInv /\ [Next]_vars => IInv'
<1> SUFFICES ASSUME IInv, [Next]_vars PROVE IInv'
  OBVIOUS
<1>1. CASE UNCHANGED vars
  BY <1>1 DEF vars, IInv, TypeOK, LogIsBounded, PassedIsLogged, ScoredNear,
              Outlives, Fresh
<1>2. ASSUME NEW r \in Requests, Allow(r) PROVE IInv'
  BY <1>2, AllowIInv
<1>3. ASSUME NEW r \in Requests, Unreachable(r) PROVE IInv'
  BY <1>3, UnreachableIInv
<1>4. CASE Tick
  BY <1>4, TickIInv
<1> QED
  BY <1>1, <1>2, <1>3, <1>4 DEF Next, Finished

\* Requests that passed within a shortened window are all in the sorted set.
LEMMA IInvLimits == IInv => LimitHolds
<1> SUFFICES ASSUME IInv, NEW w \in 0..Window, w + Ahead + Behind <= Window
             PROVE  Cardinality(PassedWithin(w)) <= Limit
  BY DEF LimitHolds
<1> USE LimiterAssumption
<1>1. PassedWithin(w) \subseteq log
  <2> SUFFICES ASSUME NEW r \in PassedWithin(w) PROVE r \in log
    OBVIOUS
  <2>1. r \in Requests /\ answer[r] = "passed" /\ admitted[r] + w > now
    BY DEF PassedWithin
  <2>2. admitted[r] \in Nat /\ now \in Nat /\ w \in Nat /\ w \in Int
    BY <2>1 DEF IInv, TypeOK
  <2>3. Fresh(r)
    BY <2>1, <2>2 DEF Fresh
  <2> QED
    BY <2>1, <2>3 DEF IInv, PassedIsLogged
<1>2. IsFiniteSet(log)
  BY FS_Subset DEF IInv, TypeOK
<1>3. /\ IsFiniteSet(PassedWithin(w))
      /\ Cardinality(PassedWithin(w)) <= Cardinality(log)
  BY <1>1, <1>2, FS_Subset
<1>4. Cardinality(PassedWithin(w)) \in Nat /\ Cardinality(log) \in Nat
  BY <1>2, <1>3, FS_CardinalityType
<1> QED
  BY <1>3, <1>4 DEF IInv, LogIsBounded

-----------------------------------------------------------------------------
(* The theorems *)

\* The sorted set, its scores and the answers are well typed, whatever the
\* clocks of the panel processes read.
THEOREM LimiterTypes == Spec => []TypeOK
<1>1. IInv => TypeOK
  BY DEF IInv
<1> QED
  BY <1>1, InitIInv, NextIInv, PTL DEF Spec

\* Allow lets no more than Limit requests through in any stretch of time that
\* is shorter than Window by what clocks and delays may differ.
THEOREM LimitAlwaysHolds == Spec => []LimitHolds
BY InitIInv, NextIInv, IInvLimits, PTL DEF Spec
=============================================================================
