---------------------------- MODULE SmsCodeProofs ----------------------------
(***************************************************************************)
(* Proofs about SmsCode for any number of sends, phones and addresses and  *)
(* any quotas.  Codes: a send that has still to store its code has never   *)
(* been tried, and the tries that are counted with a code are all it had.  *)
(* Quotas: what was handed to the provider is still booked, and what is    *)
(* booked never exceeds a quota, counted at any time at all.               *)
(***************************************************************************)
EXTENDS SmsCode, FiniteSetTheorems, TLAPS

USE SmsAssumption

-----------------------------------------------------------------------------
(* Codes *)

\* Its code is stored nowhere and was tried by nobody.
Unused(s) ==
    /\ used[s] = 0 /\ wrong[s] = 0
    /\ \A p \in Phones : code[p] # None => code[p].of # s

FreshSends ==
    \A s \in Sends : pc[s] \in {"none", "reserve", "setCode"} => Unused(s)

\* The count kept with a code is all it had.
CountsAreTrue ==
    \A p \in Phones : code[p] # None =>
        /\ used[code[p].of] = 0
        /\ wrong[code[p].of] = code[p].attempts
        /\ code[p].attempts < 3

CodeInv == TypeOK /\ FreshSends /\ CountsAreTrue /\ CodeWorksOnce /\ ThreeTries

\* Redis without keys.
LEMMA InitCodeInv == Init => CodeInv
BY DEF Init, TypeOK, CodeInv, FreshSends, Unused, CountsAreTrue, CodeWorksOnce,
       ThreeTries

\* SetCode stores a code nobody can have tried, over whatever was there.
LEMMA SetCodeInv ==
    ASSUME CodeInv, NEW s \in Sends, SetCode(s) PROVE CodeInv'
<1> USE DEF CodeInv, TypeOK, history, captchas, Goto
<1>1. /\ pc[s] = "setCode" /\ for[s] \in Request /\ for[s].phone \in Phones
      /\ Unused(s)
  BY DEF SetCode, Request, FreshSends
<1>2. NewCode(s) \in Code /\ NewCode(s).of = s /\ NewCode(s).attempts = 0
  BY DEF NewCode, Code
<1>3. code' = code \/ code' = Stored(s)
  BY DEF SetCode
<1>4. \A p \in Phones :
        code'[p] = code[p] \/ (p = for[s].phone /\ code'[p] = NewCode(s))
  BY <1>1, <1>3 DEF Stored
<1>5. code' \in [Phones -> Code \cup {None}]
  BY <1>1, <1>2, <1>3 DEF Stored
<1>6. /\ UNCHANGED <<now, for, at, booked, handed, used, wrong, captcha, passed>>
      /\ pc' \in [Sends -> {"none", "reserve", "setCode", "release", "sendSMS",
                            "done"}]
      /\ pc'[s] \in {"sendSMS", "release"}
      /\ \A d \in Sends \ {s} : pc'[d] = pc[d]
  BY DEF SetCode
<1>7. TypeOK'
  BY <1>1, <1>2, <1>4, <1>5, <1>6
<1>8. FreshSends'
  BY <1>1, <1>2, <1>4, <1>6 DEF FreshSends, Unused
<1>9. CountsAreTrue'
  BY <1>1, <1>2, <1>4, <1>6 DEF CountsAreTrue, Unused
<1> QED
  BY <1>6, <1>7, <1>8, <1>9 DEF CodeWorksOnce, ThreeTries

\* consumeCodeLua takes an accepted code away before it can be tried again.
LEMMA RightCodeInv ==
    ASSUME CodeInv, NEW p \in Phones, RightCode(p) PROVE CodeInv'
<1> USE DEF CodeInv, TypeOK
<1> DEFINE s == code[p].of
<1>1. s \in Sends /\ for[s].phone = p /\ used[s] = 0 /\ wrong[s] < 3
  BY DEF RightCode, Code, CountsAreTrue
<1>2. /\ used' = [used EXCEPT ![s] = @ + 1]
      /\ code' = [code EXCEPT ![p] = None]
      /\ UNCHANGED <<now, pc, for, at, booked, handed, wrong, captcha, passed>>
  BY DEF RightCode, Deleted, captchas
<1>3. \A q \in Phones : code'[q] # None => code'[q] = code[q] /\ code[q].of # s
  BY <1>1, <1>2
<1>4. TypeOK'
  BY <1>1, <1>2, <1>3
<1>5. \A d \in Sends : used'[d] = IF d = s THEN 1 ELSE used[d]
  BY <1>1, <1>2
<1>6. FreshSends'
  <2>1. pc[s] \notin {"none", "reserve", "setCode"}
    BY <1>1 DEF RightCode, FreshSends, Unused
  <2> QED
    BY <2>1, <1>2, <1>3, <1>5 DEF FreshSends, Unused
<1>7. CountsAreTrue'
  <2> SUFFICES ASSUME NEW q \in Phones, code'[q] # None
               PROVE  /\ used'[code'[q].of] = 0
                      /\ wrong'[code'[q].of] = code'[q].attempts
                      /\ code'[q].attempts < 3
    BY DEF CountsAreTrue
  <2>1. code'[q] = code[q] /\ code[q] # None /\ code[q].of # s
    BY <1>3
  <2>2. code[q].of \in Sends
    BY <2>1 DEF Code
  <2> QED
    BY <2>1, <2>2, <1>2, <1>5 DEF CountsAreTrue
<1>8. CodeWorksOnce' /\ ThreeTries'
  BY <1>1, <1>2, <1>5 DEF CodeWorksOnce, ThreeTries
<1> QED
  BY <1>4, <1>6, <1>7, <1>8

\* A wrong try is counted, and the third takes the code away.
LEMMA WrongCodeInv ==
    ASSUME CodeInv, NEW p \in Phones, WrongCode(p) PROVE CodeInv'
<1> USE DEF CodeInv, TypeOK
<1> DEFINE s == code[p].of
           n == code[p].attempts + 1
<1>1. /\ code[p] # None /\ code[p] \in Code /\ s \in Sends /\ for[s].phone = p
      /\ used[s] = 0 /\ wrong[s] = code[p].attempts /\ n \in 1..3
  BY DEF WrongCode, Code, CountsAreTrue
<1>2. /\ wrong' = [wrong EXCEPT ![s] = @ + 1]
      /\ code' = IF n >= 3 THEN [code EXCEPT ![p] = None]
                           ELSE [code EXCEPT ![p].attempts = n]
      /\ UNCHANGED <<now, pc, for, at, booked, handed, used, captcha, passed>>
  BY DEF WrongCode, Tried, captchas
<1>3. code' \in [Phones -> Code \cup {None}]
  BY <1>1, <1>2 DEF Code
<1>4. \A q \in Phones : code'[q] # None =>
        /\ code[q] # None /\ code'[q].of = code[q].of
        /\ q = p => code'[q].attempts = n /\ n < 3
        /\ q # p => code'[q] = code[q] /\ code[q].of # s
  BY <1>1, <1>2 DEF Code
<1>5. \A d \in Sends : wrong'[d] = IF d = s THEN n ELSE wrong[d]
  BY <1>1, <1>2
<1>6. TypeOK'
  BY <1>1, <1>2, <1>3, <1>4
<1>7. FreshSends'
  <2>1. pc[s] \notin {"none", "reserve", "setCode"}
    BY <1>1 DEF FreshSends, Unused
  <2> QED
    BY <2>1, <1>2, <1>4, <1>5 DEF FreshSends, Unused
<1>8. CountsAreTrue'
  BY <1>1, <1>2, <1>4, <1>5 DEF CountsAreTrue
<1>9. CodeWorksOnce' /\ ThreeTries'
  BY <1>1, <1>2, <1>5 DEF CodeWorksOnce, ThreeTries
<1> QED
  BY <1>6, <1>7, <1>8, <1>9

LEMMA NextCodeInv == CodeInv /\ [Next]_vars => CodeInv'
<1> SUFFICES ASSUME CodeInv, [Next]_vars PROVE CodeInv'
  OBVIOUS
<1> USE DEF CodeInv, TypeOK, FreshSends, Unused, CountsAreTrue, CodeWorksOnce,
            ThreeTries, Goto, history, captchas
<1>1. CASE UNCHANGED vars
  BY <1>1 DEF vars
<1>2. ASSUME NEW s \in Sends, Begin(s) PROVE CodeInv'
  <2>1. for' \in [Sends -> Request \cup {None}] /\ for'[s] \in Request
    BY <1>2 DEF Begin
  <2>2. \A d \in Sends \ {s} : for'[d] = for[d] /\ pc'[d] = pc[d]
    BY <1>2 DEF Begin
  <2>3. \A p \in Phones : code[p] # None => code[p].of # s /\ code[p].of \in Sends
    BY <1>2 DEF Begin, Code
  <2>4. TypeOK'
    BY <1>2, <2>1, <2>2, <2>3 DEF Begin, TakenOut
  <2> QED
    BY <1>2, <2>4 DEF Begin
<1>3. ASSUME NEW s \in Sends, Reserve(s) PROVE CodeInv'
  BY <1>3 DEF Reserve
<1>4. ASSUME NEW s \in Sends, SetCode(s) PROVE CodeInv'
  BY <1>4, SetCodeInv
<1>5. ASSUME NEW s \in Sends, Release(s) PROVE CodeInv'
  BY <1>5 DEF Release
<1>6. ASSUME NEW s \in Sends, SendSMS(s) PROVE CodeInv'
  BY <1>6 DEF SendSMS, KeepQuota
<1>7. ASSUME NEW s \in Sends, Fail(s) PROVE CodeInv'
  BY <1>7 DEF Fail
<1>8. ASSUME NEW p \in Phones, RightCode(p) PROVE CodeInv'
  BY <1>8, RightCodeInv
<1>9. ASSUME NEW p \in Phones, WrongCode(p) PROVE CodeInv'
  BY <1>9, WrongCodeInv
<1>10. CASE NewCaptcha
  BY <1>10 DEF NewCaptcha
<1>11. CASE Tick
  BY <1>11 DEF Tick
<1> QED
  BY <1>1, <1>2, <1>3, <1>4, <1>5, <1>6, <1>7, <1>8, <1>9, <1>10, <1>11
  DEF Next, VerifyCode, Finished

-----------------------------------------------------------------------------
(* Captchas *)

\* Nobody got through before it was taken out of Redis.
CaptchaInv ==
    /\ passed \in 0..1
    /\ captcha \in {"new", "stored"} => passed = 0

\* GETDEL hands the value to one request.
LEMMA NextCaptchaInv == CaptchaInv /\ [Next]_vars => CaptchaInv'
<1> SUFFICES ASSUME CaptchaInv, [Next]_vars PROVE CaptchaInv'
  OBVIOUS
<1> USE DEF CaptchaInv
<1>1. ASSUME NEW s \in Sends, Begin(s) PROVE CaptchaInv'
  BY <1>1 DEF Begin, TakenOut, captchas
<1>2. CASE NewCaptcha
  BY <1>2 DEF NewCaptcha
<1>3. CASE UNCHANGED captchas
  BY <1>3 DEF captchas
<1> QED
  BY <1>1, <1>2, <1>3
  DEF Next, VerifyCode, Finished, vars, Reserve, SetCode, Release, SendSMS,
      Fail, RightCode, WrongCode, Tick

-----------------------------------------------------------------------------
(* Windows *)

\* What the two windows around t hold of S, by the scores a.
InMinute(S, a, t) == {d \in S : a[d] + Minute > t /\ a[d] <= t}
InDay(S, a, t) == {d \in S : DayStart(a[d]) = DayStart(t)}

\* S never exceeds its quotas, at any time at all.
Within(S, a, minute, day) ==
    \A t \in Nat : /\ Cardinality(InMinute(S, a, t)) <= minute
                   /\ Cardinality(InDay(S, a, t)) <= day

\* The empty set is within any quotas.
LEMMA NoneWithin ==
    ASSUME NEW a, NEW minute \in Nat, NEW day \in Nat
    PROVE  Within({}, a, minute, day)
<1>1. \A t \in Nat : InMinute({}, a, t) = {} /\ InDay({}, a, t) = {}
  BY DEF InMinute, InDay
<1> QED
  BY <1>1, FS_EmptySet DEF Within

\* What is removed takes nothing from the quotas of what stays.
LEMMA FewerWithin ==
    ASSUME NEW S, IsFiniteSet(S), NEW T \in SUBSET S, NEW a, NEW b,
           NEW minute \in Nat, NEW day \in Nat,
           Within(S, a, minute, day), \A d \in T : b[d] = a[d]
    PROVE  Within(T, b, minute, day)
<1> SUFFICES ASSUME NEW t \in Nat
             PROVE  /\ Cardinality(InMinute(T, b, t)) <= minute
                    /\ Cardinality(InDay(T, b, t)) <= day
  BY DEF Within
<1>1. InMinute(T, b, t) \subseteq InMinute(S, a, t)
  BY DEF InMinute
<1>2. InDay(T, b, t) \subseteq InDay(S, a, t)
  BY DEF InDay
<1>3. IsFiniteSet(InMinute(S, a, t)) /\ IsFiniteSet(InDay(S, a, t))
  <2>1. InMinute(S, a, t) \subseteq S /\ InDay(S, a, t) \subseteq S
    BY DEF InMinute, InDay
  <2> QED
    BY <2>1, FS_Subset
<1>4. /\ Cardinality(InMinute(T, b, t)) <= Cardinality(InMinute(S, a, t))
      /\ IsFiniteSet(InMinute(T, b, t))
  BY <1>1, <1>3, FS_Subset
<1>5. /\ Cardinality(InDay(T, b, t)) <= Cardinality(InDay(S, a, t))
      /\ IsFiniteSet(InDay(T, b, t))
  BY <1>2, <1>3, FS_Subset
<1>6. /\ Cardinality(InMinute(T, b, t)) \in Nat
      /\ Cardinality(InDay(T, b, t)) \in Nat
      /\ Cardinality(InMinute(S, a, t)) \in Nat
      /\ Cardinality(InDay(S, a, t)) \in Nat
  BY <1>3, <1>4, <1>5, FS_CardinalityType
<1> QED
  BY <1>4, <1>5, <1>6 DEF Within

\* Below a limit there is room for one.
LEMMA RoomForOne ==
    ASSUME NEW S, IsFiniteSet(S), NEW s, NEW limit \in Nat,
           Cardinality(S) < limit
    PROVE  /\ IsFiniteSet(S \cup {s})
           /\ Cardinality(S \cup {s}) \in Nat
           /\ Cardinality(S \cup {s}) <= limit
<1>1. /\ IsFiniteSet(S \cup {s})
      /\ Cardinality(S \cup {s}) =
            IF s \in S THEN Cardinality(S) ELSE Cardinality(S) + 1
  BY FS_AddElement
<1>2. Cardinality(S) \in Nat
  BY FS_CardinalityType
<1> QED
  BY <1>1, <1>2

\* One more, at the latest time of all, when both windows of that time have
\* room: other windows hold less than these, or do not hold the new one.
LEMMA OneMoreWithin ==
    ASSUME NEW S, IsFiniteSet(S), NEW s, s \notin S, NEW a, NEW b,
           NEW minute \in Nat, NEW day \in Nat, NEW latest \in Nat,
           Within(S, a, minute, day),
           \A d \in S : b[d] = a[d] /\ a[d] \in Nat /\ a[d] <= latest,
           b[s] = latest,
           Cardinality(InMinute(S, a, latest)) < minute,
           Cardinality(InDay(S, a, latest)) < day
    PROVE  Within(S \cup {s}, b, minute, day)
<1> SUFFICES ASSUME NEW t \in Nat
             PROVE  /\ Cardinality(InMinute(S \cup {s}, b, t)) <= minute
                    /\ Cardinality(InDay(S \cup {s}, b, t)) <= day
  BY DEF Within
<1> DEFINE M(u) == InMinute(S, a, u)
           D(u) == InDay(S, a, u)
<1>1. \A u \in Nat : /\ IsFiniteSet(M(u)) /\ Cardinality(M(u)) \in Nat
                     /\ IsFiniteSet(D(u)) /\ Cardinality(D(u)) \in Nat
  <2>1. \A u \in Nat : M(u) \subseteq S /\ D(u) \subseteq S
    BY DEF InMinute, InDay
  <2> QED
    BY <2>1, FS_Subset, FS_CardinalityType
<1>2. /\ IsFiniteSet(M(latest) \cup {s})
      /\ Cardinality(M(latest) \cup {s}) \in Nat
      /\ Cardinality(M(latest) \cup {s}) <= minute
  BY <1>1, RoomForOne
<1>3. /\ IsFiniteSet(D(latest) \cup {s})
      /\ Cardinality(D(latest) \cup {s}) \in Nat
      /\ Cardinality(D(latest) \cup {s}) <= day
  BY <1>1, RoomForOne
<1>4. Cardinality(InMinute(S \cup {s}, b, t)) <= minute
  <2>1. CASE t < latest
    <3>1. InMinute(S \cup {s}, b, t) = M(t)
      BY <2>1 DEF InMinute
    <3> QED
      BY <3>1 DEF Within
  <2>2. CASE t >= latest
    <3>1. InMinute(S \cup {s}, b, t) \subseteq M(latest) \cup {s}
      BY <2>2 DEF InMinute
    <3>2. /\ IsFiniteSet(InMinute(S \cup {s}, b, t))
          /\ Cardinality(InMinute(S \cup {s}, b, t))
               <= Cardinality(M(latest) \cup {s})
      BY <3>1, <1>2, FS_Subset
    <3>3. Cardinality(InMinute(S \cup {s}, b, t)) \in Nat
      BY <3>2, FS_CardinalityType
    <3> QED
      BY <3>2, <3>3, <1>2
  <2> QED
    BY <2>1, <2>2
<1>5. Cardinality(InDay(S \cup {s}, b, t)) <= day
  <2>1. CASE DayStart(t) # DayStart(latest)
    <3>1. InDay(S \cup {s}, b, t) = D(t)
      BY <2>1 DEF InDay
    <3> QED
      BY <3>1 DEF Within
  <2>2. CASE DayStart(t) = DayStart(latest)
    <3>1. InDay(S \cup {s}, b, t) = D(latest) \cup {s}
      BY <2>2 DEF InDay
    <3> QED
      BY <3>1, <1>3
  <2> QED
    BY <2>1, <2>2
<1> QED
  BY <1>4, <1>5

-----------------------------------------------------------------------------
(* Quotas *)

OfPhone(p) == {d \in booked : for[d].phone = p}
OfIP(i) == {d \in booked : for[d].ip = i}

\* What is handed over was booked and is not given back.
Bookings ==
    /\ IsFiniteSet(booked)
    /\ \A s \in booked : at[s] <= now /\ pc[s] \notin {"none", "reserve"}
    /\ \A s \in Sends : pc[s] \in {"setCode", "sendSMS"} => s \in booked
    /\ \A s \in handed : s \in booked /\ pc[s] = "done"

Quotas ==
    /\ \A p \in Phones : Within(OfPhone(p), at, PhoneMinute, PhoneDay)
    /\ \A i \in Addresses : Within(OfIP(i), at, IPMinute, IPDay)

QuotaInv == Bookings /\ Quotas

\* No bookings, no messages.
LEMMA InitQuotaInv == Init => QuotaInv
<1> SUFFICES ASSUME Init PROVE QuotaInv
  OBVIOUS
<1>1. booked = {} /\ handed = {} /\ pc = [s \in Sends |-> "none"]
  BY DEF Init
<1>2. Bookings
  BY <1>1, FS_EmptySet DEF Bookings
<1>3. /\ \A p \in Phones : OfPhone(p) = {}
      /\ \A i \in Addresses : OfIP(i) = {}
  BY <1>1 DEF OfPhone, OfIP
<1>4. Quotas
  BY <1>3, NoneWithin DEF Quotas
<1> QED
  BY <1>2, <1>4 DEF QuotaInv

\* Every step but Reserve leaves bookings as they are or removes some.
LEMMA QuotasShrink ==
    ASSUME QuotaInv, booked' \subseteq booked,
           \A d \in booked' : for'[d] = for[d] /\ at'[d] = at[d]
    PROVE  Quotas'
<1>1. \A p \in Phones : Within(OfPhone(p), at, PhoneMinute, PhoneDay)'
  <2> SUFFICES ASSUME NEW p \in Phones
               PROVE  Within(OfPhone(p)', at', PhoneMinute, PhoneDay)
    BY DEF Within
  <2>1. OfPhone(p)' \subseteq OfPhone(p) /\ OfPhone(p)' \subseteq booked'
    BY DEF OfPhone
  <2>2. IsFiniteSet(OfPhone(p))
    <3>1. OfPhone(p) \subseteq booked
      BY DEF OfPhone
    <3> QED
      BY <3>1, FS_Subset DEF QuotaInv, Bookings
  <2>3. Within(OfPhone(p), at, PhoneMinute, PhoneDay)
    BY DEF QuotaInv, Quotas
  <2> QED
    BY <2>1, <2>2, <2>3, FewerWithin
<1>2. \A i \in Addresses : Within(OfIP(i), at, IPMinute, IPDay)'
  <2> SUFFICES ASSUME NEW i \in Addresses
               PROVE  Within(OfIP(i)', at', IPMinute, IPDay)
    BY DEF Within
  <2>1. OfIP(i)' \subseteq OfIP(i) /\ OfIP(i)' \subseteq booked'
    BY DEF OfIP
  <2>2. IsFiniteSet(OfIP(i))
    <3>1. OfIP(i) \subseteq booked
      BY DEF OfIP
    <3> QED
      BY <3>1, FS_Subset DEF QuotaInv, Bookings
  <2>3. Within(OfIP(i), at, IPMinute, IPDay)
    BY DEF QuotaInv, Quotas
  <2> QED
    BY <2>1, <2>2, <2>3, FewerWithin
<1> QED
  BY <1>1, <1>2 DEF Quotas

\* reserveSMSLua books where all four quotas have room.
LEMMA ReserveQuotas ==
    ASSUME TypeOK, QuotaInv, NEW s \in Sends, Reserve(s), Allowed(s)
    PROVE  Quotas'
<1>1. Allowed(s)
  OBVIOUS
<1>2. s \notin booked
  BY DEF Reserve, QuotaInv, Bookings
<1>3. /\ booked' = booked \cup {s} /\ for' = for
      /\ at'[s] = now /\ \A d \in booked : at'[d] = at[d]
  BY <1>2 DEF Reserve, TypeOK
<1>4. now \in Nat /\ \A d \in booked : at[d] \in Nat /\ at[d] <= now
  BY DEF TypeOK, QuotaInv, Bookings
<1>5. \A p \in Phones : Within(OfPhone(p), at, PhoneMinute, PhoneDay)'
  <2> SUFFICES ASSUME NEW p \in Phones
               PROVE  Within(OfPhone(p)', at', PhoneMinute, PhoneDay)
    BY DEF Within
  <2>1. IsFiniteSet(OfPhone(p)) /\ s \notin OfPhone(p)
    <3>1. OfPhone(p) \subseteq booked
      BY DEF OfPhone
    <3> QED
      BY <3>1, <1>2, FS_Subset DEF QuotaInv, Bookings
  <2>2. Within(OfPhone(p), at, PhoneMinute, PhoneDay)
    BY DEF QuotaInv, Quotas
  <2>3. \A d \in OfPhone(p) :
          at'[d] = at[d] /\ at[d] \in Nat /\ at[d] <= now
    BY <1>3, <1>4 DEF OfPhone
  <2>4. CASE for[s].phone # p
    <3>1. OfPhone(p)' = OfPhone(p)
      BY <2>4, <1>3 DEF OfPhone
    <3> QED
      BY <3>1, <2>1, <2>2, <2>3, FewerWithin
  <2>5. CASE for[s].phone = p
    <3>1. OfPhone(p)' = OfPhone(p) \cup {s}
      BY <2>5, <1>3 DEF OfPhone
    <3>2. OfPhone(p) = {d \in booked : SamePhone(d, s)}
      BY <2>5 DEF OfPhone, SamePhone
    <3>3. /\ Cardinality(InMinute(OfPhone(p), at, now)) < PhoneMinute
          /\ Cardinality(InDay(OfPhone(p), at, now)) < PhoneDay
      BY <3>2, <1>1 DEF Allowed, Below, LastMinute, ThisDay, InMinute, InDay
    <3> HIDE DEF OfPhone
    <3> QED
      BY <3>1, <3>3, <2>1, <2>2, <2>3, <1>3, <1>4, OneMoreWithin
  <2> QED
    BY <2>4, <2>5
<1>6. \A i \in Addresses : Within(OfIP(i), at, IPMinute, IPDay)'
  <2> SUFFICES ASSUME NEW i \in Addresses
               PROVE  Within(OfIP(i)', at', IPMinute, IPDay)
    BY DEF Within
  <2>1. IsFiniteSet(OfIP(i)) /\ s \notin OfIP(i)
    <3>1. OfIP(i) \subseteq booked
      BY DEF OfIP
    <3> QED
      BY <3>1, <1>2, FS_Subset DEF QuotaInv, Bookings
  <2>2. Within(OfIP(i), at, IPMinute, IPDay)
    BY DEF QuotaInv, Quotas
  <2>3. \A d \in OfIP(i) :
          at'[d] = at[d] /\ at[d] \in Nat /\ at[d] <= now
    BY <1>3, <1>4 DEF OfIP
  <2>4. CASE for[s].ip # i
    <3>1. OfIP(i)' = OfIP(i)
      BY <2>4, <1>3 DEF OfIP
    <3> QED
      BY <3>1, <2>1, <2>2, <2>3, FewerWithin
  <2>5. CASE for[s].ip = i
    <3>1. OfIP(i)' = OfIP(i) \cup {s}
      BY <2>5, <1>3 DEF OfIP
    <3>2. OfIP(i) = {d \in booked : SameIP(d, s)}
      BY <2>5 DEF OfIP, SameIP
    <3>3. /\ Cardinality(InMinute(OfIP(i), at, now)) < IPMinute
          /\ Cardinality(InDay(OfIP(i), at, now)) < IPDay
      BY <3>2, <1>1 DEF Allowed, Below, LastMinute, ThisDay, InMinute, InDay
    <3> HIDE DEF OfIP
    <3> QED
      BY <3>1, <3>3, <2>1, <2>2, <2>3, <1>3, <1>4, OneMoreWithin
  <2> QED
    BY <2>4, <2>5
<1> QED
  BY <1>5, <1>6 DEF Quotas

\* Release gives back what SendSMS was never called for.
LEMMA NextQuotaInv == TypeOK /\ QuotaInv /\ [Next]_vars => QuotaInv'
<1> SUFFICES ASSUME TypeOK, QuotaInv, [Next]_vars PROVE QuotaInv'
  OBVIOUS
<1>1. CASE UNCHANGED vars
  <2>1. Bookings'
    BY <1>1 DEF vars, QuotaInv, Bookings
  <2>2. booked' \subseteq booked /\ for' = for /\ at' = at
    BY <1>1 DEF vars
  <2> QED
    BY <2>1, <2>2, QuotasShrink DEF QuotaInv
<1>2. ASSUME NEW s \in Sends, Begin(s) PROVE QuotaInv'
  <2>1. Bookings'
    BY <1>2 DEF Begin, Goto, TypeOK, QuotaInv, Bookings
  <2>2. s \notin booked /\ booked' = booked /\ at' = at
    BY <1>2 DEF Begin, QuotaInv, Bookings
  <2>3. \A d \in booked' : for'[d] = for[d]
    BY <1>2, <2>2 DEF Begin, TypeOK
  <2> QED
    BY <2>1, <2>2, <2>3, QuotasShrink DEF QuotaInv
<1>3. ASSUME NEW s \in Sends, Reserve(s) PROVE QuotaInv'
  <2>1. CASE Allowed(s)
    <3>1. IsFiniteSet(booked')
      BY <1>3, <2>1, FS_AddElement DEF Reserve, QuotaInv, Bookings
    <3>2. Bookings'
      BY <1>3, <2>1, <3>1 DEF Reserve, Goto, TypeOK, QuotaInv, Bookings
    <3> QED
      BY <3>2, <1>3, <2>1, ReserveQuotas DEF QuotaInv
  <2>2. CASE ~ Allowed(s)
    <3>1. Bookings'
      BY <1>3, <2>2 DEF Reserve, Goto, TypeOK, QuotaInv, Bookings
    <3>2. booked' = booked /\ for' = for /\ at' = at
      BY <1>3, <2>2 DEF Reserve
    <3> QED
      BY <3>1, <3>2, QuotasShrink DEF QuotaInv
  <2> QED
    BY <2>1, <2>2
<1>4. ASSUME NEW s \in Sends, SetCode(s) PROVE QuotaInv'
  <2>1. Bookings'
    BY <1>4 DEF SetCode, Goto, TypeOK, QuotaInv, Bookings
  <2> QED
    BY <1>4, <2>1, QuotasShrink DEF SetCode, QuotaInv
<1>5. ASSUME NEW s \in Sends, Release(s) PROVE QuotaInv'
  <2>1. IsFiniteSet(booked') /\ booked' \subseteq booked
    BY <1>5, FS_RemoveElement DEF Release, QuotaInv, Bookings
  <2>2. s \notin handed
    BY <1>5 DEF Release, QuotaInv, Bookings
  <2>3. Bookings'
    BY <1>5, <2>1, <2>2 DEF Release, Goto, TypeOK, QuotaInv, Bookings
  <2> QED
    BY <1>5, <2>1, <2>3, QuotasShrink DEF Release, QuotaInv
<1>6. ASSUME NEW s \in Sends, SendSMS(s) PROVE QuotaInv'
  <2>1. Bookings'
    BY <1>6 DEF SendSMS, KeepQuota, Goto, TypeOK, QuotaInv, Bookings
  <2> QED
    BY <1>6, <2>1, QuotasShrink DEF SendSMS, QuotaInv
<1>7. ASSUME NEW s \in Sends, Fail(s) PROVE QuotaInv'
  <2>1. Bookings'
    BY <1>7 DEF Fail, Goto, TypeOK, QuotaInv, Bookings
  <2> QED
    BY <1>7, <2>1, QuotasShrink DEF Fail, QuotaInv
<1>8. ASSUME \/ \E p \in Phones : VerifyCode(p)
             \/ NewCaptcha
      PROVE  QuotaInv'
  <2>1. UNCHANGED <<now, pc, for, at, booked, handed>>
    BY <1>8 DEF VerifyCode, RightCode, WrongCode, NewCaptcha
  <2>2. Bookings'
    BY <2>1 DEF QuotaInv, Bookings
  <2> QED
    BY <2>1, <2>2, QuotasShrink DEF QuotaInv
<1>9. CASE Tick
  <2>1. /\ UNCHANGED <<pc, for, at, booked, handed>>
        /\ now' = now + 1
    BY <1>9 DEF Tick
  <2>2. Bookings'
    BY <2>1 DEF TypeOK, QuotaInv, Bookings
  <2> QED
    BY <2>1, <2>2, QuotasShrink DEF QuotaInv
<1> QED
  BY <1>1, <1>2, <1>3, <1>4, <1>5, <1>6, <1>7, <1>8, <1>9
  DEF Next, Finished

\* What was handed over is among what is booked.
LEMMA QuotaInvHolds == ASSUME TypeOK, QuotaInv PROVE QuotaHolds
<1>1. now \in Nat /\ handed \subseteq booked /\ IsFiniteSet(booked)
  BY DEF TypeOK, QuotaInv, Bookings
<1> SUFFICES ASSUME NEW t \in 0..now
    PROVE
    /\ \A p \in Phones :
        /\ Cardinality(LastMinute({s \in handed : for[s].phone = p}, t))
             <= PhoneMinute
        /\ Cardinality(ThisDay({s \in handed : for[s].phone = p}, t))
             <= PhoneDay
    /\ \A i \in Addresses :
        /\ Cardinality(LastMinute({s \in handed : for[s].ip = i}, t))
             <= IPMinute
        /\ Cardinality(ThisDay({s \in handed : for[s].ip = i}, t)) <= IPDay
  BY DEF QuotaHolds
<1>2. t \in Nat
  BY <1>1
<1>3. ASSUME NEW p \in Phones
      PROVE  LET sent == {s \in handed : for[s].phone = p}
             IN  Within(sent, at, PhoneMinute, PhoneDay)
  <2> DEFINE sent == {s \in handed : for[s].phone = p}
  <2>1. sent \subseteq OfPhone(p) /\ OfPhone(p) \subseteq booked
    BY <1>1 DEF OfPhone
  <2>2. IsFiniteSet(OfPhone(p))
    BY <1>1, <2>1, FS_Subset
  <2>3. Within(OfPhone(p), at, PhoneMinute, PhoneDay)
    BY DEF QuotaInv, Quotas
  <2> HIDE DEF sent
  <2> QED
    BY <2>1, <2>2, <2>3, FewerWithin DEF sent
<1>4. ASSUME NEW i \in Addresses
      PROVE  LET sent == {s \in handed : for[s].ip = i}
             IN  Within(sent, at, IPMinute, IPDay)
  <2> DEFINE sent == {s \in handed : for[s].ip = i}
  <2>1. sent \subseteq OfIP(i) /\ OfIP(i) \subseteq booked
    BY <1>1 DEF OfIP
  <2>2. IsFiniteSet(OfIP(i))
    BY <1>1, <2>1, FS_Subset
  <2>3. Within(OfIP(i), at, IPMinute, IPDay)
    BY DEF QuotaInv, Quotas
  <2> QED
    BY <2>1, <2>2, <2>3, FewerWithin DEF sent
<1> QED
  BY <1>2, <1>3, <1>4 DEF Within, InMinute, InDay, LastMinute, ThisDay

-----------------------------------------------------------------------------
(* The theorems *)

IInv == CodeInv /\ CaptchaInv /\ QuotaInv

LEMMA IInvAlways == Spec => []IInv
<1>1. Init => IInv
  BY InitCodeInv, InitQuotaInv DEF Init, IInv, CaptchaInv
<1>2. IInv /\ [Next]_vars => IInv'
  BY NextCodeInv, NextCaptchaInv, NextQuotaInv DEF IInv, CodeInv
<1> QED
  BY <1>1, <1>2, PTL DEF Spec

\* Redis and the requests are well typed, and every code is stored under the
\* phone it was sent to.
THEOREM SmsTypes == Spec => []TypeOK
<1>1. IInv => TypeOK
  BY DEF IInv, CodeInv
<1> QED
  BY <1>1, IInvAlways, PTL

\* No phone and no address ever gets more messages than its quotas.
THEOREM QuotaAlwaysHolds == Spec => []QuotaHolds
<1>1. IInv => QuotaHolds
  BY QuotaInvHolds DEF IInv, CodeInv
<1> QED
  BY <1>1, IInvAlways, PTL

\* ConsumeCode accepts a code at most once.
THEOREM CodesWorkOnce == Spec => []CodeWorksOnce
<1>1. IInv => CodeWorksOnce
  BY DEF IInv, CodeInv
<1> QED
  BY <1>1, IInvAlways, PTL

\* The third wrong try is the last, and no right one comes after it.
THEOREM AtMostThreeTries == Spec => []ThreeTries
<1>1. IInv => ThreeTries
  BY DEF IInv, CodeInv
<1> QED
  BY <1>1, IInvAlways, PTL

\* A captcha lets one request through.
THEOREM CaptchasWorkOnce == Spec => []CaptchaWorksOnce
<1>1. IInv => CaptchaWorksOnce
  BY DEF IInv, CaptchaInv, CaptchaWorksOnce
<1> QED
  BY <1>1, IInvAlways, PTL
=============================================================================
