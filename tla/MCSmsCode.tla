------------------------------ MODULE MCSmsCode ------------------------------
(* Instances of SmsCode for TLC. *)
EXTENDS SmsCode, TLC

\* Interchangeable sends, phones and addresses: no definition tells them apart.
Symmetry == Permutations(Sends) \cup Permutations(Phones)
            \cup Permutations(Addresses)

\* The history of a code that is gone for good changes no more, and no
\* definition but the properties reads it; nor does anything read the
\* request of a send that counts nowhere.
Live(s) == pc[s] \in {"reserve", "setCode"}
           \/ \E p \in Phones : code[p] # None /\ code[p].of = s
Counts(s) == Live(s) \/ pc[s] # "done" \/ s \in booked \/ s \in handed
View ==
    <<now, pc, [s \in Sends |-> IF Counts(s) THEN <<for[s], at[s]>> ELSE 0],
      booked, code, handed,
      [s \in Sends |-> IF Live(s) THEN <<used[s], wrong[s]>> ELSE 0],
      captcha, IF captcha = "gone" THEN 0 ELSE passed,
      CodeWorksOnce, ThreeTries, CaptchaWorksOnce>>
=============================================================================
