---------------------------- MODULE MCAuthSession ----------------------------
(* Instances of AuthSession for TLC. *)
EXTENDS AuthSession, TLC

CONSTANTS u1, u2, p1, p2

\* u1 has a session and a reset token.
PastOfOne == p1 :> [op |-> "loginBySMS", user |-> u1]
             @@ p2 :> [op |-> "verifyReset", user |-> u1]

\* The tokens of the session from before expire.
OldTokens == {"access", "refresh"} \X {p1}

Symmetry == Permutations(Calls \ DOMAIN Past)
=============================================================================
