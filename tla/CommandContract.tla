--------------------------- MODULE CommandContract ---------------------------
(***************************************************************************)
(* What agent_manager.Service promises those who send commands and listen  *)
(* to its callbacks, with no word about connections, locks or goroutines:  *)
(* a call either fails, and nothing follows, or it is accepted, and one    *)
(* final callback may follow; OnInterrupted comes only when the link that  *)
(* carried the command broke, and then the command is settled, one way or  *)
(* another.                                                                *)
(***************************************************************************)
EXTENDS Naturals, Sequences

CONSTANT Cmds

Outcomes == {"nack", "ok", "fail", "interrupted"}

VARIABLES
    status,    \* "new", then "sent" or "failed"
    told,      \* the final callbacks of each command so far
    broken     \* the sent commands whose link is gone

vars == <<status, told, broken>>

Sent == {k \in Cmds : status[k] = "sent"}

Init ==
    /\ status = [k \in Cmds |-> "new"]
    /\ told = [k \in Cmds |-> <<>>]
    /\ broken = {}

\* The call returns an id; the link may be broken already.
Send(k) ==
    /\ status[k] = "new"
    /\ status' = [status EXCEPT ![k] = "sent"]
    /\ broken \subseteq broken' /\ broken' \subseteq broken \cup {k}
    /\ UNCHANGED told

\* The call returns an error, and a failed write breaks the link of others.
Fail(k) ==
    /\ status[k] = "new"
    /\ status' = [status EXCEPT ![k] = "failed"]
    /\ broken \subseteq broken' /\ broken' \subseteq Sent
    /\ UNCHANGED told

Break ==
    /\ broken \subseteq broken' /\ broken' \subseteq Sent
    /\ UNCHANGED <<status, told>>

Settle(k, o) ==
    /\ status[k] = "sent"
    /\ told[k] = <<>>
    /\ o = "interrupted" => k \in broken
    /\ told' = [told EXCEPT ![k] = <<o>>]
    /\ UNCHANGED <<status, broken>>

Resolve(k) == k \in broken /\ \E o \in Outcomes : Settle(k, o)

Next ==
    \/ \E k \in Cmds : Send(k) \/ Fail(k) \/ \E o \in Outcomes : Settle(k, o)
    \/ Break

Spec == Init /\ [][Next]_vars

FairSpec == Spec /\ \A k \in Cmds : WF_vars(Resolve(k))
=============================================================================
