-------------------------- MODULE MCServerRegistry --------------------------
(* Instances of ServerRegistry for TLC. *)
EXTENDS ServerRegistry, TLC

Symmetry == Permutations(Users) \cup Permutations(Addresses)
            \cup Permutations(Slots) \cup Permutations(Calls)

\* What the run explores: an id named as a server's is given to a server, now,
\* later or never, and one named as a save's was given to a save.  An id of the
\* wrong kind would only be one more missing row.
RightKind ==
    \A c \in Calls : req[c] # NoRow =>
        /\ req[c].op \in OnServer =>
              req[req[c].target] = NoRow \/ req[req[c].target].op = "createServer"
        /\ req[c].op \in OnDst =>
              /\ req[req[c].target] # NoRow
              /\ req[req[c].target].op = "createDst"
=============================================================================
