----------------------------- MODULE MCAgentHub -----------------------------
(* Instances of AgentHub for TLC. *)
EXTENDS AgentHub, TLC

CONSTANTS s1, c1, c2, k1, k2

\* One server whose agent connects as often as Conns allows.
OneServer == [c \in Conns |-> s1]
CmdsToOne == [k \in Cmds |-> s1]

Symmetry == Permutations(Conns) \cup Permutations(Cmds)
=============================================================================
