---------------------------- MODULE MCAgentSystem ----------------------------
(* Instances of AgentSystem for TLC. *)
EXTENDS AgentSystem, TLC

\* What can no longer be read on a connection is not told apart.
View ==
    <<hubVars, sessionVars, jobVars, restarts,
      in,
      [c \in Conns |->
          IF sock[c] \in {"lost", "closed"} THEN <<>> ELSE out[c]]>>

Symmetry == Permutations(Conns) \cup Permutations(Cmds)

\* The connections are alike and a dialled one stays dialled: whatever can happen
\* can happen with First dialled before the others, and a constraint that keeps
\* to such runs cuts none of them short.
First == CHOOSE c \in Conns : TRUE
FirstBeforeOthers == (\E c \in Conns : link[c] # "none") => link[First] # "none"
=============================================================================
