--------------------------- MODULE MCPaygCredits ---------------------------
(* TLC instances of PaygCredits. *)
EXTENDS PaygCredits, TLC

\* Every account belongs to the one agent.
MCAgentOf == [c \in Account |-> CHOOSE a \in Agent : TRUE]

=============================================================================
