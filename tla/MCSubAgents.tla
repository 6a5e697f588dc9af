----------------------------- MODULE MCSubAgents -----------------------------
(* Small instances of SubAgents for TLC.                                   *)
EXTENDS SubAgents

\* Every dependency graph on the agents with every failure mode; the mode of an
\* agent without dependencies and the redundancy flag play no part.
GraphRequests ==
    {c \in Configs : c.allow_redundant /\ (c.deps = {} => c.mode = "inherit")}
WaitForAll == {Agents}

\* A first worker and a second one that repeats its task, with or without leave
\* to do so, or that depends on it.
TurnRequests ==
    {c \in Configs : c.mode = "inherit" /\ (c.deps # {} => c.allow_redundant)}
AnyWait == SUBSET Agents
=============================================================================
