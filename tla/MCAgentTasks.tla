---------------------------- MODULE MCAgentTasks ----------------------------
(* Instances of AgentTasks for TLC.                                        *)
EXTENDS AgentTasks, TLC

CONSTANTS a1, a2, t1, t2

\* Agents that run alike, and tasks, may be swapped.
TaskSymmetry == Permutations(Tasks)
AgentSymmetry == Permutations(Agents) \cup Permutations(Tasks)
=============================================================================
