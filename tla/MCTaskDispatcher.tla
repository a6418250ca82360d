-------------------------- MODULE MCTaskDispatcher --------------------------
(* Instances of TaskDispatcher for TLC.                                    *)
EXTENDS TaskDispatcher, TLC

CONSTANTS a1, a2, t1, t2, b1, b2

\* Agents that run alike, tasks, and tick bodies may be swapped.
AgentSymmetry == Permutations(Agents) \cup Permutations(Tasks) \cup Permutations(Bodies)
TaskSymmetry == Permutations(Tasks) \cup Permutations(Bodies)
=============================================================================
