-------------------------- MODULE MCAgentConsumer --------------------------
(* Small instances of AgentConsumer: two partitions, two records each.    *)
EXTENDS AgentConsumer, TLC

CONSTANTS p1, p2

Symmetry == Permutations(Partitions)
============================================================================
