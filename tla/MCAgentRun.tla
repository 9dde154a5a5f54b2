----------------------------- MODULE MCAgentRun -----------------------------
(* Instances of AgentRun for TLC: the commands of each run.                *)
EXTENDS AgentRun

CONSTANTS s1, r1, o1, o2, f1
=============================================================================
