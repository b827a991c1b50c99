-------------------------- MODULE MCAgentLifecycle ---------------------------
(* Instances of AgentLifecycle; the cfg files give the constants.          *)
EXTENDS AgentLifecycle, TLC

PidSymmetry == Permutations(Pid)
==============================================================================
