-------------------------- MODULE MCAgentWorkspace --------------------------
(* Instances of AgentWorkspace: the runs are interchangeable.              *)
EXTENDS AgentWorkspace, TLC

(* Two of the three files show every order of writes between two runs.     *)
TwoFiles == <<"ir", "preview">>

Interchangeable == Permutations(Run)
=============================================================================
