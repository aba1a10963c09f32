-------------------------- MODULE MCDaemonHandover --------------------------
(* Small instances of DaemonHandover: process slots are interchangeable.   *)
EXTENDS DaemonHandover, TLC

ProcessSymmetry == Permutations(Process)
=============================================================================
