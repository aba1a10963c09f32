----------------------- MODULE MCArtifactPublication -----------------------
(* Instances of ArtifactPublication with two calls.                        *)
EXTENDS ArtifactPublication, TLC

CONSTANTS first, second

(* Two commands in processes of their own, that race for one destination.  *)
RaceTarget == [p \in Producer |-> "out"]
RaceHome == first :> "command1" @@ second :> "command2"

(* Two worker threads of one daemon, with a destination each.              *)
ThreadTarget == first :> "out1" @@ second :> "out2"
ThreadHome == [p \in Producer |-> "daemon"]
============================================================================
