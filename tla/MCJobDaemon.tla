---------------------------- MODULE MCJobDaemon ----------------------------
(* Small instances of JobDaemon.  Workers are interchangeable, and so are  *)
(* request handlers; jobs are not, because recovery orders them.           *)
EXTENDS JobDaemon, TLC

ThreadSymmetry == Permutations(Worker) \cup Permutations(Handler)
=============================================================================
