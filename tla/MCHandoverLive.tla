--------------------------- MODULE MCHandoverLive ---------------------------
(***************************************************************************)
(* The instance of DaemonHandover for its liveness properties.  To keep it *)
(* small, a behaviour has either all commands or jobs: no command waits    *)
(* for a job, and a job needs a daemon that nobody stops.                  *)
(***************************************************************************)
EXTENDS DaemonHandover

VARIABLE given

BeginsToStop ==
  \E c \in Client : cpc[c] = "idle" /\ cpc'[c] \in DOMAIN AfterStop \cup {"disable"}

AsGiven ==
  /\ given = "commands" => record' = record
  /\ given = "jobs" => ~BeginsToStop
  /\ UNCHANGED given

LiveInit == Init /\ given \in {"commands", "jobs"}

LiveNext == Next /\ AsGiven

(* Nothing that fairness speaks of is excluded.                            *)
LiveSpec == LiveInit /\ [][LiveNext]_<<vars, given>> /\ Fairness
=============================================================================
