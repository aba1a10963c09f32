------------------------- MODULE MCSharedDirectory -------------------------
(***************************************************************************)
(* The two places where processes that know nothing of each other write to *)
(* one directory: daemons to their state directory, and agent runs to      *)
(* their workspace.  They share no state, and a behaviour is one of one of *)
(* them.                                                                   *)
(***************************************************************************)
EXTENDS MCDaemonHandover, MCAgentWorkspace

SharedInit == Init /\ WorkspaceInit

NoRun == \A r \in Run : run[r].pc = "idle"

NothingStarted ==
  /\ unit = "inactive" /\ socket = None /\ crashes = 0
  /\ \A p \in Process : pc[p] = "off"
  /\ \A c \in Client : cpc[c] = "idle"
  /\ \A j \in Job : record[j] = "absent"
  /\ ~overlooked

SharedNext ==
  \/ NoRun /\ Next /\ UNCHANGED workspaceVars
  \/ NothingStarted /\ WorkspaceNext /\ UNCHANGED vars

SharedSpec == SharedInit /\ [][SharedNext]_<<vars, workspaceVars>>

SharedSymmetry == ProcessSymmetry \cup Interchangeable
=============================================================================
