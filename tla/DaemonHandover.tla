--------------------------- MODULE DaemonHandover ---------------------------
(***************************************************************************)
(* One daemon after another on the same state directory: how a daemon      *)
(* process of core/daemon.py comes up and goes down, how the command line  *)
(* (start_daemon, `neurocad daemon restart`) and a service manager start   *)
(* it, and what happens to the jobs when two processes overlap.            *)
(*                                                                         *)
(* JobDaemon looks inside one process; here a process has one worker and   *)
(* no cancellation, and the store's lock, which is per process, does not   *)
(* keep two processes apart: a compare-and-set is a read and a write.      *)
(***************************************************************************)
EXTENDS Naturals, FiniteSets

CONSTANTS
  Process,     \* process slots; a slot is free again when its process is gone
  Client,      \* command-line processes that may run at the same time
  Job,
  Command,     \* the commands that are given
  Overlook,    \* what a start may overlook: all of Sight, or less to see one at work
  CrashMax,    \* bound: how many processes die of a crash
  None

(* What a command that asked a daemon to stop does when none answers       *)
AfterStop == [stop |-> "idle", restart |-> "start", repair |-> "setup", uninstall |-> "disable"]

(* Daemons that a start should see: at work, on the way down, coming up    *)
Sight == {"busy", "closing", "starting"}

ASSUME NoneAssumption == None \notin Process \cup Job
ASSUME UnitAssumption == {"inactive", "start"} \cap Process = {}
ASSUME CommandAssumption ==
  Command \subseteq {"start", "setup", "disable"} \cup DOMAIN AfterStop \cup {"kill"}
ASSUME OverlookAssumption == Overlook \subseteq Sight
ASSUME CrashAssumption == CrashMax \in Nat

VARIABLES
  unit,         \* the service: inactive, to be started, or the process it runs
  socket,       \* the process whose listening socket socket_path leads to
  pc,           \* how far each daemon process is in serve()
  cpc, child,   \* each client's place in its command, and what it spawned
  record,       \* status of the jobs' records
  output,       \* jobs whose output directory is published
  queue,        \* the jobs in each process's queue
  step, work,   \* the worker of each process and its job
  interrupted,  \* history: jobs that recover() recorded as interrupted
  overlooked,   \* history: a start went on while there was another daemon
  crashes       \* history: crashes so far

vars == <<unit, socket, pc, cpc, child, record, output, queue, step, work,
          interrupted, overlooked, crashes>>
jobs == <<record, output, queue, step, work, interrupted>>
bounds == <<overlooked, crashes>>

(* serve(): daemon_is_ready, remove_stale_socket, bind, start_workers,     *)
(* serve_forever, stop_workers, then the removal of the socket file.       *)
(* Until serve_forever a SIGTERM ends the process, later serve() returns.  *)
Entered == {"stale", "bind", "recover"}
Rising == {"check"} \cup Entered
Closing == {"stopping", "draining", "unlink", "exit"}
ProcessPC == {"off", "serving"} \cup Rising \cup Closing

ClientPC == DOMAIN AfterStop \cup
  {"idle", "setup", "disable", "start", "stale", "spawn", "wait", "kill", "cleanup"}

Step == {"idle", "claim", "generate", "settle", "succeed", "error", "fail"}

TypeOK ==
  /\ unit \in Process \cup {"inactive", "start"}
  /\ socket \in Process \cup {None}
  /\ pc \in [Process -> ProcessPC]
  /\ cpc \in [Client -> ClientPC]
  /\ child \in [Client -> Process \cup {None}]
  /\ record \in [Job -> {"absent", "queued", "running", "succeeded", "failed"}]
  /\ output \in SUBSET Job
  /\ queue \in [Process -> SUBSET Job]
  /\ step \in [Process -> Step]
  /\ work \in [Process -> Job \cup {None}]
  /\ \A p \in Process : step[p] = "idle" <=> work[p] = None
  /\ interrupted \in SUBSET Job
  /\ overlooked \in BOOLEAN
  /\ crashes \in 0 .. CrashMax

Init ==
  /\ unit = "inactive"
  /\ socket = None
  /\ pc = [p \in Process |-> "off"]
  /\ cpc = [c \in Client |-> "idle"]
  /\ child = [c \in Client |-> None]
  /\ record = [j \in Job |-> "absent"]
  /\ output = {}
  /\ queue = [p \in Process |-> {}]
  /\ step = [p \in Process |-> "idle"]
  /\ work = [p \in Process |-> None]
  /\ interrupted = {}
  /\ overlooked = FALSE
  /\ crashes = 0

(* daemon_is_ready is right when it says yes: the process that the socket  *)
(* file leads to accepts requests.  It may say no of any daemon at any     *)
(* time: the answer has 0.2 s, and dispatch reads every record for it.     *)
Serves(p) == pc[p] \in {"serving", "stopping"}

Answers == socket # None /\ Serves(socket)

(* A command that was told no, and may still remove the socket file        *)
Starts(c) ==
  \/ cpc[c] \in {"stale", "spawn", "kill", "cleanup"}
  \/ cpc[c] = "wait" /\ child[c] # None /\ pc[child[c]] \in Rising

Seen(others, commands) ==
  {what \in Sight :
    \/ what = "busy" /\ \E p \in others : pc[p] = "serving"
    \/ what = "closing" /\ \E p \in others : pc[p] \in Closing
    \/ what = "starting" /\ \/ \E p \in others : pc[p] \in Entered
                            \/ \E c \in commands : Starts(c)}

(* A start is told no, and goes on beside these processes and commands.    *)
GoesOnBeside(others, commands) ==
  /\ Seen(others, commands) \subseteq Overlook
  /\ overlooked' = (overlooked \/ Seen(others, commands) # {})

-----------------------------------------------------------------------------
(* A daemon process: serve() *)

ProcessTo(p, at) == pc' = [pc EXCEPT ![p] = at]

Goes(p, at) ==
  /\ ProcessTo(p, at)
  /\ UNCHANGED <<unit, cpc, child, crashes>>

(* The process is gone, with its queue, its worker and its open socket.    *)
Gone(p) ==
  /\ ProcessTo(p, "off")
  /\ child' = [c \in Client |-> IF child[c] = p THEN None ELSE child[c]]
  /\ queue' = [queue EXCEPT ![p] = {}]
  /\ step' = [step EXCEPT ![p] = "idle"]
  /\ work' = [work EXCEPT ![p] = None]
  /\ UNCHANGED <<socket, record, output, interrupted>>

(* Restart=on-failure, KeepAlive/SuccessfulExit: the service starts again  *)
(* after an error or a crash, and not after an exit that was asked for.    *)
UnitAfter(p, state) == unit' = IF unit = p THEN state ELSE unit

Fails(p) == Gone(p) /\ UnitAfter(p, "start") /\ UNCHANGED cpc

(* Mutant: serve does not ask for another daemon. *)
ServeUnchecked(p) ==
  /\ pc[p] = "check"
  /\ Goes(p, "stale")
  /\ UNCHANGED <<socket, jobs, overlooked>>

(* Mutant: that a daemon runs already is no error of this one. *)
CheckEndsCleanly(p) ==
  /\ pc[p] = "check"
  /\ \/ /\ Answers
        /\ Gone(p) /\ UnitAfter(p, "inactive") /\ UNCHANGED <<cpc, bounds>>
     \/ /\ GoesOnBeside(Process \ {p}, {c \in Client : child[c] # p})
        /\ Goes(p, "stale") /\ UNCHANGED <<socket, jobs>>

(* "a NeuroCAD daemon is already running", or none answers *)
Check(p) ==
  /\ pc[p] = "check"
  /\ \/ Answers /\ Fails(p) /\ UNCHANGED bounds
     \/ /\ GoesOnBeside(Process \ {p}, {c \in Client : child[c] # p})
        /\ Goes(p, "stale") /\ UNCHANGED <<socket, jobs>>

(* remove_stale_socket: whosever the socket file is *)
RemoveStale(p) ==
  /\ pc[p] = "stale"
  /\ socket' = None
  /\ Goes(p, "bind")
  /\ UNCHANGED <<jobs, overlooked>>

(* bind fails if the file is there again *)
Bind(p) ==
  /\ pc[p] = "bind"
  /\ \/ /\ socket = None /\ socket' = p
        /\ Goes(p, "recover") /\ UNCHANGED <<jobs, overlooked>>
     \/ socket # None /\ Fails(p) /\ UNCHANGED bounds

(* start_workers: settle what an earlier process left, queue what waits    *)
Recover(p) ==
  LET running == {j \in Job : record[j] = "running"} IN
  /\ pc[p] = "recover"
  /\ record' = [j \in Job |-> IF j \in running THEN "failed" ELSE record[j]]
  /\ interrupted' = interrupted \cup running
  /\ queue' = [queue EXCEPT ![p] = {j \in Job : record[j] = "queued"}]
  /\ Goes(p, "serving")
  /\ UNCHANGED <<socket, output, step, work, overlooked>>

(* A shutdown request, or SIGTERM once serve_forever runs: a thread asks   *)
(* it to return.                                                           *)
Asked(p) == ProcessTo(p, IF pc[p] = "serving" THEN "stopping" ELSE pc[p])

Terminate(p) ==
  \/ pc[p] \in Rising /\ Gone(p)
  \/ pc[p] \notin Rising /\ Asked(p) /\ UNCHANGED <<socket, child, jobs>>

(* SIGTERM to any daemon, by its owner or at the end of the session        *)
Stop(p) ==
  /\ "kill" \in Command
  /\ pc[p] \in Rising \cup {"serving"}
  /\ Terminate(p)
  /\ IF pc[p] \in Rising THEN UnitAfter(p, "inactive") ELSE UNCHANGED unit
  /\ UNCHANGED <<cpc, bounds>>

(* server_close: the listening socket is closed, its file stays. *)
Close(p) ==
  /\ pc[p] = "stopping"
  /\ Goes(p, "draining")
  /\ UNCHANGED <<socket, jobs, overlooked>>

(* stop_workers: the worker is done, or five seconds are over *)
Drained(p) ==
  /\ pc[p] = "draining"
  /\ Goes(p, "unlink")
  /\ UNCHANGED <<socket, jobs, overlooked>>

(* finally: the socket file is unlinked, whosever it is *)
Unlink(p) ==
  /\ pc[p] = "unlink"
  /\ socket' = None
  /\ Goes(p, "exit")
  /\ UNCHANGED <<jobs, overlooked>>

Exit(p) ==
  /\ pc[p] = "exit"
  /\ Gone(p) /\ UnitAfter(p, "inactive")
  /\ UNCHANGED <<cpc, bounds>>

Crash(p) ==
  /\ pc[p] # "off" /\ crashes < CrashMax
  /\ crashes' = crashes + 1
  /\ Fails(p)
  /\ UNCHANGED overlooked

-----------------------------------------------------------------------------
(* The worker of a process, and the requests that give it work *)

StepTo(p, s) == step' = [step EXCEPT ![p] = s] /\ UNCHANGED work

Idle(p) ==
  /\ step' = [step EXCEPT ![p] = "idle"]
  /\ work' = [work EXCEPT ![p] = None]

Submit(p, j) ==
  /\ socket = p /\ Serves(p)
  /\ record[j] = "absent"
  /\ record' = [record EXCEPT ![j] = "queued"]
  /\ queue' = [queue EXCEPT ![p] = @ \cup {j}]
  /\ UNCHANGED <<unit, socket, pc, cpc, child, output, step, work, interrupted, bounds>>

(* The read of the compare-and-set that starts a job *)
Take(p, j) ==
  /\ Serves(p)
  /\ step[p] = "idle" /\ j \in queue[p]
  /\ queue' = [queue EXCEPT ![p] = @ \ {j}]
  /\ IF record[j] = "queued"
       THEN step' = [step EXCEPT ![p] = "claim"] /\ work' = [work EXCEPT ![p] = j]
       ELSE UNCHANGED <<step, work>>
  /\ UNCHANGED <<unit, socket, pc, cpc, child, record, output, interrupted, bounds>>

(* What the worker does with the job in its hands *)
Work(p) ==
  LET j == work[p] IN
  /\ \/ /\ step[p] = "claim"
        /\ record' = [record EXCEPT ![j] = "running"]
        /\ StepTo(p, "generate") /\ UNCHANGED output
     \/ /\ step[p] = "generate" /\ j \notin output   \* never over another directory
        /\ output' = output \cup {j}
        /\ StepTo(p, "settle") /\ UNCHANGED record
     \/ /\ step[p] = "generate"
        /\ StepTo(p, "error") /\ UNCHANGED <<record, output>>
     \/ /\ step[p] = "settle"
        /\ StepTo(p, IF record[j] = "running" THEN "succeed" ELSE "error")
        /\ UNCHANGED <<record, output>>
     \/ /\ step[p] = "succeed"
        /\ record' = [record EXCEPT ![j] = "succeeded"]
        /\ Idle(p) /\ UNCHANGED output
     \/ /\ step[p] = "error"
        /\ IF record[j] = "running" THEN StepTo(p, "fail") ELSE Idle(p)
        /\ UNCHANGED <<record, output>>
     \/ /\ step[p] = "fail"
        /\ record' = [record EXCEPT ![j] = "failed"]
        /\ Idle(p) /\ UNCHANGED output
  /\ UNCHANGED <<unit, socket, pc, cpc, child, queue, interrupted, bounds>>

-----------------------------------------------------------------------------
(* The command line, and the service manager *)

ClientTo(c, at) == cpc' = [cpc EXCEPT ![c] = at]

(* The command goes on, and daemons are as they were.                      *)
Moves(c, at) ==
  /\ ClientTo(c, at)
  /\ UNCHANGED <<unit, socket, pc, child, jobs, crashes>>

Spawned(p) == pc[p] = "off" /\ ProcessTo(p, "check")

(* `neurocad daemon start`, a prompt, `setup` and `uninstall`; `restart`   *)
(* where no daemon answers is a start.                                     *)
Begin(c) ==
  /\ cpc[c] = "idle"
  /\ \E at \in Command \cap {"start", "setup", "disable"} : Moves(c, at)
  /\ UNCHANGED overlooked

(* `neurocad daemon stop`, `restart`, `setup --repair` and `uninstall`     *)
(* where a daemon answers: ask it to stop.                                 *)
BeginStop(c) ==
  /\ cpc[c] = "idle" /\ Answers
  /\ Asked(socket)
  /\ \E at \in Command \cap DOMAIN AfterStop : ClientTo(c, at)
  /\ UNCHANGED <<unit, socket, child, jobs, bounds>>

(* Poll until no daemon answers any more. *)
Poll(c) ==
  /\ cpc[c] \in DOMAIN AfterStop
  /\ Moves(c, AfterStop[cpc[c]])
  /\ UNCHANGED overlooked

(* Ten seconds are over, and some daemon still answers. *)
PollTimeout(c) ==
  /\ cpc[c] \in DOMAIN AfterStop /\ Answers
  /\ Moves(c, "idle")
  /\ UNCHANGED overlooked

(* install_user_service: systemctl enable --now.  setup then looks for a   *)
(* daemon for three seconds before it starts one itself.                   *)
Setup(c) ==
  /\ cpc[c] = "setup"
  /\ unit' = IF unit = "inactive" THEN "start" ELSE unit
  /\ ClientTo(c, "start")
  /\ UNCHANGED <<socket, pc, child, jobs, bounds>>

(* uninstall_user_service: systemctl disable --now, which sends SIGTERM    *)
Disable(c) ==
  /\ cpc[c] = "disable"
  /\ ClientTo(c, "idle")
  /\ unit' = "inactive"
  /\ IF unit \in Process THEN Terminate(unit) ELSE UNCHANGED <<socket, pc, child, jobs>>
  /\ UNCHANGED bounds

(* Mutant: start_daemon starts a daemon without asking for one. *)
StartUnchecked(c) ==
  /\ cpc[c] = "start"
  /\ Moves(c, "stale")
  /\ UNCHANGED overlooked

(* start_daemon: is there one already? *)
Start(c) ==
  /\ cpc[c] = "start"
  /\ \/ Answers /\ Moves(c, "idle") /\ UNCHANGED overlooked
     \/ Moves(c, "stale") /\ GoesOnBeside(Process, Client \ {c})

ClientRemovesStale(c) ==
  /\ cpc[c] = "stale"
  /\ socket' = None
  /\ ClientTo(c, "spawn")
  /\ UNCHANGED <<unit, pc, child, jobs, bounds>>

(* Popen, which may fail, as rotate_log before it *)
Spawn(c) ==
  /\ cpc[c] = "spawn"
  /\ \/ /\ \E p \in Process : Spawned(p) /\ child' = [child EXCEPT ![c] = p]
        /\ ClientTo(c, "wait")
     \/ ClientTo(c, "idle") /\ UNCHANGED <<pc, child>>
  /\ UNCHANGED <<unit, socket, jobs, bounds>>

Leaves(c) ==
  /\ ClientTo(c, "idle")
  /\ child' = [child EXCEPT ![c] = None]
  /\ UNCHANGED <<unit, socket, pc, jobs, bounds>>

(* A daemon answers, or the process that was spawned has ended. *)
Waited(c) ==
  /\ cpc[c] = "wait"
  /\ Answers \/ child[c] = None
  /\ Leaves(c)

(* Mutant: no deadline; only the end of the process ends the wait. *)
WaitNoDeadline(c) ==
  /\ cpc[c] = "wait" /\ child[c] = None
  /\ Leaves(c)

(* Thirty seconds are over without an answer: the process is terminated.   *)
WaitTimeout(c) ==
  /\ cpc[c] = "wait" /\ child[c] # None
  /\ Terminate(child[c])
  /\ ClientTo(c, "kill")
  /\ UNCHANGED <<unit, bounds>>

(* It did not end within another five. *)
Kill(c) ==
  /\ cpc[c] = "kill" /\ child[c] # None
  /\ Gone(child[c])
  /\ UNCHANGED <<unit, cpc, bounds>>

Reaped(c) ==
  /\ cpc[c] = "kill" /\ child[c] = None
  /\ Moves(c, "cleanup")
  /\ UNCHANGED overlooked

(* remove_stale_socket, whosever the file is by now *)
CleanUp(c) ==
  /\ cpc[c] = "cleanup"
  /\ socket' = None
  /\ ClientTo(c, "idle")
  /\ UNCHANGED <<unit, pc, child, jobs, bounds>>

(* The command is interrupted; the process it spawned goes on.             *)
Interrupt(c) == cpc[c] # "idle" /\ Leaves(c)

Supervise ==
  /\ unit = "start"
  /\ \E p \in Process : Spawned(p) /\ unit' = p
  /\ UNCHANGED <<socket, cpc, child, jobs, bounds>>

-----------------------------------------------------------------------------
ServeStep(p) ==
  Check(p) \/ RemoveStale(p) \/ Bind(p) \/ Recover(p) \/ Close(p) \/ Drained(p) \/ Unlink(p) \/ Exit(p)

ClientStep(c) ==
  \/ Poll(c) \/ PollTimeout(c) \/ Setup(c) \/ Disable(c) \/ Start(c) \/ ClientRemovesStale(c)
  \/ Spawn(c) \/ Waited(c) \/ WaitTimeout(c) \/ Kill(c) \/ Reaped(c) \/ CleanUp(c)

Next ==
  \/ \E p \in Process :
       \/ ServeStep(p) \/ Stop(p) \/ Crash(p) \/ Work(p)
       \/ \E j \in Job : Submit(p, j) \/ Take(p, j)
  \/ \E c \in Client :
       ClientStep(c) \/ Begin(c) \/ BeginStop(c) \/ Interrupt(c)
  \/ Supervise

Spec == Init /\ [][Next]_vars

(* Processes and commands that run go on, polls time out, and the service  *)
(* manager restarts what failed.                                           *)
Fairness ==
  /\ \A p \in Process : WF_vars(ServeStep(p)) /\ WF_vars(Work(p))
  /\ \A p \in Process, j \in Job : WF_vars(Take(p, j))
  /\ \A c \in Client : WF_vars(ClientStep(c))
  /\ WF_vars(Supervise)

FairSpec == Spec /\ Fairness

-----------------------------------------------------------------------------
(* A daemon that serves is the one that clients reach: its socket file is  *)
(* neither removed nor taken over while it serves.                         *)
ServingIsReachable == \A p \in Process : pc[p] = "serving" => socket = p

(* A job is recorded as interrupted only when no process is still at work  *)
(* on it: the daemon that ran it has stopped.                              *)
InterruptedMeansStopped == \A p \in Process : work[p] \notin interrupted

(* No job is executed by two processes at once.                            *)
WorkIsExclusive ==
  \A p, q \in Process : work[p] # None /\ work[p] = work[q] => p = q

(* The code guarantees none of the three, as a start may overlook another  *)
(* daemon.  But nothing else breaks them, neither crashes at any point,    *)
(* commands that are interrupted or give up, nor a service that restarts   *)
(* while commands start daemons too: until a start has been told no beside *)
(* a daemon at work, on its way down or coming up,                         *)
(* a daemon that serves is never cut off from its clients,                 *)
OneReachableDaemon == ~overlooked => ServingIsReachable

(* jobs are recorded as interrupted only when their daemon is gone, and    *)
(* that record is final,                                                   *)
OneRecovery ==
  ~overlooked => InterruptedMeansStopped /\ \A j \in interrupted : record[j] = "failed"

(* and no two daemons execute one job.  And every variable has its type: a *)
(* process is idle exactly while it has no job.                            *)
OneExecution == TypeOK /\ (~overlooked => WorkIsExclusive)

(* Once the service is due to be started and no command stops daemons any  *)
(* more, every queued job gets its turn: a daemon that died comes back,    *)
(* also when it was not the service's own, and takes up what was left.     *)
(* A start that gives up stops the daemon it started; that happens         *)
(* finitely often.  A SIGTERM from anybody else may end the service.       *)
ServiceStays ==
  <>(unit = "start" /\ [](\A c \in Client : cpc[c] \notin DOMAIN AfterStop \cup {"disable"}))

QueuedSurvives ==
  "kill" \notin Command /\ ServiceStays
      /\ <>[][\A c \in Client : ~WaitTimeout(c)]_vars /\ []~overlooked =>
    \A j \in Job : record[j] = "queued" ~> record[j] # "queued"

(* Every command comes to an end, whatever happens to the daemons.         *)
CommandEnds == \A c \in Client : cpc[c] # "idle" ~> cpc[c] = "idle"
=============================================================================
