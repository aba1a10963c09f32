------------------------ MODULE DaemonHandoverProofs ------------------------
(***************************************************************************)
(* What keeps daemons apart, for any number of process slots, commands,    *)
(* jobs and crashes: that no start overlooks another daemon.               *)
(***************************************************************************)
EXTENDS DaemonHandover, TLAPS

(* A process past its readiness test, and a command past its own           *)
Up(p) == pc[p] \notin {"off", "check"}

Engaged(c) == cpc[c] \in {"stale", "spawn", "kill", "cleanup"} \/ child[c] # None

(* A worker has a job only in a process that has come up.                  *)
WorkerIsUp == \A p \in Process : work[p] # None => pc[p] \in {"serving"} \cup Closing

(* A command knows the process it waits for until it is gone.              *)
ChildIsUp ==
  \A c \in Client : child[c] # None => cpc[c] \in {"wait", "kill"} /\ pc[child[c]] # "off"

OneProcess == \A p, q \in Process : Up(p) /\ Up(q) => p = q

OneStart == \A c, d \in Client : Engaged(c) /\ Engaged(d) => c = d

(* A command on its way to start a daemon, or to clean up after one, is    *)
(* alone with the process that it started.                                 *)
OwnChild == \A p \in Process, c \in Client : Up(p) /\ Engaged(c) => child[c] = p

(* From bind to server_close the socket file is the process's own.         *)
HoldsSocket ==
  \A p \in Process : pc[p] \in {"recover", "serving", "stopping"} => socket = p

Parts == OneProcess /\ OneStart /\ OwnChild /\ HoldsSocket

(* What was recorded as interrupted stays failed, and in nobody's hands.   *)
Interrupted ==
  /\ \A j \in interrupted : record[j] = "failed"
  /\ InterruptedMeansStopped

IInv == WorkerIsUp /\ ChildIsUp /\ (~overlooked => Parts /\ Interrupted)
-----------------------------------------------------------------------------
LEMMA Names ==
  /\ ProcessPC = {"off", "serving", "check", "stale", "bind", "recover", "stopping", "draining",
                  "unlink", "exit"}
  /\ Rising = {"check", "stale", "bind", "recover"}
  /\ Entered = {"stale", "bind", "recover"}
  /\ Closing = {"stopping", "draining", "unlink", "exit"}
  /\ DOMAIN AfterStop = {"stop", "restart", "repair", "uninstall"}
  /\ ClientPC = {"stop", "restart", "repair", "uninstall", "idle", "setup", "disable", "start",
                 "stale", "spawn", "wait", "kill", "cleanup"}
  /\ Step = {"idle", "claim", "generate", "settle", "succeed", "error", "fail"}
BY DEF ProcessPC, Rising, Entered, Closing, ClientPC, AfterStop, Step

LEMMA Onward ==
  \A at \in DOMAIN AfterStop : AfterStop[at] \in {"idle", "setup", "disable", "start"}
BY DEF AfterStop

(* Every variable keeps its type, and a worker is idle exactly while it    *)
(* has no job.                                                             *)
THEOREM TypeCorrect == Spec => []TypeOK
<1> USE Names DEF jobs, bounds, ProcessTo, Goes, Gone, UnitAfter, Fails, ClientTo, Moves, Asked,
                  Terminate, Spawned, GoesOnBeside
<1>1. Init => TypeOK
  <2>1. Init => overlooked \in BOOLEAN
    BY Zenon DEF Init
  <2> QED BY <2>1, CrashAssumption DEF Init, TypeOK
<1>2. TypeOK /\ [Next]_vars => TypeOK'
  <2> SUFFICES ASSUME TypeOK, [Next]_vars PROVE TypeOK'
    OBVIOUS
  <2>1. ASSUME NEW p \in Process, ServeStep(p) PROVE TypeOK'
    <3>1. CASE Check(p)
      <4>1. CASE Answers /\ Fails(p) /\ UNCHANGED bounds
        BY <3>1, <4>1 DEF TypeOK
      <4>2. CASE GoesOnBeside(Process \ {p}, {c \in Client : child[c] # p}) /\ Goes(p, "stale") /\ UNCHANGED <<socket, jobs>>
        <5>1. overlooked' \in BOOLEAN
          BY <4>2, Zenon DEF TypeOK
        <5> HIDE DEF GoesOnBeside
        <5> QED BY <3>1, <4>2, <5>1 DEF TypeOK
      <4> QED BY <3>1, <4>1, <4>2 DEF Check
    <3>2. CASE RemoveStale(p) BY <3>2 DEF RemoveStale, TypeOK
    <3>3. CASE Bind(p) BY <3>3 DEF Bind, TypeOK
    <3>4. CASE Recover(p) BY <3>4 DEF Recover, TypeOK
    <3>5. CASE Close(p) \/ Drained(p) BY <3>5 DEF Close, Drained, TypeOK
    <3>6. CASE Unlink(p) BY <3>6 DEF Unlink, TypeOK
    <3>7. CASE Exit(p) BY <3>7 DEF Exit, TypeOK
    <3> QED BY <2>1, <3>1, <3>2, <3>3, <3>4, <3>5, <3>6, <3>7 DEF ServeStep
  <2>2. ASSUME NEW p \in Process, Stop(p) PROVE TypeOK'
    BY <2>2 DEF Stop, TypeOK
  <2>3. ASSUME NEW p \in Process, Crash(p) PROVE TypeOK'
    BY <2>3, CrashAssumption DEF Crash, TypeOK
  <2>4. ASSUME NEW p \in Process, Work(p) PROVE TypeOK'
    <3> DEFINE j == work[p]
    <3>1. j \in Job
      BY <2>4, NoneAssumption DEF Work, TypeOK
    <3>2. record' \in [Job -> {"absent", "queued", "running", "succeeded", "failed"}]
      BY <2>4, <3>1 DEF Work, TypeOK
    <3>3. output' \in SUBSET Job
      BY <2>4, <3>1 DEF Work, TypeOK
    <3>4. \E s \in Step : step' = [step EXCEPT ![p] = s] /\
            work' = IF s = "idle" THEN [work EXCEPT ![p] = None] ELSE work
      BY <2>4 DEF Work, StepTo, Idle
    <3> QED BY <2>4, <3>1, <3>2, <3>3, <3>4, NoneAssumption DEF Work, TypeOK
  <2>5. ASSUME NEW p \in Process, NEW j \in Job, Submit(p, j) PROVE TypeOK'
    BY <2>5 DEF Submit, TypeOK
  <2>6. ASSUME NEW p \in Process, NEW j \in Job, Take(p, j) PROVE TypeOK'
    BY <2>6, NoneAssumption DEF Take, TypeOK
  <2>7. ASSUME NEW c \in Client, ClientStep(c) PROVE TypeOK'
    <3>1. CASE Poll(c)
      <4>1. AfterStop[cpc[c]] \in ClientPC
        BY <3>1, Onward DEF Poll
      <4> QED BY <3>1, <4>1 DEF Poll, TypeOK
    <3>2. CASE PollTimeout(c) \/ Setup(c) \/ Reaped(c) BY <3>2 DEF PollTimeout, Setup, Reaped, TypeOK
    <3>3. CASE Start(c) BY <3>3 DEF Start, TypeOK
    <3>4. CASE Disable(c) BY <3>4 DEF Disable, TypeOK
    <3>5. CASE ClientRemovesStale(c) \/ CleanUp(c)
      BY <3>5 DEF ClientRemovesStale, CleanUp, TypeOK
    <3>6. CASE Spawn(c) BY <3>6 DEF Spawn, TypeOK
    <3>7. CASE Waited(c) BY <3>7 DEF Waited, Leaves, TypeOK
    <3>8. CASE WaitTimeout(c)
      <4>1. child[c] \in Process
        BY <3>8 DEF WaitTimeout, TypeOK
      <4> QED BY <3>8, <4>1 DEF WaitTimeout, TypeOK
    <3>9. CASE Kill(c)
      <4>1. child[c] \in Process
        BY <3>9 DEF Kill, TypeOK
      <4> QED BY <3>9, <4>1 DEF Kill, TypeOK
    <3> QED
      BY <2>7, <3>1, <3>2, <3>3, <3>4, <3>5, <3>6, <3>7, <3>8, <3>9 DEF ClientStep
  <2>8. ASSUME NEW c \in Client, Begin(c) \/ BeginStop(c) \/ Interrupt(c) PROVE TypeOK'
    <3>1. CASE Begin(c) BY <3>1 DEF Begin, TypeOK
    <3>2. CASE BeginStop(c)
      <4>1. socket \in Process
        BY <3>2 DEF BeginStop, Answers, TypeOK
      <4> QED BY <3>2, <4>1 DEF BeginStop, TypeOK
    <3>3. CASE Interrupt(c) BY <3>3 DEF Interrupt, Leaves, TypeOK
    <3> QED BY <2>8, <3>1, <3>2, <3>3
  <2>9. ASSUME Supervise PROVE TypeOK'
    BY <2>9 DEF Supervise, TypeOK
  <2>10. CASE UNCHANGED vars
    BY <2>10 DEF vars, TypeOK
  <2> QED
    BY <2>1, <2>2, <2>3, <2>4, <2>5, <2>6, <2>7, <2>8, <2>9, <2>10 DEF Next
<1> QED BY <1>1, <1>2, PTL DEF Spec

-----------------------------------------------------------------------------
(* A worker goes with its process, and the command that started it knows.  *)
LEMMA KnownStay ==
  ASSUME TypeOK, WorkerIsUp, ChildIsUp, [Next]_vars PROVE WorkerIsUp' /\ ChildIsUp'
<1> USE Names, NoneAssumption
    DEF WorkerIsUp, ChildIsUp, TypeOK, jobs, bounds, ProcessTo, Goes, Gone, Fails,
        ClientTo, Moves, Asked, Terminate, Spawned, Leaves
<1>1. ASSUME NEW p \in Process, ServeStep(p) PROVE WorkerIsUp' /\ ChildIsUp'
  <2>1. CASE Check(p) BY <1>1, <2>1 DEF Check, GoesOnBeside
  <2>2. CASE RemoveStale(p) BY <2>2 DEF RemoveStale
  <2>3. CASE Bind(p) BY <2>3 DEF Bind
  <2>4. CASE Recover(p) BY <2>4 DEF Recover
  <2>5. CASE Close(p) \/ Drained(p) BY <2>5 DEF Close, Drained
  <2>6. CASE Unlink(p) BY <2>6 DEF Unlink
  <2>7. CASE Exit(p) BY <2>7 DEF Exit
  <2> QED BY <1>1, <2>1, <2>2, <2>3, <2>4, <2>5, <2>6, <2>7 DEF ServeStep
<1>2. ASSUME NEW p \in Process, Stop(p) \/ Crash(p) PROVE WorkerIsUp' /\ ChildIsUp'
  BY <1>2 DEF Stop, Crash
<1>3. ASSUME NEW p \in Process, Work(p) PROVE WorkerIsUp' /\ ChildIsUp'
  BY <1>3 DEF Work, StepTo, Idle
<1>4. ASSUME NEW p \in Process, NEW j \in Job, Submit(p, j) \/ Take(p, j)
      PROVE  WorkerIsUp' /\ ChildIsUp'
  BY <1>4 DEF Submit, Take, Serves
<1>5. ASSUME NEW c \in Client, ClientStep(c) PROVE WorkerIsUp' /\ ChildIsUp'
  <2>1. CASE Poll(c) \/ PollTimeout(c) \/ Reaped(c) BY <2>1 DEF Poll, PollTimeout, Reaped
  <2>2. CASE Setup(c) \/ ClientRemovesStale(c) \/ CleanUp(c)
    BY <2>2 DEF Setup, ClientRemovesStale, CleanUp
  <2>3. CASE Start(c) BY <2>3 DEF Start
  <2>4. CASE Disable(c) BY <2>4 DEF Disable
  <2>5. CASE Spawn(c) BY <2>5 DEF Spawn
  <2>6. CASE Waited(c) BY <2>6 DEF Waited
  <2>7. CASE WaitTimeout(c) BY <2>7 DEF WaitTimeout
  <2>8. CASE Kill(c) BY <2>8 DEF Kill
  <2> QED BY <1>5, <2>1, <2>2, <2>3, <2>4, <2>5, <2>6, <2>7, <2>8 DEF ClientStep
<1>6. ASSUME NEW c \in Client, Begin(c) \/ BeginStop(c) \/ Interrupt(c)
      PROVE  WorkerIsUp' /\ ChildIsUp'
  BY <1>6 DEF Begin, BeginStop, Interrupt, Answers, Serves
<1>7. ASSUME Supervise PROVE WorkerIsUp' /\ ChildIsUp'
  BY <1>7 DEF Supervise
<1>8. CASE UNCHANGED vars
  BY <1>8 DEF vars
<1> QED BY <1>1, <1>2, <1>3, <1>4, <1>5, <1>6, <1>7, <1>8 DEF Next

(* A start that overlooks nothing goes on beside nobody.                   *)
LEMMA NothingOverlooked ==
  ASSUME TypeOK, ChildIsUp, NEW others \in SUBSET Process, NEW commands \in SUBSET Client,
         GoesOnBeside(others, commands), ~overlooked'
  PROVE  /\ \A q \in others : ~Up(q)
         /\ \A d \in commands : Engaged(d) => Up(child[d]) /\ child[d] \in Process \ others
<1>1. Seen(others, commands) = {}
  BY DEF GoesOnBeside
<1>2. "busy" \notin Seen(others, commands) /\ "closing" \notin Seen(others, commands)
      /\ "starting" \notin Seen(others, commands)
  BY <1>1
<1>3. \A q \in others : ~Up(q)
  BY <1>2, Names DEF Seen, Sight, Up, TypeOK
<1>4. \A d \in commands : ~Starts(d)
  BY <1>2 DEF Seen, Sight
<1>5. ASSUME NEW d \in commands, Engaged(d) PROVE Up(child[d]) /\ child[d] \in Process
  BY <1>4, <1>5, Names, NoneAssumption DEF Starts, Engaged, ChildIsUp, TypeOK, Up
<1> QED BY <1>3, <1>5

LEMMA OverlookedStays == ASSUME [Next]_vars, ~overlooked' PROVE ~overlooked
<1>1. ASSUME NEW others, NEW commands, GoesOnBeside(others, commands) PROVE ~overlooked
  BY <1>1, Zenon DEF GoesOnBeside
<1>2. CASE UNCHANGED overlooked
  BY <1>2
<1>3. ASSUME NEW p \in Process, Check(p) PROVE ~overlooked
  BY <1>1, <1>2, <1>3, Zenon DEF Check, bounds
<1>4. ASSUME NEW c \in Client, Start(c) PROVE ~overlooked
  BY <1>1, <1>2, <1>4, Zenon DEF Start
<1>5. ASSUME NEW p \in Process, Stop(p) \/ Crash(p) \/ Work(p) PROVE UNCHANGED overlooked
  BY <1>5 DEF Stop, Crash, Work, bounds
<1>6. ASSUME NEW p \in Process, ServeStep(p), ~Check(p) PROVE UNCHANGED overlooked
  BY <1>6 DEF ServeStep, RemoveStale, Bind, Recover, Close, Drained, Unlink, Exit, bounds
<1>7. ASSUME NEW c \in Client, ClientStep(c), ~Start(c) PROVE UNCHANGED overlooked
  BY <1>7 DEF ClientStep, Poll, PollTimeout, Setup, Disable, ClientRemovesStale, Spawn, Waited,
              Leaves, WaitTimeout, Kill, Reaped, CleanUp, bounds
<1>8. ASSUME NEW c \in Client, Begin(c) \/ BeginStop(c) \/ Interrupt(c)
      PROVE  UNCHANGED overlooked
  BY <1>8 DEF Begin, BeginStop, Interrupt, Leaves, bounds
<1>9. CASE Supervise \/ UNCHANGED vars
  BY <1>2, <1>9 DEF Supervise, vars, bounds
<1>10. ASSUME NEW p \in Process, NEW j \in Job, Submit(p, j) \/ Take(p, j)
       PROVE  UNCHANGED overlooked
  BY <1>10 DEF Submit, Take, bounds
<1> QED BY <1>2, <1>3, <1>4, <1>5, <1>6, <1>7, <1>8, <1>9, <1>10 DEF Next

-----------------------------------------------------------------------------
(* A process on its way up or down: nobody else is there to be disturbed.  *)
LEMMA ServeKeeps ==
  ASSUME TypeOK, ChildIsUp, Parts, ~overlooked', NEW p \in Process,
         ServeStep(p) \/ Stop(p) \/ Crash(p)
  PROVE  Parts'
<1> USE Names, NoneAssumption
    DEF Parts, OneProcess, OneStart, OwnChild, HoldsSocket, Up, Engaged, TypeOK, jobs, bounds,
        ProcessTo, Goes, Gone, Fails, Asked, Terminate
<1>1. CASE Check(p)
  <2> DEFINE others == Process \ {p}
             commands == {c \in Client : child[c] # p}
  <2>1. CASE Answers /\ Fails(p)
    BY <2>1
  <2>2. CASE GoesOnBeside(others, commands) /\ Goes(p, "stale") /\ UNCHANGED <<socket, jobs>>
    <3>1. /\ \A q \in others : ~Up(q)
          /\ \A d \in commands : ~Engaged(d)
      <4> HIDE DEF others, commands
      <4>1. others \subseteq Process /\ commands \subseteq Client
        BY DEF others, commands
      <4>2. /\ \A q \in others : ~Up(q)
            /\ \A d \in commands : Engaged(d) => Up(child[d]) /\ child[d] \in Process \ others
        BY <2>2, <4>1, NothingOverlooked
      <4>3. \A d \in commands : Engaged(d) => child[d] = p
        BY <4>2 DEF others
      <4> QED BY <4>2, <4>3 DEF commands
    <3> QED BY <2>2, <3>1
  <2> QED BY <1>1, <2>1, <2>2 DEF Check
<1>2. CASE RemoveStale(p) BY <1>2 DEF RemoveStale
<1>3. CASE Bind(p) BY <1>3 DEF Bind
<1>4. CASE Recover(p) BY <1>4 DEF Recover
<1>5. CASE Close(p) BY <1>5 DEF Close
<1>6. CASE Drained(p) BY <1>6 DEF Drained
<1>7. CASE Unlink(p) BY <1>7 DEF Unlink
<1>8. CASE Exit(p) BY <1>8 DEF Exit
<1>9. CASE Stop(p) BY <1>9 DEF Stop
<1>10. CASE Crash(p) BY <1>10 DEF Crash
<1> QED BY <1>1, <1>2, <1>3, <1>4, <1>5, <1>6, <1>7, <1>8, <1>9, <1>10 DEF ServeStep

(* A command starts a process, or removes the socket file of one that is   *)
(* gone, only where it is alone.                                           *)
LEMMA CommandKeeps ==
  ASSUME TypeOK, ChildIsUp, Parts, ~overlooked', NEW c \in Client,
         ClientStep(c) \/ Begin(c) \/ BeginStop(c) \/ Interrupt(c)
  PROVE  Parts'
<1> USE Names, NoneAssumption
    DEF Parts, OneProcess, OneStart, OwnChild, HoldsSocket, Up, Engaged, TypeOK, jobs, bounds,
        ProcessTo, Gone, Asked, Terminate, ClientTo, Moves, Leaves
<1>1. CASE Poll(c)
  <2>1. AfterStop[cpc[c]] \in {"idle", "setup", "disable", "start"}
    BY <1>1, Onward DEF Poll
  <2> QED BY <1>1, <2>1 DEF Poll
<1>2. CASE PollTimeout(c) BY <1>2 DEF PollTimeout
<1>3. CASE Setup(c) BY <1>3 DEF Setup
<1>4. CASE Disable(c) BY <1>4 DEF Disable
<1>5. CASE Start(c)
  <2> DEFINE commands == Client \ {c}
  <2>1. CASE Moves(c, "idle")
    BY <2>1
  <2>2. CASE Moves(c, "stale") /\ GoesOnBeside(Process, commands)
    <3>1. /\ \A q \in Process : ~Up(q)
          /\ \A d \in commands : ~Engaged(d)
      <4> HIDE DEF commands
      <4>1. commands \subseteq Client
        BY DEF commands
      <4> QED BY <2>2, <4>1, NothingOverlooked
    <3> QED BY <2>2, <3>1
  <2> QED BY <1>5, <2>1, <2>2 DEF Start
<1>6. CASE ClientRemovesStale(c) BY <1>6 DEF ClientRemovesStale, ChildIsUp
<1>7. CASE Spawn(c) BY <1>7 DEF Spawn, Spawned, ChildIsUp
<1>8. CASE Waited(c) BY <1>8 DEF Waited
<1>9. CASE WaitTimeout(c) BY <1>9 DEF WaitTimeout
<1>10. CASE Kill(c) BY <1>10 DEF Kill
<1>11. CASE Reaped(c) BY <1>11 DEF Reaped
<1>12. CASE CleanUp(c) BY <1>12 DEF CleanUp, ChildIsUp
<1>13. CASE Begin(c) BY <1>13 DEF Begin
<1>14. CASE BeginStop(c) BY <1>14 DEF BeginStop, Answers, Serves
<1>15. CASE Interrupt(c) BY <1>15 DEF Interrupt
<1> QED
  BY <1>1, <1>2, <1>3, <1>4, <1>5, <1>6, <1>7, <1>8, <1>9, <1>10, <1>11, <1>12, <1>13, <1>14,
     <1>15 DEF ClientStep

LEMMA PartsStay ==
  ASSUME TypeOK, ChildIsUp, Parts, ~overlooked', [Next]_vars PROVE Parts'
<1> USE DEF Parts, OneProcess, OneStart, OwnChild, HoldsSocket, Up, Engaged
<1>1. ASSUME NEW p \in Process, Work(p) PROVE Parts'
  BY <1>1 DEF Work
<1>2. ASSUME NEW p \in Process, NEW j \in Job, Submit(p, j) \/ Take(p, j) PROVE Parts'
  BY <1>2 DEF Submit, Take
<1>3. CASE Supervise
  BY <1>3 DEF Supervise, Spawned, ProcessTo, TypeOK
<1>4. CASE UNCHANGED vars
  BY <1>4 DEF vars
<1> QED BY <1>1, <1>2, <1>3, <1>4, ServeKeeps, CommandKeeps DEF Next

-----------------------------------------------------------------------------
(* With one process at a time, what one daemon left running is recorded as *)
(* interrupted when its worker is gone, and is not taken up again.         *)
LEMMA InterruptedStays ==
  ASSUME TypeOK, WorkerIsUp, Parts, Interrupted, [Next]_vars PROVE Interrupted'
<1> USE DEF Interrupted, InterruptedMeansStopped
<1>1. ASSUME NEW p \in Process, Recover(p) PROVE Interrupted'
  <2>1. \A q \in Process : work[q] = None
    BY <1>1, Names DEF Recover, WorkerIsUp, Parts, OneProcess, Up
  <2>2. \A j \in interrupted' : j \in Job /\ record'[j] = "failed"
    BY <1>1 DEF Recover, TypeOK
  <2> QED BY <1>1, <2>1, <2>2, NoneAssumption DEF Recover
<1>2. ASSUME NEW p \in Process, Work(p) PROVE Interrupted'
  <2>1. \A j \in interrupted : j # work[p] /\ j \in Job
    BY DEF TypeOK
  <2>2. \A j \in interrupted : record'[j] = record[j]
    BY <1>2, <2>1 DEF Work, TypeOK
  <2>3. \A q \in Process : work'[q] \in {work[q], None}
    BY <1>2 DEF Work, StepTo, Idle, TypeOK
  <2> QED BY <1>2, <2>1, <2>2, <2>3, NoneAssumption DEF Work, TypeOK
<1>3. ASSUME NEW p \in Process, NEW j \in Job, Submit(p, j) PROVE Interrupted'
  BY <1>3 DEF Submit, TypeOK
<1>4. ASSUME NEW p \in Process, NEW j \in Job, Take(p, j) PROVE Interrupted'
  <2>1. \A q \in Process : work'[q] = work[q] \/ record[work'[q]] = "queued"
    BY <1>4 DEF Take, TypeOK
  <2> QED BY <1>4, <2>1 DEF Take
<1>5. ASSUME record' = record, interrupted' = interrupted,
             \A q \in Process : work'[q] \in {work[q], None}
      PROVE  Interrupted'
  BY <1>5, NoneAssumption DEF TypeOK
<1>6. ASSUME NEW p \in Process, ServeStep(p) \/ Stop(p) \/ Crash(p), ~ Recover(p)
      PROVE  Interrupted'
  BY <1>5, <1>6 DEF ServeStep, Stop, Crash, Check, RemoveStale, Bind, Close, Drained, Unlink,
                    Exit, Fails, Gone, Terminate, jobs, TypeOK
<1>7. ASSUME NEW c \in Client, ClientStep(c) \/ Begin(c) \/ BeginStop(c) \/ Interrupt(c)
      PROVE  Interrupted'
  BY <1>5, <1>7 DEF ClientStep, Poll, PollTimeout, Setup, Disable, Start, ClientRemovesStale,
                    Spawn, Waited, WaitTimeout, Kill, Reaped, CleanUp, Begin, BeginStop, Interrupt,
                    Moves, Leaves, Terminate, Gone, jobs, TypeOK
<1>8. CASE Supervise \/ UNCHANGED vars
  BY <1>5, <1>8 DEF Supervise, jobs, vars
<1> QED BY <1>1, <1>2, <1>3, <1>4, <1>6, <1>7, <1>8 DEF Next

(* The inductive invariant: as long as no start overlooks a daemon there   *)
(* is one at most, the socket file is its own, no command is about to      *)
(* disturb it, and what it recorded as interrupted is over.                *)
THEOREM Inductive == Spec => []IInv
<1>1. Init => IInv
  BY DEF Init, IInv, WorkerIsUp, ChildIsUp, Parts, OneProcess, OneStart, OwnChild, HoldsSocket,
         Interrupted, InterruptedMeansStopped, Up, Engaged
<1>2. TypeOK /\ IInv /\ [Next]_vars => IInv'
  <2> SUFFICES ASSUME TypeOK, IInv, [Next]_vars PROVE IInv'
    OBVIOUS
  <2>1. WorkerIsUp' /\ ChildIsUp'
    BY KnownStay DEF IInv
  <2>2. ASSUME ~overlooked' PROVE Parts' /\ Interrupted'
    <3>1. Parts /\ Interrupted
      BY <2>2, OverlookedStays DEF IInv
    <3> QED BY <2>2, <3>1, PartsStay, InterruptedStays DEF IInv
  <2> QED BY <2>1, <2>2 DEF IInv
<1> QED BY <1>1, <1>2, TypeCorrect, PTL DEF Spec

(* Crashes, restarts by the service, interrupted commands and commands     *)
(* that give up never cut off a daemon that serves.                        *)
THEOREM AlwaysReachable == Spec => []OneReachableDaemon
<1>1. IInv => OneReachableDaemon
  BY DEF IInv, Parts, HoldsSocket, OneReachableDaemon, ServingIsReachable
<1> QED BY <1>1, Inductive, PTL

(* Nor do they make a daemon record as interrupted what another one is at  *)
(* work on; and the record of an interrupted job is final.                 *)
THEOREM InterruptedOnce == Spec => []OneRecovery
<1>1. IInv => OneRecovery
  BY DEF IInv, Interrupted, OneRecovery
<1> QED BY <1>1, Inductive, PTL

(* Nor do they let two daemons execute one job.                            *)
THEOREM ExecutedByOne == Spec => []OneExecution
<1>1. TypeOK /\ IInv => OneExecution
  BY Names DEF IInv, Parts, WorkerIsUp, OneProcess, Up, OneExecution, WorkIsExclusive
<1> QED BY <1>1, TypeCorrect, Inductive, PTL
=============================================================================
