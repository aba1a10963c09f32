-------------------------- MODULE JobDaemonProofs --------------------------
(***************************************************************************)
(* What is proved about JobDaemon for every set of jobs, workers and       *)
(* handlers and every capacity of the queue: its types; the safety         *)
(* properties, from the invariant IInv; that no job is stranded; what a    *)
(* client sees of a job.                                                   *)
(*                                                                         *)
(* The steps of a worker and of a handler are first reduced to what they   *)
(* do to the state that IInv is about; the invariant is then preserved by  *)
(* each of these few shapes.                                               *)
(***************************************************************************)
EXTENDS JobDaemon, TLAPS

(* The statuses and the program counters that the proofs mention.          *)
LEMMA Names ==
  /\ Terminal \subseteq Status
  /\ {"absent", "queued", "running", "cancellation_requested", "succeeded",
      "failed", "cancelled"} \subseteq Status
  /\ {"down", "recovering", "serving", "draining"} \subseteq Phase
  /\ {"off", "idle", "got", "generate", "finish", "superseded", "remove", "confirm",
      "except", "fail"} \subseteq WorkerPC
  /\ {"idle", "cancel", "cancelQueued", "cancelRunning", "put", "full"}
       \subseteq HandlerPC
BY DEF Terminal, Status, Phase, Executing, WorkerPC, Offering, HandlerPC

(* A compare-and-set writes the new status or leaves every record alone.   *)
LEMMA TransitionEffect ==
  ASSUME TypeOK, NEW j \in Job, NEW allowed, NEW new \in Status,
         Transition(j, allowed, new)
  PROVE  /\ record' \in [Job -> Status]
         /\ record[j] \in allowed => record' = [record EXCEPT ![j] = new]
         /\ record[j] \notin allowed => record' = record
BY DEF TypeOK, Transition

(* Every variable keeps its type, and a thread holds a job exactly when it *)
(* is at work on one.                                                      *)
THEOREM TypeCorrect == Spec => []TypeOK
<1> USE Names
<1>1. Init => TypeOK
  BY DEF Init, TypeOK
<1>2. TypeOK /\ [Next]_vars => TypeOK'
  <2> SUFFICES ASSUME TypeOK, [Next]_vars
               PROVE  TypeOK'
    OBVIOUS
  <2> USE DEF durable, workers, handlers, history
  <2>1. CASE Start
    <3>1. \A j \in Job : Recovered(record[j]) \in Status
      BY DEF TypeOK, Recovered
    <3>2. record' \in [Job -> Status] /\ backlog' \in SUBSET Job
      BY <2>1, <3>1 DEF Start
    <3>3. wpc' \in [Worker -> WorkerPC] /\ \A w \in Worker : wpc'[w] = "idle"
      BY <2>1 DEF Start
    <3>4. wjob' \in [Worker -> Job \cup {None}] /\ \A w \in Worker : wjob'[w] = None
      BY <2>1 DEF Start
    <3>5. QED
      BY <2>1, <3>2, <3>3, <3>4 DEF TypeOK, Start
  <2>2. ASSUME Die PROVE TypeOK'
    BY <2>2 DEF TypeOK, Die
  <2>3. CASE EnqueueRecovered
    BY <2>3 DEF TypeOK, EnqueueRecovered
  <2>4. CASE RecoveryOverflow \/ Exit \/ Crash
    BY <2>2, <2>4 DEF RecoveryOverflow, Exit, Crash
  <2>5. CASE Serve \/ Stop
    BY <2>5 DEF TypeOK, Serve, Stop
  <2>6. ASSUME NEW w \in Worker, WorkerStep(w)
        PROVE  TypeOK'
    <3>1. CASE Take(w)
      <4>1. Head(queue) \in Job /\ Tail(queue) \in Seq(Job) /\ Head(queue) # None
        BY <3>1, NoneAssumption DEF TypeOK, Take
      <4>2. QED
        BY <3>1, <4>1 DEF TypeOK, Take
    <3>2. CASE Quit(w)
      BY <3>2 DEF TypeOK, Quit, NextTurn
    <3>3. CASE StartJob(w)
      <4>1. wjob[w] \in Job /\ wjob[w] # None
        BY <3>3 DEF TypeOK, StartJob
      <4>2. record' \in [Job -> Status]
        BY <3>3, <4>1, TransitionEffect DEF StartJob
      <4>3. runs' \in [Job -> Nat]
        <5>1. runs[wjob[w]] + 1 \in Nat
          BY <4>1 DEF TypeOK
        <5>2. QED
          BY <3>3, <4>1, <5>1 DEF TypeOK, StartJob
      <4>4. CASE record[wjob[w]] = "queued"
        BY <3>3, <4>1, <4>2, <4>3, <4>4 DEF TypeOK, StartJob, GoTo
      <4>5. CASE record[wjob[w]] # "queued"
        BY <3>3, <4>1, <4>2, <4>3, <4>5 DEF TypeOK, StartJob, NextTurn
      <4>6. QED
        BY <4>4, <4>5
    <3>4. CASE StartJobError(w)
      BY <3>4 DEF TypeOK, StartJobError, ThreadDies
    <3>5. CASE Generate(w)
      BY <3>5 DEF TypeOK, Generate, GoTo
    <3>6. CASE Finish(w)
      <4>1. wjob[w] \in Job /\ wjob[w] # None
        BY <3>6 DEF TypeOK, Finish
      <4>2. record' \in [Job -> Status]
        BY <3>6, <4>1, TransitionEffect DEF Finish
      <4>3. CASE record[wjob[w]] = "running"
        BY <3>6, <4>1, <4>2, <4>3 DEF TypeOK, Finish, NextTurn
      <4>4. CASE record[wjob[w]] # "running"
        BY <3>6, <4>1, <4>2, <4>4 DEF TypeOK, Finish, GoTo
      <4>5. QED
        BY <4>3, <4>4
    <3>7. CASE FinishError(w)
      BY <3>7 DEF TypeOK, FinishError, GoTo
    <3>8. CASE Superseded(w)
      BY <3>8 DEF TypeOK, Superseded, GoTo
    <3>9. CASE RemoveOutput(w)
      BY <3>9 DEF TypeOK, RemoveOutput, GoTo
    <3>10. CASE Confirm(w)
      <4>1. wjob[w] \in Job /\ wjob[w] # None
        BY <3>10 DEF TypeOK, Confirm
      <4>2. record' \in [Job -> Status]
        BY <3>10, <4>1, TransitionEffect DEF Confirm
      <4>3. QED
        BY <3>10, <4>1, <4>2 DEF TypeOK, Confirm, NextTurn
    <3>11. CASE ConfirmError(w)
      BY <3>11 DEF TypeOK, ConfirmError, GoTo
    <3>12. CASE HandleError(w)
      <4>1. wjob[w] \in Job /\ wjob[w] # None
        BY <3>12 DEF TypeOK, HandleError
      <4>2. record' \in [Job -> Status]
        BY <3>12, <4>1, TransitionEffect DEF HandleError
      <4>3. CASE record[wjob[w]] = "cancellation_requested"
        BY <3>12, <4>1, <4>2, <4>3 DEF TypeOK, HandleError, NextTurn
      <4>4. CASE record[wjob[w]] # "cancellation_requested"
        BY <3>12, <4>1, <4>2, <4>4 DEF TypeOK, HandleError, GoTo
      <4>5. QED
        BY <4>3, <4>4
    <3>13. CASE RecordFailure(w)
      <4>1. wjob[w] \in Job /\ wjob[w] # None
        BY <3>13 DEF TypeOK, RecordFailure
      <4>2. record' \in [Job -> Status]
        BY <3>13, <4>1, TransitionEffect DEF RecordFailure
      <4>3. QED
        BY <3>13, <4>1, <4>2 DEF TypeOK, RecordFailure, NextTurn
    <3>14. CASE RecordFailureError(w)
      BY <3>14 DEF TypeOK, RecordFailureError, ThreadDies
    <3>15. QED
      BY <2>6, <3>1, <3>2, <3>3, <3>4, <3>5, <3>6, <3>7, <3>8, <3>9, <3>10,
         <3>11, <3>12, <3>13, <3>14 DEF WorkerStep
  <2>7. ASSUME NEW h \in Handler, Request(h) \/ HandlerStep(h)
        PROVE  TypeOK'
    <3>1. CASE Submit(h)
      BY <3>1, NoneAssumption DEF TypeOK, Submit, WriteQueued, HandlerTo
    <3>2. CASE Retry(h)
      <4>1. PICK previous \in Job : HandlerTo(h, "retry", previous)
        BY <3>2 DEF Retry
      <4>2. "retry" \in HandlerPC /\ previous # None
        BY NoneAssumption DEF HandlerPC
      <4>3. QED
        BY <3>2, <4>1, <4>2 DEF TypeOK, Retry, HandlerTo
    <3>3. CASE Cancel(h)
      BY <3>3, NoneAssumption DEF TypeOK, Cancel, HandlerTo
    <3>4. CASE PutQueued(h)
      <4>1. hjob[h] \in Job /\ hjob[h] # None
        BY <3>4 DEF TypeOK, PutQueued
      <4>2. CASE Len(queue) < QueueMax
        <5>1. Append(queue, hjob[h]) \in Seq(Job)
          BY <4>1 DEF TypeOK
        <5>2. QED
          BY <3>4, <4>1, <4>2, <5>1 DEF TypeOK, PutQueued, Done, HandlerTo
      <4>3. CASE ~(Len(queue) < QueueMax)
        BY <3>4, <4>1, <4>3 DEF TypeOK, PutQueued, HandlerTo
      <4>4. QED
        BY <4>2, <4>3
    <3>5. CASE WriteRefused(h)
      BY <3>5 DEF TypeOK, WriteRefused, Done, HandlerTo
    <3>6. CASE WriteRefusedError(h)
      BY <3>6 DEF TypeOK, WriteRefusedError, Done, HandlerTo
    <3>7. CASE ReadForCancel(h)
      <4>1. hjob[h] \in Job /\ hjob[h] # None
        BY <3>7 DEF TypeOK, ReadForCancel
      <4>2. PICK pc \in HandlerPC, j \in Job \cup {None} :
              HandlerTo(h, pc, j) /\ (pc = "idle" <=> j = None)
        BY <3>7, <4>1 DEF ReadForCancel, Done
      <4>3. QED
        BY <3>7, <4>2 DEF TypeOK, ReadForCancel, HandlerTo
    <3>8. CASE CancelQueued(h)
      <4>1. hjob[h] \in Job /\ hjob[h] # None
        BY <3>8 DEF TypeOK, CancelQueued
      <4>2. record' \in [Job -> Status]
        BY <3>8, <4>1, TransitionEffect DEF CancelQueued
      <4>3. CASE record[hjob[h]] = "queued"
        <5>1. HandlerTo(h, "idle", None) /\ "idle" \in HandlerPC
          BY <3>8, <4>3 DEF CancelQueued, Done, HandlerPC
        <5>2. QED
          BY <3>8, <4>1, <4>2, <5>1 DEF TypeOK, CancelQueued, HandlerTo
      <4>4. CASE record[hjob[h]] # "queued"
        BY <3>8, <4>1, <4>2, <4>4 DEF TypeOK, CancelQueued, HandlerTo
      <4>5. QED
        BY <4>3, <4>4
    <3>9. CASE CancelRunning(h)
      <4>1. hjob[h] \in Job /\ hjob[h] # None
        BY <3>9 DEF TypeOK, CancelRunning
      <4>2. record' \in [Job -> Status]
        BY <3>9, <4>1, TransitionEffect DEF CancelRunning
      <4>3. CASE record[hjob[h]] = "running"
        <5>1. HandlerTo(h, "idle", None) /\ "idle" \in HandlerPC
          BY <3>9, <4>3 DEF CancelRunning, Done, HandlerPC
        <5>2. QED
          BY <3>9, <4>1, <4>2, <5>1 DEF TypeOK, CancelRunning, HandlerTo
      <4>4. CASE record[hjob[h]] # "running"
        BY <3>9, <4>1, <4>2, <4>4 DEF TypeOK, CancelRunning, HandlerTo
      <4>5. QED
        BY <4>3, <4>4
    <3>10. CASE SubmitRetry(h)
      <4>1. hjob[h] \in Job /\ hjob[h] # None
        BY <3>10 DEF TypeOK, SubmitRetry
      <4>2. CASE \E j \in Job : WriteQueued(h, j) /\ parent' = [parent EXCEPT ![j] = hjob[h]]
        BY <3>10, <4>1, <4>2, NoneAssumption DEF TypeOK, SubmitRetry, WriteQueued, HandlerTo
      <4>3. CASE Done(h) /\ UNCHANGED <<record, parent>>
        BY <3>10, <4>3 DEF TypeOK, SubmitRetry, Done, HandlerTo
      <4>4. QED
        BY <3>10, <4>2, <4>3 DEF SubmitRetry
    <3>11. QED
      BY <2>7, <3>1, <3>2, <3>3, <3>4, <3>5, <3>6, <3>7, <3>8, <3>9, <3>10
         DEF Request, HandlerStep
  <2>8. CASE UNCHANGED vars
    BY <2>8 DEF TypeOK, vars
  <2>9. QED
    BY <2>1, <2>3, <2>4, <2>5, <2>6, <2>7, <2>8 DEF Next, Main
<1>3. QED
  BY <1>1, <1>2, PTL DEF Spec

(***************************************************************************)
(* Safety: IInv and what follows from it.                                  *)
(***************************************************************************)
aside == <<parent, phase, queue, backlog, hpc, hjob, refused>>

(* The worker sets its job running.                                        *)
Began(w) ==
  /\ wpc[w] = "got" /\ record[wjob[w]] = "queued"
  /\ record' = [record EXCEPT ![wjob[w]] = "running"]
  /\ runs' = [runs EXCEPT ![wjob[w]] = @ + 1]
  /\ wpc' = [wpc EXCEPT ![w] = "generate"]
  /\ UNCHANGED <<wjob, abandoned, aside>>

(* The worker leaves a job it has not started, or has none.                *)
Dropped(w) ==
  /\ wpc[w] \in {"idle", "got"}
  /\ \E pc \in {"off", "idle"} : wpc' = [wpc EXCEPT ![w] = pc]
  /\ wjob' = [wjob EXCEPT ![w] = None]
  /\ \/ wpc[w] = "idle" \/ phase = "draining"
     \/ record[wjob[w]] # "queued" \/ wjob[w] \in abandoned'
  /\ abandoned \subseteq abandoned'
  /\ UNCHANGED <<record, runs, aside>>

(* The worker goes on with the job it executes.                            *)
Stayed(w) ==
  /\ wpc[w] \in Executing
  /\ \E pc \in Executing :
       /\ wpc' = [wpc EXCEPT ![w] = pc]
       /\ pc \in {"superseded", "remove", "confirm"} =>
            record[wjob[w]] = "cancellation_requested"
  /\ UNCHANGED <<wjob, record, runs, abandoned, aside>>

Settlements == {<<"running", "succeeded">>, <<"running", "failed">>,
                <<"cancellation_requested", "cancelled">>}

(* The worker is done with the job it executed.                            *)
Left(w) ==
  /\ wpc[w] \in Executing
  /\ \E pc \in {"off", "idle"} : wpc' = [wpc EXCEPT ![w] = pc]
  /\ wjob' = [wjob EXCEPT ![w] = None]
  /\ \/ record' = record /\ (record[wjob[w]] # "running" \/ wjob[w] \in abandoned')
     \/ \E s \in Terminal : /\ <<record[wjob[w]], s>> \in Settlements
                            /\ record' = [record EXCEPT ![wjob[w]] = s]
  /\ abandoned \subseteq abandoned'
  /\ UNCHANGED <<runs, aside>>

LEMMA WorkerShapes ==
  ASSUME TypeOK, ExecutionOnRecord, NEW w \in Worker, WorkerStep(w)
  PROVE  Take(w) \/ Began(w) \/ Dropped(w) \/ Stayed(w) \/ Left(w)
<1> USE DEF aside, durable, workers, handlers, history
<1>1. \A pc \in {"generate", "finish", "superseded", "remove", "confirm", "except", "fail"} :
        pc \in Executing
  BY DEF Executing
<1>2. wpc[w] \in WorkerPC /\ (wpc[w] \notin {"off", "idle"} => wjob[w] \in Job)
  BY DEF TypeOK
<1>3. wpc[w] \in Executing =>
        /\ record[wjob[w]] \in {"running", "cancellation_requested"}
        /\ wpc[w] \in {"superseded", "remove", "confirm"} =>
             record[wjob[w]] = "cancellation_requested"
  BY DEF ExecutionOnRecord
<1>4. NextTurn(w) => /\ \E pc \in {"off", "idle"} : wpc' = [wpc EXCEPT ![w] = pc]
                     /\ wjob' = [wjob EXCEPT ![w] = None]
  <2>1. CASE phase = "draining"
    BY <2>1 DEF NextTurn
  <2>2. CASE phase # "draining"
    BY <2>2 DEF NextTurn
  <2>3. QED
    BY <2>1, <2>2
<1>5. CASE Quit(w)
  BY <1>4, <1>5 DEF Quit, Dropped
<1>6. CASE StartJob(w)
  <2>1. CASE record[wjob[w]] = "queued"
    <3>1. record' = [record EXCEPT ![wjob[w]] = "running"]
      BY <1>2, <1>6, <2>1, TransitionEffect, Names DEF StartJob
    <3>2. QED
      BY <1>6, <2>1, <3>1 DEF StartJob, Began, GoTo
  <2>2. CASE record[wjob[w]] # "queued"
    <3>1. record' = record
      BY <1>2, <1>6, <2>2, TransitionEffect, Names DEF StartJob
    <3>2. QED
      BY <1>4, <1>6, <2>2, <3>1 DEF StartJob, Dropped
  <2>3. QED
    BY <2>1, <2>2
<1>7. CASE StartJobError(w)
  BY <1>7 DEF StartJobError, ThreadDies, Dropped
<1>8. CASE Generate(w) \/ FinishError(w) \/ Superseded(w) \/ RemoveOutput(w) \/ ConfirmError(w)
  <2>1. ASSUME NEW pc \in {"finish", "remove", "confirm", "except"}, GoTo(w, pc),
               pc \in {"remove", "confirm"} => record[wjob[w]] = "cancellation_requested"
        PROVE  \E p \in Executing :
                 /\ wpc' = [wpc EXCEPT ![w] = p]
                 /\ p \in {"superseded", "remove", "confirm"} =>
                      record[wjob[w]] = "cancellation_requested"
    BY <1>1, <2>1 DEF GoTo
  <2>2. CASE Generate(w) \/ FinishError(w) \/ ConfirmError(w)
    <3>1. GoTo(w, "finish") \/ GoTo(w, "except")
      BY <2>2 DEF Generate, FinishError, ConfirmError
    <3>2. QED
      BY <1>1, <2>1, <2>2, <3>1 DEF Generate, FinishError, ConfirmError, Stayed, GoTo
  <2>3. CASE Superseded(w)
    BY <1>1, <1>3, <2>1, <2>3 DEF Superseded, Stayed, GoTo
  <2>4. CASE RemoveOutput(w)
    BY <1>1, <1>3, <2>1, <2>4 DEF RemoveOutput, Stayed, GoTo
  <2>5. QED
    BY <1>8, <2>2, <2>3, <2>4
<1>9. CASE Finish(w)
  <2>1. CASE record[wjob[w]] = "running"
    <3>1. record' = [record EXCEPT ![wjob[w]] = "succeeded"]
      BY <1>2, <1>9, <2>1, TransitionEffect, Names DEF Finish
    <3>2. QED
      BY <1>1, <1>4, <1>9, <2>1, <3>1 DEF Finish, Left, Settlements, Terminal
  <2>2. CASE record[wjob[w]] # "running"
    <3>1. record' = record
      BY <1>2, <1>9, <2>2, TransitionEffect, Names DEF Finish
    <3>2. QED
      BY <1>1, <1>3, <1>9, <2>2, <3>1 DEF Finish, Stayed, GoTo
  <2>3. QED
    BY <2>1, <2>2
<1>10. CASE Confirm(w)
  <2>1. CASE record[wjob[w]] = "cancellation_requested"
    <3>1. record' = [record EXCEPT ![wjob[w]] = "cancelled"]
      BY <1>2, <1>10, <2>1, TransitionEffect, Names DEF Confirm
    <3>2. QED
      BY <1>1, <1>4, <1>10, <2>1, <3>1 DEF Confirm, Left, Settlements, Terminal
  <2>2. QED
    BY <1>1, <1>3, <1>10, <2>1 DEF Confirm
<1>11. CASE HandleError(w)
  <2>1. CASE record[wjob[w]] = "cancellation_requested"
    <3>1. record' = [record EXCEPT ![wjob[w]] = "cancelled"]
      BY <1>2, <1>11, <2>1, TransitionEffect, Names DEF HandleError
    <3>2. QED
      BY <1>1, <1>4, <1>11, <2>1, <3>1 DEF HandleError, Left, Settlements, Terminal
  <2>2. CASE record[wjob[w]] # "cancellation_requested"
    <3>1. record' = record
      BY <1>2, <1>11, <2>2, TransitionEffect, Names DEF HandleError
    <3>2. QED
      BY <1>1, <1>11, <2>2, <3>1 DEF HandleError, Stayed, GoTo
  <2>3. QED
    BY <2>1, <2>2
<1>12. CASE RecordFailure(w)
  <2>1. CASE record[wjob[w]] = "running"
    <3>1. record' = [record EXCEPT ![wjob[w]] = "failed"]
      BY <1>2, <1>12, <2>1, TransitionEffect, Names DEF RecordFailure
    <3>2. QED
      BY <1>1, <1>4, <1>12, <2>1, <3>1 DEF RecordFailure, Left, Settlements, Terminal
  <2>2. CASE record[wjob[w]] # "running"
    <3>1. record' = record
      BY <1>2, <1>12, <2>2, TransitionEffect, Names DEF RecordFailure
    <3>2. QED
      BY <1>1, <1>4, <1>12, <2>2, <3>1 DEF RecordFailure, Left
  <2>3. QED
    BY <2>1, <2>2
<1>13. CASE RecordFailureError(w)
  BY <1>1, <1>13 DEF RecordFailureError, ThreadDies, Left
<1>14. QED
  BY <1>5, <1>6, <1>7, <1>8, <1>9, <1>10, <1>11, <1>12, <1>13 DEF WorkerStep
-----------------------------------------------------------------------------
others == <<phase, queue, backlog, wpc, wjob, runs, abandoned>>

(* The handler writes the record of a new job, perhaps a retry.            *)
Offers(h) ==
  /\ hpc[h] \in {"idle", "retry"} /\ phase # "down"
  /\ \E j \in Job :
       /\ record[j] = "absent"
       /\ record' = [record EXCEPT ![j] = "queued"]
       /\ HandlerTo(h, "put", j)
       /\ \/ parent' = parent
          \/ hpc[h] = "retry" /\ parent' = [parent EXCEPT ![j] = hjob[h]]
  /\ UNCHANGED <<others, refused>>

(* The handler is no longer, or not at all, busy with a new job; it may    *)
(* have cancelled a job or asked for that.                                 *)
Cancels(h) ==
  /\ hpc[h] \notin Offering /\ phase # "down"
  /\ \E pc \in HandlerPC \ Offering, j \in Job \cup {None} : HandlerTo(h, pc, j)
  /\ \/ record' = record
     \/ \E j \in Job :
          \/ record[j] = "queued" /\ record' = [record EXCEPT ![j] = "cancelled"]
          \/ record[j] = "running" /\ record' = [record EXCEPT ![j] = "cancellation_requested"]
  /\ UNCHANGED <<others, parent, refused>>

LEMMA HandlerShapes ==
  ASSUME TypeOK, DownIsEmpty, NEW h \in Handler, Request(h) \/ HandlerStep(h)
  PROVE  \/ Offers(h) \/ Cancels(h)
         \/ PutQueued(h) \/ WriteRefused(h) \/ WriteRefusedError(h)
<1> USE DEF others, durable, workers, handlers, history
<1>1. \A pc \in {"idle", "retry", "cancel", "cancelQueued", "cancelRunning"} :
        pc \in HandlerPC \ Offering
  BY DEF HandlerPC, Offering
<1>2. hpc[h] # "idle" => hjob[h] \in Job /\ phase # "down"
  BY DEF TypeOK, DownIsEmpty
<1>3. ASSUME NEW pc \in {"idle", "retry", "cancel", "cancelQueued", "cancelRunning"},
             NEW j \in Job \cup {None}, HandlerTo(h, pc, j)
      PROVE  \E p \in HandlerPC \ Offering, k \in Job \cup {None} : HandlerTo(h, p, k)
  BY <1>1, <1>3
<1>4. Done(h) => HandlerTo(h, "idle", None)
  BY DEF Done
<1>5. CASE Submit(h)
  BY <1>5 DEF Submit, WriteQueued, Answering, Offers
<1>6. CASE Retry(h)
  BY <1>1, <1>3, <1>6 DEF Retry, Answering, Cancels
<1>7. CASE Cancel(h)
  BY <1>1, <1>3, <1>7 DEF Cancel, Answering, Cancels
<1>8. CASE ReadForCancel(h)
  <2>1. \E pc \in {"idle", "cancelQueued", "cancelRunning"}, j \in Job \cup {None} :
          HandlerTo(h, pc, j)
    BY <1>2, <1>4, <1>8 DEF ReadForCancel
  <2>2. QED
    BY <1>1, <1>2, <1>3, <1>8, <2>1 DEF ReadForCancel, Cancels
<1>9. CASE CancelQueued(h)
  <2>1. CASE record[hjob[h]] = "queued"
    <3>1. record' = [record EXCEPT ![hjob[h]] = "cancelled"]
      BY <1>2, <1>9, <2>1, TransitionEffect, Names DEF CancelQueued
    <3>2. QED
      BY <1>1, <1>2, <1>3, <1>4, <1>9, <2>1, <3>1 DEF CancelQueued, Cancels
  <2>2. CASE record[hjob[h]] # "queued"
    <3>1. record' = record
      BY <1>2, <1>9, <2>2, TransitionEffect, Names DEF CancelQueued
    <3>2. QED
      BY <1>1, <1>2, <1>3, <1>9, <2>2, <3>1 DEF CancelQueued, Cancels
  <2>3. QED
    BY <2>1, <2>2
<1>10. CASE CancelRunning(h)
  <2>1. CASE record[hjob[h]] = "running"
    <3>1. record' = [record EXCEPT ![hjob[h]] = "cancellation_requested"]
      BY <1>2, <1>10, <2>1, TransitionEffect, Names DEF CancelRunning
    <3>2. QED
      BY <1>1, <1>2, <1>3, <1>4, <1>10, <2>1, <3>1 DEF CancelRunning, Cancels
  <2>2. CASE record[hjob[h]] # "running"
    <3>1. record' = record
      BY <1>2, <1>10, <2>2, TransitionEffect, Names DEF CancelRunning
    <3>2. QED
      BY <1>1, <1>2, <1>3, <1>10, <2>2, <3>1 DEF CancelRunning, Cancels
  <2>3. QED
    BY <2>1, <2>2
<1>11. CASE SubmitRetry(h)
  <2>1. CASE \E j \in Job : WriteQueued(h, j) /\ parent' = [parent EXCEPT ![j] = hjob[h]]
    BY <1>2, <1>11, <2>1 DEF SubmitRetry, WriteQueued, Offers
  <2>2. CASE Done(h) /\ UNCHANGED <<record, parent>>
    BY <1>1, <1>2, <1>3, <1>4, <1>11, <2>2 DEF SubmitRetry, Cancels
  <2>3. QED
    BY <1>11, <2>1, <2>2 DEF SubmitRetry
<1>12. QED
  BY <1>5, <1>6, <1>7, <1>8, <1>9, <1>10, <1>11 DEF Request, HandlerStep
-----------------------------------------------------------------------------
(* A record that is running is in some worker's hands; that the worker is  *)
(* the only one is said by ExecutionOnRecord.                              *)
Attended ==
  phase # "down" => \A j \in Job : record[j] = "running" => j \in abandoned \/ Held(j)

LEMMA HeldOnce ==
  ASSUME ExecutionOnRecord
  PROVE  RunningIsHeld <=> Attended
<1>1. RunningIsHeld => Attended
  BY DEF RunningIsHeld, Attended, Held
<1>2. ASSUME Attended, NEW j \in Job, record[j] = "running", phase # "down", j \notin abandoned
      PROVE  \E w \in Worker : {v \in Worker : wpc[v] \in Executing /\ wjob[v] = j} = {w}
  <2>1. PICK w \in Worker : wpc[w] \in Executing /\ wjob[w] = j
    BY <1>2 DEF Attended, Held
  <2>2. \A v \in Worker : wpc[v] \in Executing /\ wjob[v] = j => v = w
    BY <2>1 DEF ExecutionOnRecord
  <2>3. {v \in Worker : wpc[v] \in Executing /\ wjob[v] = j} = {w}
    BY <2>1, <2>2
  <2>4. QED
    BY <2>3
<1>3. QED
  BY <1>1, <1>2 DEF RunningIsHeld

(* What is proved of a step: the parts of IInv beside the type invariant   *)
(* and what it says of retries.                                            *)
Parts ==
  /\ DownIsEmpty /\ RunsCounted /\ WorkIsKnown /\ OfferIsPrivate
  /\ ExecutionOnRecord /\ Attended /\ RefusedNeverRuns

LEMMA QueueAfter ==
  ASSUME TypeOK, NEW j \in Job
  PROVE  /\ queue' = Append(queue, j) => InQueue' = InQueue \cup {j}
         /\ queue # <<>> => Head(queue) \in InQueue
         /\ queue # <<>> /\ queue' = Tail(queue) => InQueue' \subseteq InQueue
<1>1. queue \in Seq(Job)
  BY DEF TypeOK
<1>2. ASSUME queue' = Append(queue, j) PROVE InQueue' = InQueue \cup {j}
  <2>1. DOMAIN queue' = 1 .. Len(queue) + 1 /\ DOMAIN queue = 1 .. Len(queue)
    BY <1>1, <1>2
  <2>2. Len(queue) \in Nat /\ queue'[Len(queue) + 1] = j
    BY <1>1, <1>2
  <2>3. \A i \in 1 .. Len(queue) : queue'[i] = queue[i]
    BY <1>1, <1>2
  <2>4. \A i : i \in 1 .. Len(queue) + 1 <=> i \in 1 .. Len(queue) \/ i = Len(queue) + 1
    BY <2>2
  <2>5. QED
    BY <2>1, <2>2, <2>3, <2>4 DEF InQueue
<1>3. ASSUME queue # <<>> PROVE Head(queue) \in InQueue
  <2>1. 1 \in DOMAIN queue /\ Head(queue) = queue[1]
    BY <1>1, <1>3
  <2>2. QED
    BY <2>1 DEF InQueue
<1>4. ASSUME queue # <<>>, queue' = Tail(queue) PROVE InQueue' \subseteq InQueue
  <2>1. \A i \in DOMAIN queue' : i + 1 \in DOMAIN queue /\ queue'[i] = queue[i + 1]
    BY <1>1, <1>4
  <2>2. QED
    BY <2>1 DEF InQueue
<1>5. QED
  BY <1>2, <1>3, <1>4

LEMMA BeganKeeps ==
  ASSUME TypeOK, TypeOK', Parts, NEW w \in Worker, Began(w)
  PROVE  Parts'
<1> USE DEF aside
<1>1. wjob[w] \in Job /\ record[wjob[w]] = "queued" /\ runs[wjob[w]] = 0 /\ wpc[w] = "got"
  BY DEF TypeOK, Parts, RunsCounted, Began
<1>2. /\ record'[wjob[w]] = "running" /\ runs'[wjob[w]] = 1
      /\ \A j \in Job : j # wjob[w] => record'[j] = record[j] /\ runs'[j] = runs[j]
      /\ wpc'[w] = "generate" /\ \A v \in Worker : v # w => wpc'[v] = wpc[v]
  BY <1>1 DEF TypeOK, Began
<1>3. "generate" \in Executing /\ wpc[w] \notin Executing
  BY <1>1 DEF Executing
<1>4. DownIsEmpty'
  BY <1>1 DEF DownIsEmpty, Parts, Began
<1>5. RunsCounted'
  BY <1>1, <1>2 DEF RunsCounted, Parts
<1>6. WorkIsKnown'
  BY <1>1, <1>2 DEF WorkIsKnown, AtWork, InQueue, Parts, Began
<1>7. OfferIsPrivate'
  <2>1. \A h \in Handler : hpc[h] \in Offering => hjob[h] # wjob[w]
    BY DEF OfferIsPrivate, AtWork, Parts
  <2>2. \A h \in Handler : hpc[h] \in Offering => hjob[h] \in Job
    BY DEF TypeOK, Offering
  <2>3. \A j : AtWork(j)' <=> AtWork(j)
    BY DEF AtWork, InQueue, Began
  <2>4. QED
    BY <1>2, <2>1, <2>2, <2>3 DEF OfferIsPrivate, Parts, Began
<1>8. ExecutionOnRecord'
  <2>1. \A v \in Worker : wpc[v] \in Executing => wjob[v] \in Job
    BY DEF TypeOK, Executing
  <2>2. \A v \in Worker : wpc[v] \in Executing => wjob[v] # wjob[w]
    BY <1>1 DEF ExecutionOnRecord, Parts
  <2>3. QED
    BY <1>1, <1>2, <1>3, <2>1, <2>2 DEF ExecutionOnRecord, Parts, Began
<1>9. Attended'
  BY <1>1, <1>2, <1>3 DEF Attended, Held, Parts, Began
<1>10. RefusedNeverRuns'
  BY <1>1, <1>2 DEF RefusedNeverRuns, Parts, Began, TypeOK
<1>12. QED
  BY <1>4, <1>5, <1>6, <1>7, <1>8, <1>9, <1>10 DEF Parts

LEMMA DroppedKeeps ==
  ASSUME TypeOK, TypeOK', Parts, NEW w \in Worker, Dropped(w)
  PROVE  Parts'
<1> USE DEF aside
<1>1. /\ wpc'[w] \in {"off", "idle"} /\ wpc[w] \in {"idle", "got"}
      /\ \A v \in Worker : v # w => wpc'[v] = wpc[v] /\ wjob'[v] = wjob[v]
      /\ wjob'[w] = None
  BY DEF TypeOK, Dropped
<1>2. wpc'[w] \notin Executing /\ wpc[w] \notin Executing
  BY <1>1 DEF Executing
<1>3. \A j \in Job : AtWork(j)' => AtWork(j)
  BY <1>1, NoneAssumption DEF AtWork, InQueue, Dropped
<1>4. DownIsEmpty'
  BY <1>1 DEF DownIsEmpty, Parts, Dropped
<1>5. RunsCounted'
  BY DEF RunsCounted, Parts, Dropped
<1>6. WorkIsKnown'
  BY <1>3 DEF WorkIsKnown, Parts, Dropped
<1>7. OfferIsPrivate'
  <2>1. \A h \in Handler : hpc[h] \in Offering => hjob[h] \in Job
    BY DEF TypeOK, Offering
  <2>2. QED
    BY <1>3, <2>1 DEF OfferIsPrivate, Parts, Dropped
<1>8. ExecutionOnRecord'
  BY <1>1, <1>2 DEF ExecutionOnRecord, Parts, Dropped
<1>9. Attended'
  BY <1>1, <1>2 DEF Attended, Held, Parts, Dropped
<1>10. RefusedNeverRuns'
  BY DEF RefusedNeverRuns, Parts, Dropped
<1>12. QED
  BY <1>4, <1>5, <1>6, <1>7, <1>8, <1>9, <1>10 DEF Parts

LEMMA StayedKeeps ==
  ASSUME TypeOK, TypeOK', Parts, NEW w \in Worker, Stayed(w)
  PROVE  Parts'
<1> USE DEF aside
<1>1. PICK pc \in Executing :
        /\ wpc' = [wpc EXCEPT ![w] = pc]
        /\ pc \in {"superseded", "remove", "confirm"} =>
             record[wjob[w]] = "cancellation_requested"
  BY DEF Stayed
<1>2. /\ wpc'[w] = pc /\ wpc[w] \in Executing /\ wpc[w] # "off"
      /\ \A v \in Worker : v # w => wpc'[v] = wpc[v]
  BY <1>1 DEF TypeOK, Stayed, Executing
<1>3. DownIsEmpty'
  BY <1>2 DEF DownIsEmpty, Parts, Stayed
<1>4. RunsCounted' /\ WorkIsKnown' /\ RefusedNeverRuns'
  BY DEF RunsCounted, WorkIsKnown, RefusedNeverRuns, AtWork, InQueue,
         Parts, Stayed
<1>5. OfferIsPrivate'
  BY DEF OfferIsPrivate, AtWork, InQueue, Parts, Stayed
<1>6. ExecutionOnRecord'
  BY <1>1, <1>2 DEF ExecutionOnRecord, Parts, Stayed
<1>7. Attended'
  BY <1>2 DEF Attended, Held, Parts, Stayed
<1>8. QED
  BY <1>3, <1>4, <1>5, <1>6, <1>7 DEF Parts

LEMMA LeftKeeps ==
  ASSUME TypeOK, TypeOK', Parts, NEW w \in Worker, Left(w)
  PROVE  Parts'
<1> USE DEF aside
<1>1. /\ wpc'[w] \in {"off", "idle"} /\ wpc[w] \in Executing
      /\ \A v \in Worker : v # w => wpc'[v] = wpc[v] /\ wjob'[v] = wjob[v]
      /\ wjob'[w] = None
  BY DEF TypeOK, Left
<1>2. wpc'[w] \notin Executing /\ wpc[w] # "off"
  BY <1>1 DEF Executing
<1>3. wjob[w] \in Job /\ record[wjob[w]] \in {"running", "cancellation_requested"}
  <2>1. wpc[w] \notin {"off", "idle"}
    BY <1>1 DEF Executing
  <2>2. wjob[w] \in Job
    BY <2>1 DEF TypeOK
  <2>3. QED
    BY <1>1, <2>2 DEF ExecutionOnRecord, Parts
<1>4. /\ \A j \in Job : j # wjob[w] => record'[j] = record[j]
      /\ \/ record'[wjob[w]] \in Terminal
         \/ /\ record'[wjob[w]] = record[wjob[w]]
            /\ record[wjob[w]] # "running" \/ wjob[w] \in abandoned'
  BY <1>3 DEF TypeOK, Left
<1>5. /\ record'[wjob[w]] \notin {"absent", "queued"}
      /\ record'[wjob[w]] = "running" => wjob[w] \in abandoned'
  BY <1>3, <1>4 DEF Terminal
<1>6. \A j \in Job : AtWork(j)' => AtWork(j)
  BY <1>1, NoneAssumption DEF AtWork, InQueue, Left
<1>7. DownIsEmpty'
  BY <1>1, <1>2 DEF DownIsEmpty, Parts, Left
<1>8. RunsCounted'
  BY <1>4, <1>5 DEF RunsCounted, Parts, Left
<1>9. WorkIsKnown'
  BY <1>4, <1>5, <1>6 DEF WorkIsKnown, Parts
<1>10. OfferIsPrivate'
  <2>1. \A h \in Handler : hpc[h] \in Offering => hjob[h] \in Job
    BY DEF TypeOK, Offering
  <2>2. \A h \in Handler : hpc[h] \in Offering => hjob[h] # wjob[w]
    BY DEF OfferIsPrivate, AtWork, Parts
  <2>3. QED
    BY <1>4, <1>6, <2>1, <2>2 DEF OfferIsPrivate, Parts, Left
<1>11. ExecutionOnRecord'
  <2>1. \A v \in Worker : wpc[v] \in Executing /\ v # w => wjob[v] # wjob[w] /\ wjob[v] \in Job
    BY <1>1 DEF ExecutionOnRecord, Parts, TypeOK, Executing
  <2>2. QED
    BY <1>1, <1>2, <1>4, <2>1 DEF ExecutionOnRecord, Parts
<1>12. Attended'
  BY <1>1, <1>2, <1>4, <1>5 DEF Attended, Held, Parts, Left
<1>13. RefusedNeverRuns'
  BY <1>3, <1>4 DEF RefusedNeverRuns, Parts, Left, TypeOK
<1>15. QED
  BY <1>7, <1>8, <1>9, <1>10, <1>11, <1>12, <1>13 DEF Parts
LEMMA TakeKeeps ==
  ASSUME TypeOK, TypeOK', Parts, NEW w \in Worker, Take(w)
  PROVE  Parts'
<1> USE DEF durable, handlers, history
<1>1. Head(queue) \in Job /\ Head(queue) \in InQueue /\ InQueue' \subseteq InQueue
  <2>1. Head(queue) \in Job
    BY DEF TypeOK, Take
  <2>2. QED
    BY <2>1, QueueAfter DEF Take
<1>2. /\ wpc'[w] = "got" /\ wpc[w] = "idle" /\ wjob'[w] = Head(queue)
      /\ \A v \in Worker : v # w => wpc'[v] = wpc[v] /\ wjob'[v] = wjob[v]
  BY DEF TypeOK, Take
<1>3. "got" \notin Executing /\ "idle" \notin Executing
  BY DEF Executing
<1>4. \A j \in Job : AtWork(j)' => AtWork(j)
  BY <1>1, <1>2 DEF AtWork, Take
<1>5. DownIsEmpty'
  BY <1>2 DEF DownIsEmpty, Parts, Take
<1>6. RunsCounted' /\ RefusedNeverRuns'
  BY DEF RunsCounted, RefusedNeverRuns, Parts, Take
<1>7. WorkIsKnown'
  BY <1>4 DEF WorkIsKnown, Parts, Take
<1>8. OfferIsPrivate'
  <2>1. \A h \in Handler : hpc[h] \in Offering => hjob[h] \in Job
    BY DEF TypeOK, Offering
  <2>2. QED
    BY <1>4, <2>1 DEF OfferIsPrivate, Parts, Take
<1>9. ExecutionOnRecord'
  BY <1>2, <1>3 DEF ExecutionOnRecord, Parts, Take
<1>10. Attended'
  BY <1>2, <1>3 DEF Attended, Held, Parts, Take
<1>11. QED
  BY <1>5, <1>6, <1>7, <1>8, <1>9, <1>10 DEF Parts

LEMMA WorkerKeeps ==
  ASSUME TypeOK, TypeOK', Parts, NEW w \in Worker, WorkerStep(w)
  PROVE  Parts'
BY WorkerShapes, TakeKeeps, BeganKeeps, DroppedKeeps, StayedKeeps, LeftKeeps DEF Parts

-----------------------------------------------------------------------------
LEMMA OffersKeeps ==
  ASSUME TypeOK, TypeOK', Parts, NEW h \in Handler, Offers(h)
  PROVE  Parts'
<1> USE DEF others
<1>1. PICK j \in Job :
        /\ record[j] = "absent"
        /\ record' = [record EXCEPT ![j] = "queued"]
        /\ HandlerTo(h, "put", j)
  BY DEF Offers
<1>2. /\ record'[j] = "queued"
      /\ \A k \in Job : k # j => record'[k] = record[k]
      /\ hpc'[h] = "put" /\ hjob'[h] = j
      /\ \A g \in Handler : g # h => hpc'[g] = hpc[g] /\ hjob'[g] = hjob[g]
  BY <1>1 DEF TypeOK, HandlerTo
<1>3. \A k : AtWork(k)' <=> AtWork(k)
  BY DEF AtWork, InQueue, Offers
<1>4. ~AtWork(j) /\ runs[j] = 0
  BY <1>1 DEF WorkIsKnown, RunsCounted, Parts
<1>5. \A g \in Handler : hpc[g] \in Offering => hjob[g] \in Job /\ hjob[g] # j
  <2>1. \A g \in Handler : hpc[g] \in Offering => hjob[g] \in Job
    BY DEF TypeOK, Offering
  <2>2. QED
    BY <1>1, <2>1 DEF OfferIsPrivate, Parts
<1>6. DownIsEmpty'
  BY DEF DownIsEmpty, Parts, Offers
<1>7. RunsCounted' /\ WorkIsKnown'
  BY <1>2, <1>3, <1>4 DEF RunsCounted, WorkIsKnown, Parts, Offers
<1>8. OfferIsPrivate'
  BY <1>2, <1>3, <1>4, <1>5 DEF OfferIsPrivate, Parts, Offers
<1>9. ExecutionOnRecord'
  <2>1. \A w \in Worker : wpc[w] \in Executing => wjob[w] \in Job
    BY DEF TypeOK, Executing
  <2>2. \A w \in Worker : wjob[w] # j
    BY <1>4 DEF AtWork
  <2>3. QED
    BY <1>2, <2>1, <2>2 DEF ExecutionOnRecord, Parts, Offers
<1>10. Attended'
  BY <1>2 DEF Attended, Held, Parts, Offers
<1>11. RefusedNeverRuns'
  BY <1>1, <1>2 DEF RefusedNeverRuns, Parts, Offers, TypeOK
<1>13. QED
  BY <1>6, <1>7, <1>8, <1>9, <1>10, <1>11 DEF Parts

LEMMA CancelsKeeps ==
  ASSUME TypeOK, TypeOK', Parts, NEW h \in Handler, Cancels(h)
  PROVE  Parts'
<1> USE DEF others
<1>1. PICK pc \in HandlerPC \ Offering, j \in Job \cup {None} : HandlerTo(h, pc, j)
  BY DEF Cancels
<1>2. /\ hpc'[h] \notin Offering /\ hpc[h] \notin Offering
      /\ \A g \in Handler : g # h => hpc'[g] = hpc[g] /\ hjob'[g] = hjob[g]
  BY <1>1 DEF TypeOK, HandlerTo, Cancels
<1>3. \A k \in Job : \/ record'[k] = record[k]
                     \/ record[k] = "queued" /\ record'[k] = "cancelled"
                     \/ record[k] = "running" /\ record'[k] = "cancellation_requested"
  BY DEF TypeOK, Cancels
<1>4. \A k : AtWork(k)' <=> AtWork(k)
  BY DEF AtWork, InQueue, Cancels
<1>5. DownIsEmpty'
  BY DEF DownIsEmpty, Parts, Cancels
<1>6. RunsCounted' /\ WorkIsKnown'
  BY <1>3, <1>4 DEF RunsCounted, WorkIsKnown, Parts, Cancels
<1>7. OfferIsPrivate'
  <2>1. \A g \in Handler : hpc[g] \in Offering => hjob[g] \in Job
    BY DEF TypeOK, Offering
  <2>2. QED
    BY <1>2, <1>3, <1>4, <2>1 DEF OfferIsPrivate, Parts, Cancels
<1>8. ExecutionOnRecord'
  <2>1. \A w \in Worker : wpc[w] \in Executing => wjob[w] \in Job
    BY DEF TypeOK, Executing
  <2>2. QED
    BY <1>3, <2>1 DEF ExecutionOnRecord, Parts, Cancels
<1>9. Attended'
  BY <1>3 DEF Attended, Held, Parts, Cancels
<1>10. RefusedNeverRuns'
  BY <1>3 DEF RefusedNeverRuns, Parts, Cancels, TypeOK
<1>12. QED
  BY <1>5, <1>6, <1>7, <1>8, <1>9, <1>10 DEF Parts
LEMMA PutKeeps ==
  ASSUME TypeOK, TypeOK', Parts, NEW h \in Handler, PutQueued(h)
  PROVE  Parts'
<1> USE DEF durable, workers, history
<1>1. /\ hpc[h] = "put" /\ hpc[h] \in Offering /\ hjob[h] \in Job /\ phase # "down"
      /\ "full" \in Offering /\ "idle" \notin Offering
  BY DEF TypeOK, PutQueued, Offering, DownIsEmpty, Parts
<1>2. record[hjob[h]] \in {"queued", "cancelled"} /\ runs[hjob[h]] = 0 /\ ~AtWork(hjob[h])
  BY <1>1 DEF OfferIsPrivate, Parts
<1>3. DownIsEmpty' /\ RunsCounted' /\ ExecutionOnRecord' /\ Attended' /\ RefusedNeverRuns'
  BY <1>1 DEF DownIsEmpty, RunsCounted, ExecutionOnRecord, Attended, Held, RefusedNeverRuns,
              Parts, PutQueued
<1>4. CASE Len(queue) < QueueMax
  <2>1. InQueue' = InQueue \cup {hjob[h]}
    BY <1>1, <1>4, QueueAfter DEF PutQueued
  <2>2. /\ hpc'[h] = "idle"
        /\ \A g \in Handler : g # h => hpc'[g] = hpc[g] /\ hjob'[g] = hjob[g]
    BY <1>4 DEF TypeOK, PutQueued, Done, HandlerTo
  <2>3. \A j : AtWork(j)' <=> AtWork(j) \/ j = hjob[h]
    BY <2>1 DEF AtWork, PutQueued
  <2>4. WorkIsKnown'
    BY <1>2, <2>3 DEF WorkIsKnown, Parts, PutQueued
  <2>5. OfferIsPrivate'
    <3>1. \A g \in Handler : hpc[g] \in Offering => hjob[g] \in Job /\ (hjob[g] = hjob[h] => g = h)
      BY <1>1 DEF TypeOK, Offering, OfferIsPrivate, Parts
    <3>2. QED
      BY <1>1, <2>2, <2>3, <3>1 DEF OfferIsPrivate, Parts, PutQueued
  <2>6. QED
    BY <1>3, <2>4, <2>5 DEF Parts
<1>5. CASE ~(Len(queue) < QueueMax)
  <2>1. /\ hpc'[h] = "full" /\ hjob'[h] = hjob[h] /\ UNCHANGED queue
        /\ \A g \in Handler : g # h => hpc'[g] = hpc[g] /\ hjob'[g] = hjob[g]
    BY <1>5 DEF TypeOK, PutQueued, HandlerTo
  <2>2. \A j : AtWork(j)' <=> AtWork(j)
    BY <2>1 DEF AtWork, InQueue, PutQueued
  <2>3. WorkIsKnown'
    BY <2>2 DEF WorkIsKnown, Parts, PutQueued
  <2>4. OfferIsPrivate'
    BY <1>1, <2>1, <2>2 DEF OfferIsPrivate, Parts, PutQueued
  <2>5. QED
    BY <1>3, <2>3, <2>4 DEF Parts
<1>6. QED
  BY <1>4, <1>5

LEMMA RefusedKeeps ==
  ASSUME TypeOK, TypeOK', Parts, NEW h \in Handler, WriteRefused(h) \/ WriteRefusedError(h)
  PROVE  Parts'
<1> USE DEF workers, durable
<1>1. /\ hpc[h] \in Offering /\ hjob[h] \in Job /\ hpc[h] # "idle" /\ "idle" \notin Offering
      /\ hpc'[h] = "idle"
      /\ \A g \in Handler : g # h => hpc'[g] = hpc[g] /\ hjob'[g] = hjob[g]
  BY DEF TypeOK, WriteRefused, WriteRefusedError, Offering, Done, HandlerTo
<1>2. record[hjob[h]] \in {"queued", "cancelled"} /\ runs[hjob[h]] = 0 /\ ~AtWork(hjob[h])
  BY <1>1 DEF OfferIsPrivate, Parts
<1>3. /\ \A k \in Job : k # hjob[h] => record'[k] = record[k]
      /\ record'[hjob[h]] \in {record[hjob[h]], "failed"}
      /\ refused' = refused \/ (refused' = refused \cup {hjob[h]} /\ record'[hjob[h]] = "failed")
      /\ runs' = runs /\ parent' = parent /\ abandoned \subseteq abandoned'
      /\ UNCHANGED <<phase, queue, backlog, wpc, wjob>>
  BY <1>1 DEF TypeOK, WriteRefused, WriteRefusedError
<1>4. \A j : AtWork(j)' <=> AtWork(j)
  BY <1>3 DEF AtWork, InQueue
<1>5. DownIsEmpty'
  BY <1>1, <1>3 DEF DownIsEmpty, Parts
<1>6. RunsCounted' /\ WorkIsKnown'
  BY <1>2, <1>3, <1>4 DEF RunsCounted, WorkIsKnown, Parts
<1>7. OfferIsPrivate'
  <2>1. \A g \in Handler : hpc[g] \in Offering => hjob[g] \in Job /\ (hjob[g] = hjob[h] => g = h)
    BY <1>1 DEF TypeOK, Offering, OfferIsPrivate, Parts
  <2>2. QED
    BY <1>1, <1>3, <1>4, <2>1 DEF OfferIsPrivate, Parts
<1>8. ExecutionOnRecord'
  <2>1. \A w \in Worker : wpc[w] \in Executing => wjob[w] \in Job
    BY DEF TypeOK, Executing
  <2>2. \A w \in Worker : wpc[w] \in Executing => wjob[w] # hjob[h]
    BY <1>2 DEF ExecutionOnRecord, Parts
  <2>3. QED
    BY <1>3, <2>1, <2>2 DEF ExecutionOnRecord, Parts
<1>9. Attended'
  BY <1>2, <1>3 DEF Attended, Held, Parts
<1>10. RefusedNeverRuns'
  BY <1>2, <1>3 DEF RefusedNeverRuns, Parts, TypeOK
<1>12. QED
  BY <1>5, <1>6, <1>7, <1>8, <1>9, <1>10 DEF Parts

LEMMA HandlerKeeps ==
  ASSUME TypeOK, TypeOK', Parts, NEW h \in Handler, Request(h) \/ HandlerStep(h)
  PROVE  Parts'
BY HandlerShapes, OffersKeeps, CancelsKeeps, PutKeeps, RefusedKeeps DEF Parts

-----------------------------------------------------------------------------
LEMMA StartKeeps ==
  ASSUME TypeOK, TypeOK', Parts, Start
  PROVE  Parts'
<1> USE DEF handlers, history
<1>1. /\ queue = <<>> /\ \A w \in Worker : wpc'[w] = "idle" /\ wjob'[w] = None
      /\ \A h \in Handler : hpc'[h] = "idle"
      /\ "idle" \notin Executing /\ "idle" \notin Offering
  BY DEF DownIsEmpty, Parts, Start, Executing, Offering
<1>2. \A j \in Job : record'[j] = Recovered(record[j])
  BY DEF Start
<1>3. \A j \in Job :
        \/ record[j] \notin {"running", "cancellation_requested"} /\ record'[j] = record[j]
        \/ /\ record[j] \in {"running", "cancellation_requested"}
           /\ record'[j] \in {"failed", "cancelled"}
  <2> SUFFICES ASSUME NEW j \in Job
               PROVE  \/ /\ record[j] \notin {"running", "cancellation_requested"}
                         /\ record'[j] = record[j]
                      \/ /\ record[j] \in {"running", "cancellation_requested"}
                         /\ record'[j] \in {"failed", "cancelled"}
    OBVIOUS
  <2>1. CASE record[j] = "running"
    BY <1>2, <2>1 DEF Recovered
  <2>2. CASE record[j] = "cancellation_requested"
    BY <1>2, <2>2 DEF Recovered
  <2>3. CASE record[j] \notin {"running", "cancellation_requested"}
    BY <1>2, <2>3 DEF Recovered
  <2>4. QED
    BY <2>1, <2>2, <2>3
<1>4. InQueue' = {}
  BY <1>1 DEF InQueue, Start
<1>5. DownIsEmpty'
  BY DEF DownIsEmpty, Start
<1>6. RunsCounted'
  BY <1>3 DEF RunsCounted, Parts, Start
<1>7. WorkIsKnown'
  BY <1>1, <1>3, <1>4, NoneAssumption DEF WorkIsKnown, AtWork, Start
<1>8. OfferIsPrivate' /\ ExecutionOnRecord' /\ Attended'
  BY <1>1, <1>3 DEF OfferIsPrivate, ExecutionOnRecord, Attended
<1>9. RefusedNeverRuns'
  <2>1. \A j \in refused : j \in Job /\ record[j] = "failed" /\ runs[j] = 0
    BY DEF RefusedNeverRuns, Parts, TypeOK
  <2>2. \A j \in refused : record'[j] = "failed"
    BY <1>3, <2>1
  <2>3. QED
    BY <2>1, <2>2 DEF RefusedNeverRuns, Start
<1>11. QED
  BY <1>5, <1>6, <1>7, <1>8, <1>9 DEF Parts

LEMMA DieKeeps ==
  ASSUME TypeOK, TypeOK', Parts, Die
  PROVE  Parts'
<1> USE DEF durable
<1>1. /\ \A w \in Worker : wpc'[w] = "off" /\ wjob'[w] = None
      /\ \A h \in Handler : hpc'[h] = "idle"
      /\ "off" \notin Executing /\ "idle" \notin Offering
  BY DEF Die, Executing, Offering
<1>2. InQueue' = {}
  BY DEF InQueue, Die
<1>3. DownIsEmpty'
  BY <1>1 DEF DownIsEmpty, Die
<1>4. RunsCounted' /\ RefusedNeverRuns'
  BY DEF RunsCounted, RefusedNeverRuns, Parts, Die
<1>5. WorkIsKnown'
  BY <1>1, <1>2, NoneAssumption DEF WorkIsKnown, AtWork, Die
<1>6. OfferIsPrivate' /\ ExecutionOnRecord' /\ Attended'
  BY <1>1 DEF OfferIsPrivate, ExecutionOnRecord, Attended, Die
<1>7. QED
  BY <1>3, <1>4, <1>5, <1>6 DEF Parts

LEMMA EnqueueKeeps ==
  ASSUME TypeOK, TypeOK', Parts, EnqueueRecovered
  PROVE  Parts'
<1> USE DEF durable, workers, handlers, history
<1>1. PICK j \in backlog : queue' = Append(queue, j) /\ backlog' = backlog \ {j}
  BY DEF EnqueueRecovered
<1>2. InQueue' = InQueue \cup {j}
  <2>1. j \in Job
    BY DEF TypeOK
  <2>2. QED
    BY <1>1, <2>1, QueueAfter
<1>3. \A k : AtWork(k)' <=> AtWork(k)
  BY <1>1, <1>2 DEF AtWork, EnqueueRecovered
<1>4. DownIsEmpty' /\ RunsCounted' /\ ExecutionOnRecord' /\ Attended' /\ RefusedNeverRuns'
  BY DEF DownIsEmpty, RunsCounted, ExecutionOnRecord, Attended, Held, RefusedNeverRuns,
         Parts, EnqueueRecovered
<1>5. WorkIsKnown' /\ OfferIsPrivate'
  BY <1>3 DEF WorkIsKnown, OfferIsPrivate, Parts, EnqueueRecovered
<1>6. QED
  BY <1>4, <1>5 DEF Parts

LEMMA PhaseKeeps ==
  ASSUME TypeOK, TypeOK', Parts, Serve \/ Stop
  PROVE  Parts'
BY DEF Parts, Serve, Stop, durable, workers, handlers, history, DownIsEmpty, RunsCounted,
       WorkIsKnown, OfferIsPrivate, ExecutionOnRecord, Attended, Held, RefusedNeverRuns,
       AtWork, InQueue

-----------------------------------------------------------------------------
(* A finished record may only become another finished one: the refusal of  *)
(* a job overwrites its cancellation.                                      *)
LEMMA FinishedStays ==
  ASSUME TypeOK, TypeOK', Parts, Next, NEW j \in Job, record[j] \in Terminal
  PROVE  record'[j] \in Terminal
<1> USE DEF durable, workers, handlers, history
<1>1. record[j] \notin {"absent", "queued", "running", "cancellation_requested"}
  BY DEF Terminal
<1>2. CASE Main
  <2>1. CASE Start
    BY <1>1, <2>1 DEF Start, Recovered
  <2>2. CASE ~Start
    BY <1>2, <2>2 DEF Main, EnqueueRecovered, RecoveryOverflow, Serve, Stop, Exit, Crash, Die
  <2>3. QED
    BY <2>1, <2>2
<1>3. ASSUME NEW w \in Worker, WorkerStep(w)
      PROVE  record'[j] \in Terminal
  <2>1. CASE Take(w) \/ Dropped(w) \/ Stayed(w)
    BY <2>1 DEF Take, Dropped, Stayed
  <2>2. CASE Began(w)
    BY <1>1, <2>2 DEF Began, TypeOK
  <2>3. CASE Left(w)
    BY <2>3 DEF Left, TypeOK
  <2>4. QED
    BY <1>3, <2>1, <2>2, <2>3, WorkerShapes DEF Parts
<1>4. ASSUME NEW h \in Handler, Request(h) \/ HandlerStep(h)
      PROVE  record'[j] \in Terminal
  <2>1. CASE Offers(h)
    BY <1>1, <2>1 DEF Offers, TypeOK
  <2>2. CASE Cancels(h)
    <3>1. record'[j] = record[j] \/ record[j] = "queued" \/ record[j] = "running"
      BY <2>2 DEF Cancels, TypeOK
    <3>2. QED
      BY <1>1, <3>1
  <2>3. CASE PutQueued(h) \/ WriteRefusedError(h)
    BY <2>3 DEF PutQueued, WriteRefusedError
  <2>4. CASE WriteRefused(h)
    BY <2>4 DEF WriteRefused, TypeOK, Terminal
  <2>5. QED
    BY <1>4, <2>1, <2>2, <2>3, <2>4, HandlerShapes DEF Parts
<1>5. QED
  BY <1>2, <1>3, <1>4 DEF Next

(* Only the submission of a retry makes a parent of a job.                 *)
LEMMA ParentOrigin ==
  ASSUME TypeOK, Next, NEW j \in Job
  PROVE  \/ parent'[j] = parent[j]
         \/ \E h \in Handler : hpc[h] = "retry" /\ parent'[j] = hjob[h]
<1> USE DEF durable, workers, handlers, history
<1>1. CASE Main
  BY <1>1 DEF Main, Start, EnqueueRecovered, RecoveryOverflow, Serve, Stop, Exit, Crash, Die
<1>2. ASSUME NEW w \in Worker, WorkerStep(w)
      PROVE  parent' = parent
  BY <1>2 DEF WorkerStep, Take, Quit, StartJob, StartJobError, Generate, Finish, FinishError,
              Superseded, RemoveOutput, Confirm, ConfirmError, HandleError, RecordFailure,
              RecordFailureError
<1>3. ASSUME NEW h \in Handler, Request(h) \/ HandlerStep(h)
      PROVE  \/ parent' = parent
             \/ /\ hpc[h] = "retry"
                /\ \E k \in Job : parent' = [parent EXCEPT ![k] = hjob[h]]
  BY <1>3 DEF Request, HandlerStep, Submit, Retry, Cancel, SubmitRetry, PutQueued,
              WriteRefused, WriteRefusedError, ReadForCancel, CancelQueued, CancelRunning
<1>4. QED
  BY <1>1, <1>2, <1>3 DEF Next, TypeOK

(* Only Retry brings a handler there, with the job it has read.            *)
LEMMA RetryOrigin ==
  ASSUME TypeOK, Next, NEW h \in Handler, hpc'[h] = "retry"
  PROVE  \/ hpc[h] = "retry" /\ hjob'[h] = hjob[h]
         \/ hjob'[h] \in Job /\ record[hjob'[h]] \in Terminal
<1> USE DEF durable, workers, handlers, history
<1>1. CASE Main
  BY <1>1 DEF Main, Start, EnqueueRecovered, RecoveryOverflow, Serve, Stop, Exit, Crash, Die
<1>2. ASSUME NEW w \in Worker, WorkerStep(w)
      PROVE  UNCHANGED handlers
  BY <1>2 DEF WorkerStep, Take, Quit, StartJob, StartJobError, Generate, Finish, FinishError,
              Superseded, RemoveOutput, Confirm, ConfirmError, HandleError, RecordFailure,
              RecordFailureError
<1>3. ASSUME NEW g \in Handler, Request(g) \/ HandlerStep(g)
      PROVE  \/ \E pc \in HandlerPC \ {"retry"}, k \in Job \cup {None} : HandlerTo(g, pc, k)
             \/ \E k \in Job : record[k] \in Terminal /\ HandlerTo(g, "retry", k)
  <2>1. \A pc \in {"idle", "put", "full", "cancel", "cancelQueued", "cancelRunning"} :
          pc \in HandlerPC \ {"retry"}
    BY DEF HandlerPC, Offering
  <2>2. hjob[g] \in Job \cup {None}
    BY DEF TypeOK
  <2>3. CASE Retry(g)
    BY <2>3 DEF Retry
  <2>4. CASE Submit(g) \/ Cancel(g) \/ SubmitRetry(g)
    BY <2>1, <2>4 DEF Submit, Cancel, SubmitRetry, WriteQueued, Done
  <2>5. CASE PutQueued(g) \/ WriteRefused(g) \/ WriteRefusedError(g)
    BY <2>1, <2>2, <2>5 DEF PutQueued, WriteRefused, WriteRefusedError, Done
  <2>6. CASE ReadForCancel(g) \/ CancelQueued(g) \/ CancelRunning(g)
    BY <2>1, <2>2, <2>6 DEF ReadForCancel, CancelQueued, CancelRunning, Done
  <2>7. QED
    BY <1>3, <2>3, <2>4, <2>5, <2>6 DEF Request, HandlerStep
<1>4. QED
  BY <1>1, <1>2, <1>3 DEF Next, TypeOK, HandlerTo

(* So what a retry has read, and what it has written, stays finished.      *)
LEMMA RetriesKeep ==
  ASSUME TypeOK, TypeOK', Parts, RetriedIsFinished, RetryIsFinished, Next
  PROVE  RetriedIsFinished' /\ RetryIsFinished'
<1>1. \A h \in Handler : hpc[h] = "retry" => hjob[h] \in Job
  BY DEF TypeOK
<1>2. RetriedIsFinished'
  <2> SUFFICES ASSUME NEW j \in Job, parent'[j] # None
               PROVE  record'[parent'[j]] \in Terminal
    BY DEF RetriedIsFinished
  <2>1. parent'[j] \in Job
    BY DEF TypeOK
  <2>2. record[parent'[j]] \in Terminal
    BY <1>1, ParentOrigin DEF RetriedIsFinished, RetryIsFinished
  <2>3. QED
    BY <2>1, <2>2, FinishedStays
<1>3. RetryIsFinished'
  <2> SUFFICES ASSUME NEW h \in Handler, hpc'[h] = "retry"
               PROVE  record'[hjob'[h]] \in Terminal
    BY DEF RetryIsFinished
  <2>1. hjob'[h] \in Job /\ record[hjob'[h]] \in Terminal
    BY <1>1, RetryOrigin DEF RetryIsFinished
  <2>2. QED
    BY <2>1, FinishedStays
<1>4. QED
  BY <1>2, <1>3

THEOREM InductiveInvariant == Spec => []IInv
<1>1. Init => Parts
  BY NoneAssumption DEF Init, Parts, DownIsEmpty, RunsCounted, WorkIsKnown, OfferIsPrivate, Offering,
         ExecutionOnRecord, Executing, Attended, RefusedNeverRuns, AtWork, InQueue
<1>2. TypeOK /\ TypeOK' /\ Parts /\ [Next]_vars => Parts'
  <2> SUFFICES ASSUME TypeOK, TypeOK', Parts, [Next]_vars
               PROVE  Parts'
    OBVIOUS
  <2>1. CASE UNCHANGED vars
    BY <2>1 DEF vars, Parts, DownIsEmpty, RunsCounted,
       WorkIsKnown, OfferIsPrivate, ExecutionOnRecord, Attended, Held, RefusedNeverRuns,
       AtWork, InQueue
  <2>2. CASE Main
    BY <2>2, StartKeeps, DieKeeps, EnqueueKeeps, PhaseKeeps
       DEF Main, RecoveryOverflow, Exit, Crash
  <2>3. QED
    BY <2>1, <2>2, WorkerKeeps, HandlerKeeps DEF Next
<1>3. Init => RetriedIsFinished /\ RetryIsFinished
  BY DEF Init, RetriedIsFinished, RetryIsFinished
<1>4. /\ TypeOK /\ TypeOK' /\ Parts /\ RetriedIsFinished /\ RetryIsFinished /\ [Next]_vars
      => RetriedIsFinished' /\ RetryIsFinished'
  <2>1. UNCHANGED vars /\ RetriedIsFinished /\ RetryIsFinished
        => RetriedIsFinished' /\ RetryIsFinished'
    BY DEF vars, RetriedIsFinished, RetryIsFinished
  <2>2. QED
    BY <2>1, RetriesKeep
<1>5. TypeOK /\ Parts /\ RetriedIsFinished /\ RetryIsFinished => IInv
  BY HeldOnce DEF Parts, IInv
<1>6. QED
  BY <1>1, <1>2, <1>3, <1>4, <1>5, TypeCorrect, PTL DEF Spec

(* No job is ever started twice, however often the daemon dies.            *)
THEOREM AtMostOneRun == Spec => []RunsAtMostOnce
<1>1. IInv => RunsAtMostOnce
  BY DEF IInv, RunsCounted, RunsAtMostOnce
<1>2. QED
  BY <1>1, InductiveInvariant, PTL

(* A running record has exactly one worker that will settle it.            *)
THEOREM OneWorkerPerRunningJob == Spec => []RunningIsHeld
<1>1. IInv => RunningIsHeld
  BY DEF IInv
<1>2. QED
  BY <1>1, InductiveInvariant, PTL

(* A refused job never runs, not even after a restart.                     *)
THEOREM NoRunOfRefusedJob == Spec => []RefusedNeverRuns
<1>1. IInv => RefusedNeverRuns
  BY DEF IInv
<1>2. QED
  BY <1>1, InductiveInvariant, PTL

(* Only finished jobs are retried.                                         *)
THEOREM OnlyFinishedRetried == Spec => []RetriedIsFinished
<1>1. IInv => RetriedIsFinished
  BY DEF IInv
<1>2. QED
  BY <1>1, InductiveInvariant, PTL

(***************************************************************************)
(* No job is stranded: QueuedIsReachable, from IInv and the effects of the *)
(* threads' steps.                                                         *)
(***************************************************************************)
(* The ways a queued job is on, as in QueuedIsReachable.                   *)
OnItsWay(j) ==
  \/ j \in InQueue \cup backlog \cup abandoned
  \/ \E w \in Worker : wpc[w] = "got" /\ wjob[w] = j
  \/ Offered(j)

(* What queue.get leaves behind.                                           *)
LEMMA HeadOrTail ==
  ASSUME TypeOK, queue # <<>>, queue' = Tail(queue),
         NEW j \in InQueue, Head(queue) # j
  PROVE  j \in InQueue'
<1>1. queue \in Seq(Job)
  BY DEF TypeOK
<1>2. PICK i \in DOMAIN queue : queue[i] = j
  BY DEF InQueue
<1>3. i \in Nat /\ 1 <= i /\ i <= Len(queue) /\ i # 1
  BY <1>1, <1>2
<1>4. i - 1 \in DOMAIN queue' /\ queue'[i - 1] = j
  BY <1>1, <1>2, <1>3
<1>5. QED
  BY <1>4 DEF InQueue

(* A worker keeps a queued job on its way as long as the daemon does not   *)
(* stop.                                                                   *)
LEMMA WorkerKeepsWay ==
  ASSUME TypeOK, TypeOK', Parts, NEW w \in Worker, WorkerStep(w),
         phase # "draining",
         NEW j \in Job, record'[j] = "queued", OnItsWay(j)
  PROVE  OnItsWay(j)'
<1> USE DEF aside, durable, handlers, history
<1>1. CASE Take(w)
  <2>1. CASE Head(queue) = j
    BY <1>1, <2>1 DEF TypeOK, Take, OnItsWay
  <2>2. CASE Head(queue) # j
    <3>1. j \in InQueue => j \in InQueue'
      BY <1>1, <2>2, HeadOrTail DEF Take
    <3>2. \A v \in Worker : wpc[v] = "got" => v # w /\ wpc'[v] = wpc[v] /\ wjob'[v] = wjob[v]
      BY <1>1 DEF TypeOK, Take
    <3>3. QED
      BY <1>1, <3>1, <3>2 DEF Take, OnItsWay, Offered
  <2>3. QED
    BY <2>1, <2>2
<1>2. CASE Began(w)
  <2>1. \A v \in Worker : v # w => wpc'[v] = wpc[v] /\ wjob'[v] = wjob[v]
    BY <1>2 DEF TypeOK, Began
  <2>2. wjob[w] # j
    BY <1>2 DEF TypeOK, Began
  <2>3. QED
    BY <1>2, <2>1, <2>2 DEF Began, OnItsWay, InQueue, Offered
<1>3. CASE Dropped(w)
  <2>1. \A v \in Worker : v # w => wpc'[v] = wpc[v] /\ wjob'[v] = wjob[v]
    BY <1>3 DEF TypeOK, Dropped
  <2>2. wpc[w] = "got" /\ wjob[w] = j => j \in abandoned'
    BY <1>3 DEF Dropped
  <2>3. QED
    BY <1>3, <2>1, <2>2 DEF Dropped, OnItsWay, InQueue, Offered
<1>4. CASE Stayed(w)
  <2>1. wpc[w] # "got" /\ \A v \in Worker : v # w => wpc'[v] = wpc[v]
    BY <1>4 DEF TypeOK, Stayed, Executing
  <2>2. QED
    BY <1>4, <2>1 DEF Stayed, OnItsWay, InQueue, Offered
<1>5. CASE Left(w)
  <2>1. wpc[w] # "got" /\ \A v \in Worker : v # w => wpc'[v] = wpc[v] /\ wjob'[v] = wjob[v]
    BY <1>5 DEF TypeOK, Left, Executing
  <2>2. QED
    BY <1>5, <2>1 DEF Left, OnItsWay, InQueue, Offered
<1>6. QED
  BY <1>1, <1>2, <1>3, <1>4, <1>5, WorkerShapes DEF Parts

(* So does a handler: a job it has written stays on offer until it is in   *)
(* the queue, refused, or dropped because of a store error.                *)
LEMMA HandlerKeepsWay ==
  ASSUME TypeOK, TypeOK', Parts, NEW h \in Handler, Request(h) \/ HandlerStep(h),
         NEW j \in Job, record'[j] = "queued",
         record[j] = "queued" => OnItsWay(j)
  PROVE  OnItsWay(j)'
<1> USE DEF others, durable, workers, history
<1>1. "put" \in Offering /\ "full" \in Offering
  BY DEF Offering
<1>2. CASE Offers(h)
  <2>1. PICK k \in Job : record' = [record EXCEPT ![k] = "queued"] /\ HandlerTo(h, "put", k)
    BY <1>2 DEF Offers
  <2>2. /\ hpc'[h] = "put" /\ hjob'[h] = k
        /\ \A g \in Handler : g # h => hpc'[g] = hpc[g] /\ hjob'[g] = hjob[g]
    BY <2>1 DEF TypeOK, HandlerTo
  <2>3. CASE j = k
    BY <1>1, <2>2, <2>3 DEF OnItsWay, Offered
  <2>4. CASE j # k
    <3>1. record[j] = "queued"
      BY <2>1, <2>4 DEF TypeOK
    <3>2. hpc[h] \notin Offering
      BY <1>2 DEF Offers, Offering
    <3>3. QED
      BY <1>2, <2>2, <3>1, <3>2 DEF Offers, OnItsWay, Offered, InQueue
  <2>5. QED
    BY <2>3, <2>4
<1>3. CASE Cancels(h)
  <2>1. record[j] = "queued"
    BY <1>3 DEF TypeOK, Cancels
  <2>2. PICK pc \in HandlerPC \ Offering, k \in Job \cup {None} : HandlerTo(h, pc, k)
    BY <1>3 DEF Cancels
  <2>3. \A g \in Handler : hpc[g] \in Offering => hpc'[g] = hpc[g] /\ hjob'[g] = hjob[g]
    BY <1>3, <2>2 DEF TypeOK, Cancels, HandlerTo
  <2>4. QED
    BY <1>3, <2>1, <2>3 DEF Cancels, OnItsWay, Offered, InQueue
<1>4. CASE PutQueued(h)
  <2>1. record[j] = "queued" /\ hjob[h] \in Job
    BY <1>4 DEF TypeOK, PutQueued
  <2>2. CASE Len(queue) < QueueMax
    <3>1. InQueue' = InQueue \cup {hjob[h]}
      BY <1>4, <2>1, <2>2, QueueAfter DEF PutQueued
    <3>2. \A g \in Handler : g # h => hpc'[g] = hpc[g] /\ hjob'[g] = hjob[g]
      BY <1>4, <2>2 DEF TypeOK, PutQueued, Done, HandlerTo
    <3>3. QED
      BY <1>4, <2>1, <3>1, <3>2 DEF PutQueued, OnItsWay, Offered
  <2>3. CASE ~(Len(queue) < QueueMax)
    <3>1. /\ queue' = queue /\ hpc'[h] = "full" /\ hjob'[h] = hjob[h]
          /\ \A g \in Handler : g # h => hpc'[g] = hpc[g] /\ hjob'[g] = hjob[g]
      BY <1>4, <2>3 DEF TypeOK, PutQueued, HandlerTo
    <3>2. QED
      BY <1>1, <1>4, <2>1, <3>1 DEF PutQueued, OnItsWay, Offered, InQueue
  <2>4. QED
    BY <2>2, <2>3
<1>5. CASE WriteRefused(h) \/ WriteRefusedError(h)
  <2>1. hjob[h] \in Job /\ \A g \in Handler : g # h => hpc'[g] = hpc[g] /\ hjob'[g] = hjob[g]
    BY <1>5 DEF TypeOK, WriteRefused, WriteRefusedError, Done, HandlerTo
  <2>2. /\ record[j] = "queued" /\ abandoned \subseteq abandoned'
        /\ hjob[h] = j => j \in abandoned'
    BY <1>5, <2>1 DEF TypeOK, WriteRefused, WriteRefusedError
  <2>3. UNCHANGED <<queue, backlog, wpc, wjob>>
    BY <1>5 DEF WriteRefused, WriteRefusedError
  <2>4. QED
    BY <2>1, <2>2, <2>3 DEF OnItsWay, Offered, InQueue
<1>6. QED
  BY <1>2, <1>3, <1>4, <1>5, HandlerShapes DEF Parts

LEMMA StartKeepsWay ==
  ASSUME TypeOK, Start, NEW j \in Job, record'[j] = "queued"
  PROVE  OnItsWay(j)'
<1>1. Recovered(record[j]) = "queued"
  BY DEF TypeOK, Start
<1>2. record[j] = "queued"
  <2>1. record[j] # "running" /\ record[j] # "cancellation_requested"
    BY <1>1 DEF Recovered
  <2>2. QED
    BY <1>1, <2>1 DEF Recovered
<1>3. QED
  BY <1>2 DEF Start, OnItsWay

LEMMA EnqueueKeepsWay ==
  ASSUME TypeOK, EnqueueRecovered, NEW j \in Job, OnItsWay(j)
  PROVE  OnItsWay(j)'
<1> USE DEF durable, workers, handlers, history
<1>1. PICK k \in backlog : queue' = Append(queue, k) /\ backlog' = backlog \ {k}
  BY DEF EnqueueRecovered
<1>2. InQueue' = InQueue \cup {k}
  <2>1. k \in Job
    BY DEF TypeOK
  <2>2. QED
    BY <1>1, <2>1, QueueAfter
<1>3. QED
  BY <1>1, <1>2 DEF EnqueueRecovered, OnItsWay, Offered

(* A step that worker w takes never makes a record queued.                 *)
LEMMA NoWorkerQueues ==
  ASSUME TypeOK, TypeOK', Parts, NEW w \in Worker, WorkerStep(w),
         NEW j \in Job, record'[j] = "queued"
  PROVE  record[j] = "queued" /\ phase' = phase
<1> USE DEF aside, durable
<1>1. CASE Take(w)
  BY <1>1 DEF Take
<1>2. CASE Began(w)
  BY <1>2 DEF TypeOK, Began
<1>3. CASE Dropped(w)
  BY <1>3 DEF Dropped
<1>4. CASE Stayed(w)
  BY <1>4 DEF Stayed
<1>5. CASE Left(w)
  BY <1>5 DEF TypeOK, Left, Terminal
<1>6. QED
  BY <1>1, <1>2, <1>3, <1>4, <1>5, WorkerShapes DEF Parts

-----------------------------------------------------------------------------
(* While the daemon serves, every queued job is on its way to a worker.    *)
THEOREM NoJobStranded == Spec => []QueuedIsReachable
<1> DEFINE Way == \A j \in Job :
             record[j] = "queued" /\ phase \in {"recovering", "serving"} => OnItsWay(j)
<1>1. Init => Way
  BY DEF Init
<1>2. IInv /\ TypeOK' /\ Way /\ [Next]_vars => Way'
  <2> SUFFICES ASSUME IInv, TypeOK', Way, [Next]_vars, NEW j \in Job,
                      record'[j] = "queued", phase' \in {"recovering", "serving"}
               PROVE  OnItsWay(j)'
    OBVIOUS
  <2>1. TypeOK /\ Parts
    BY HeldOnce DEF IInv, Parts
  <2>2. CASE UNCHANGED vars
    BY <2>2 DEF vars, OnItsWay, Offered, InQueue
  <2>3. CASE Start
    BY <2>1, <2>3, StartKeepsWay
  <2>4. CASE EnqueueRecovered
    <3>1. record[j] = "queued" /\ phase \in {"recovering", "serving"}
      BY <2>4 DEF EnqueueRecovered, durable
    <3>2. QED
      BY <2>1, <2>4, <3>1, EnqueueKeepsWay
  <2>5. CASE Serve
    BY <2>5 DEF Serve, durable, workers, handlers, history, OnItsWay, Offered, InQueue
  <2>6. CASE Stop
    BY <2>6 DEF Stop
  <2>7. CASE Die
    BY <2>7 DEF Die
  <2>8. ASSUME NEW w \in Worker, WorkerStep(w)
        PROVE  OnItsWay(j)'
    <3>1. record[j] = "queued" /\ phase' = phase
      BY <2>1, <2>8, NoWorkerQueues
    <3>2. QED
      BY <2>1, <2>8, <3>1, WorkerKeepsWay
  <2>9. ASSUME NEW h \in Handler, Request(h) \/ HandlerStep(h)
        PROVE  OnItsWay(j)'
    <3>1. phase' = phase
      <4>1. \/ Offers(h) \/ Cancels(h) \/ PutQueued(h)
            \/ WriteRefused(h) \/ WriteRefusedError(h)
        BY <2>1, <2>9, HandlerShapes DEF Parts
      <4>2. QED
        BY <4>1 DEF Offers, Cancels, others, PutQueued, WriteRefused, WriteRefusedError
    <3>2. QED
      BY <2>1, <2>9, <3>1, HandlerKeepsWay
  <2>10. QED
    BY <2>2, <2>3, <2>4, <2>5, <2>6, <2>7, <2>8, <2>9
       DEF Next, Main, RecoveryOverflow, Exit, Crash
<1>3. Way => QueuedIsReachable
  BY DEF OnItsWay, QueuedIsReachable
<1>4. QED
  BY <1>1, <1>2, <1>3, InductiveInvariant, TypeCorrect, PTL DEF Spec

(***************************************************************************)
(* What a client of the daemon sees: the status of a job moves only as     *)
(* JobLifecycle allows, and a published output directory belongs to a job  *)
(* that succeeded, to the worker that still has the job, or to a recorded  *)
(* mishap.  Both rest on IInv.                                             *)
(***************************************************************************)
(* What each moment of a worker's job means for its output directory.      *)
OutputAtWork ==
  \A w \in Worker :
    /\ wpc[w] = "finish" => wjob[w] \in output
    /\ wpc[w] \in {"generate", "confirm", "except", "fail"} =>
         wjob[w] \notin output \/ wjob[w] \in residue

OutputParts ==
  /\ OutputMatchesRecord
  /\ \A j \in output : record[j] \notin {"absent", "queued"}
  /\ OutputAtWork

(* Two workers never execute the same job, so that one worker's step says  *)
(* nothing about the job of another.                                       *)
LEMMA OwnJob ==
  ASSUME TypeOK, ExecutionOnRecord, NEW w \in Worker, wpc[w] \in Executing,
         wjob'[w] \in {wjob[w], None},
         \A v \in Worker : v # w => wpc'[v] = wpc[v] /\ wjob'[v] = wjob[v]
  PROVE  /\ \A v \in Worker : v # w /\ wpc[v] \in Executing => wjob[v] # wjob[w]
         /\ \A j \in Job : j # wjob[w] => Held(j)' = Held(j)
<1>1. \A v \in Worker : v # w /\ wpc[v] \in Executing => wjob[v] # wjob[w]
  BY DEF ExecutionOnRecord
<1>2. ASSUME NEW j \in Job, j # wjob[w] PROVE Held(j)' <=> Held(j)
  BY <1>2, NoneAssumption DEF Held
<1>3. QED
  BY <1>1, <1>2 DEF Held

(* A step of a worker with the job it executes, reduced to what becomes of *)
(* that job's record and output directory.                                 *)
Handles(w, j) ==
  /\ wpc[w] \in Executing /\ wjob[w] = j /\ wjob'[w] \in {j, None}
  /\ \A v \in Worker : v # w => wpc'[v] = wpc[v] /\ wjob'[v] = wjob[v]
  /\ residue \subseteq residue'
  /\ \A k \in Job : k # j => record'[k] = record[k] /\ (k \in output' <=> k \in output)
  /\ record'[j] = "succeeded" => j \in output'
  /\ j \in output' => /\ record'[j] \notin {"absent", "queued"}
                     /\ \/ record'[j] = "succeeded" \/ j \in residue'
                        \/ wpc'[w] \in Executing /\ wjob'[w] = j
  /\ wpc'[w] = "finish" => wjob'[w] = j /\ j \in output'
  /\ wpc'[w] \in {"generate", "confirm", "except", "fail"} =>
       wjob'[w] = j /\ (j \notin output' \/ j \in residue')

LEMMA HandlesKeeps ==
  ASSUME TypeOK, TypeOK', ExecutionOnRecord, OutputParts,
         NEW w \in Worker, NEW j \in Job, Handles(w, j)
  PROVE  OutputParts'
<1>1. /\ \A v \in Worker : v # w /\ wpc[v] \in Executing => wjob[v] # j
      /\ \A k \in Job : k # j => Held(k)' = Held(k)
  BY OwnJob DEF Handles
<1>2. j \in output' => record'[j] = "succeeded" \/ Held(j)' \/ j \in residue'
  BY DEF Handles, Held
<1>3. OutputMatchesRecord'
  BY <1>1, <1>2 DEF OutputMatchesRecord, OutputParts, Handles
<1>4. \A k \in output' : record'[k] \notin {"absent", "queued"}
  BY DEF OutputParts, Handles, TypeOK
<1>5. OutputAtWork'
  <2>1. \A v \in Worker : wpc[v] \in {"finish", "generate", "confirm", "except", "fail"} =>
          wpc[v] \in Executing /\ wjob[v] \in Job
    BY DEF TypeOK, Executing
  <2>2. \A v \in Worker : v # w =>
          /\ wpc'[v] = "finish" => wjob'[v] \in output'
          /\ wpc'[v] \in {"generate", "confirm", "except", "fail"} =>
               wjob'[v] \notin output' \/ wjob'[v] \in residue'
    BY <1>1, <2>1 DEF OutputAtWork, OutputParts, Handles
  <2>3. QED
    BY <2>2 DEF OutputAtWork, Handles
<1>6. QED
  BY <1>3, <1>4, <1>5 DEF OutputParts

(* A worker without a job in execution takes, drops or starts one.         *)
LEMMA BeforeExecution ==
  ASSUME TypeOK, TypeOK', ExecutionOnRecord, OutputParts, NEW w \in Worker,
         wpc[w] \notin Executing, UNCHANGED <<output, residue>>,
         \A v \in Worker : v # w => wpc'[v] = wpc[v] /\ wjob'[v] = wjob[v],
         \/ record' = record /\ wpc'[w] \notin Executing
         \/ /\ record[wjob[w]] = "queued" /\ wjob[w] \in Job
            /\ record' = [record EXCEPT ![wjob[w]] = "running"]
            /\ wpc'[w] = "generate" /\ wjob'[w] = wjob[w]
  PROVE  OutputParts'
<1>1. "finish" \in Executing /\ {"generate", "confirm", "except", "fail"} \subseteq Executing
  BY DEF Executing
<1>2. CASE record' = record /\ wpc'[w] \notin Executing
  <2>1. \A k \in Job : Held(k)' <=> Held(k)
    BY <1>2 DEF Held
  <2>2. OutputAtWork'
    BY <1>1, <1>2 DEF OutputAtWork, OutputParts
  <2>3. QED
    BY <1>2, <2>1, <2>2 DEF OutputParts, OutputMatchesRecord
<1>3. CASE /\ record[wjob[w]] = "queued" /\ wjob[w] \in Job
           /\ record' = [record EXCEPT ![wjob[w]] = "running"]
           /\ wpc'[w] = "generate" /\ wjob'[w] = wjob[w]
  <2>1. /\ wjob[w] \notin output
        /\ \A k \in Job : k # wjob[w] => record'[k] = record[k]
        /\ record'[wjob[w]] = "running"
    BY <1>3 DEF OutputParts, TypeOK
  <2>2. \A k \in Job : Held(k) => Held(k)'
    BY DEF Held
  <2>3. OutputMatchesRecord' /\ \A k \in output' : record'[k] \notin {"absent", "queued"}
    BY <2>1, <2>2 DEF OutputMatchesRecord, OutputParts, TypeOK
  <2>4. OutputAtWork'
    BY <1>3, <2>1 DEF OutputAtWork, OutputParts
  <2>5. QED
    BY <2>3, <2>4 DEF OutputParts
<1>4. QED
  BY <1>2, <1>3

LEMMA WorkerKeepsOutput ==
  ASSUME TypeOK, TypeOK', ExecutionOnRecord, OutputParts, NEW w \in Worker, WorkerStep(w)
  PROVE  OutputParts'
<1> USE DEF durable, handlers, history
<1> DEFINE j == wjob[w]
<1>1. /\ {"generate", "finish", "superseded", "remove", "confirm", "except", "fail"} = Executing
      /\ {"off", "idle", "got"} \cap Executing = {}
  BY DEF Executing
<1>2. wpc[w] \in WorkerPC /\ (wpc[w] \notin {"off", "idle"} => j \in Job)
  BY DEF TypeOK
<1>3. wpc[w] \in Executing =>
        /\ record[j] \in {"running", "cancellation_requested"}
        /\ wpc[w] \in {"superseded", "remove", "confirm"} =>
             record[j] = "cancellation_requested"
  BY DEF ExecutionOnRecord
<1>4. NextTurn(w) \/ ThreadDies(w) =>
        /\ wpc'[w] \in {"off", "idle"} /\ wjob'[w] = None
        /\ \A v \in Worker : v # w => wpc'[v] = wpc[v] /\ wjob'[v] = wjob[v]
  <2>1. CASE phase = "draining"
    BY <2>1 DEF TypeOK, NextTurn, ThreadDies
  <2>2. CASE phase # "draining"
    BY <2>2 DEF TypeOK, NextTurn, ThreadDies
  <2>3. QED
    BY <2>1, <2>2
<1>5. \A pc : GoTo(w, pc) =>
        /\ wpc'[w] = pc /\ wjob'[w] = j
        /\ \A v \in Worker : v # w => wpc'[v] = wpc[v] /\ wjob'[v] = wjob[v]
  BY DEF TypeOK, GoTo
<1>6. OutputAtWork /\ (wpc[w] \in {"generate", "confirm", "except", "fail"} =>
                        j \notin output \/ j \in residue)
  BY DEF OutputParts, OutputAtWork
<1>7. CASE Take(w)
  BY <1>1, <1>7, BeforeExecution DEF TypeOK, Take
<1>8. CASE Quit(w)
  BY <1>1, <1>4, <1>8, BeforeExecution DEF Quit
<1>9. CASE StartJobError(w)
  BY <1>1, <1>4, <1>9, BeforeExecution DEF StartJobError
<1>10. CASE StartJob(w)
  <2>1. CASE record[j] = "queued"
    <3>1. record' = [record EXCEPT ![j] = "running"]
      BY <1>2, <1>10, <2>1, TransitionEffect, Names DEF StartJob
    <3>2. QED
      BY <1>1, <1>2, <1>5, <1>10, <2>1, <3>1, BeforeExecution DEF StartJob
  <2>2. CASE record[j] # "queued"
    <3>1. record' = record
      BY <1>2, <1>10, <2>2, TransitionEffect, Names DEF StartJob
    <3>2. QED
      BY <1>1, <1>4, <1>10, <2>2, <3>1, BeforeExecution DEF StartJob
  <2>3. QED
    BY <2>1, <2>2
<1>11. CASE Generate(w)
  <2>1. Handles(w, j)
    BY <1>1, <1>3, <1>5, <1>6, <1>11 DEF Generate, Handles
  <2>2. QED
    BY <1>2, <1>11, <2>1, HandlesKeeps DEF Generate
<1>12. CASE Finish(w)
  <2>1. j \in output
    BY <1>12 DEF OutputParts, OutputAtWork, Finish
  <2>2. CASE record[j] = "running"
    <3>1. record' = [record EXCEPT ![j] = "succeeded"]
      BY <1>2, <1>12, <2>2, TransitionEffect, Names DEF Finish
    <3>2. /\ record'[j] = "succeeded"
          /\ \A k \in Job : k # j => record'[k] = record[k]
      BY <1>2, <1>12, <3>1 DEF TypeOK, Finish
    <3>3. Handles(w, j)
      BY <1>1, <1>4, <1>12, <2>1, <2>2, <3>2 DEF Finish, Handles
    <3>4. QED
      BY <1>2, <1>12, <3>3, HandlesKeeps DEF Finish
  <2>3. CASE record[j] # "running"
    <3>1. record' = record
      BY <1>2, <1>12, <2>3, TransitionEffect, Names DEF Finish
    <3>2. Handles(w, j)
      BY <1>1, <1>3, <1>5, <1>12, <2>1, <2>3, <3>1 DEF Finish, Handles
    <3>3. QED
      BY <1>2, <1>12, <3>2, HandlesKeeps DEF Finish
  <2>4. QED
    BY <2>2, <2>3
<1>13. CASE FinishError(w) \/ Superseded(w) \/ RemoveOutput(w) \/ ConfirmError(w)
  <2>1. j \in Job /\ wpc[w] \in Executing
    BY <1>1, <1>2, <1>13 DEF FinishError, Superseded, RemoveOutput, ConfirmError
  <2>2. CASE FinishError(w)
    BY <1>1, <1>3, <1>5, <2>1, <2>2, HandlesKeeps DEF FinishError, Handles
  <2>3. CASE Superseded(w)
    <3>1. GoTo(w, "remove") /\ UNCHANGED <<record, output, residue>>
      BY <1>3, <2>1, <2>3 DEF Superseded
    <3>2. QED
      BY <1>1, <1>3, <1>5, <2>1, <3>1, HandlesKeeps DEF Handles
  <2>4. CASE RemoveOutput(w)
    BY <1>1, <1>3, <1>5, <2>1, <2>4, HandlesKeeps DEF RemoveOutput, Handles
  <2>5. CASE ConfirmError(w)
    BY <1>1, <1>3, <1>5, <1>6, <2>1, <2>5, HandlesKeeps DEF ConfirmError, Handles
  <2>6. QED
    BY <1>13, <2>2, <2>3, <2>4, <2>5
<1>14. CASE Confirm(w) \/ HandleError(w) \/ RecordFailure(w) \/ RecordFailureError(w)
  <2>1. /\ j \in Job /\ wpc[w] \in Executing /\ UNCHANGED <<output, residue>>
        /\ j \notin output \/ j \in residue
    BY <1>1, <1>2, <1>6, <1>14 DEF Confirm, HandleError, RecordFailure, RecordFailureError
  <2>2. /\ \A k \in Job : k # j => record'[k] = record[k]
        /\ record'[j] \in {"running", "cancellation_requested", "cancelled", "failed"}
    <3>1. CASE Confirm(w)
      BY <1>3, <2>1, <3>1, TransitionEffect, Names DEF Confirm, TypeOK
    <3>2. CASE HandleError(w)
      BY <1>3, <2>1, <3>2, TransitionEffect, Names DEF HandleError, TypeOK
    <3>3. CASE RecordFailure(w)
      BY <1>3, <2>1, <3>3, TransitionEffect, Names DEF RecordFailure, TypeOK
    <3>4. CASE RecordFailureError(w)
      BY <1>3, <2>1, <3>4 DEF RecordFailureError
    <3>5. QED
      BY <1>14, <3>1, <3>2, <3>3, <3>4
  <2>3. NextTurn(w) \/ ThreadDies(w) \/ GoTo(w, "fail")
    BY <1>14 DEF Confirm, HandleError, RecordFailure, RecordFailureError
  <2>4. Handles(w, j)
    BY <1>1, <1>4, <1>5, <2>1, <2>2, <2>3 DEF Handles
  <2>5. QED
    BY <2>1, <2>4, HandlesKeeps
<1>15. QED
  BY <1>7, <1>8, <1>9, <1>10, <1>11, <1>12, <1>13, <1>14 DEF WorkerStep

(* No handler touches a published directory or the record of a job that    *)
(* has one and is finished.                                                *)
LEMMA HandlerKeepsOutput ==
  ASSUME TypeOK, TypeOK', Parts, OutputParts, NEW h \in Handler, Request(h) \/ HandlerStep(h)
  PROVE  OutputParts'
<1> USE DEF others, durable, workers, history
<1>1. UNCHANGED <<output, residue, wpc, wjob>>
  BY DEF Request, HandlerStep, Submit, Retry, Cancel, SubmitRetry, WriteQueued, PutQueued,
         WriteRefused, WriteRefusedError, ReadForCancel, CancelQueued, CancelRunning
<1>2. \A k \in Job :
        \/ record'[k] = record[k]
        \/ record[k] \in {"absent", "queued"} /\ k \notin output /\ record'[k] # "succeeded"
        \/ record[k] = "running" /\ record'[k] = "cancellation_requested"
        \/ ~AtWork(k) /\ record[k] # "succeeded" /\ record'[k] = "failed"
  <2>1. \A k \in Job : record[k] \in {"absent", "queued"} => k \notin output
    BY DEF OutputParts
  <2>2. CASE Offers(h)
    BY <2>1, <2>2 DEF Offers, TypeOK
  <2>3. CASE Cancels(h)
    BY <2>1, <2>3 DEF Cancels, TypeOK
  <2>4. CASE PutQueued(h)
    BY <2>4 DEF PutQueued
  <2>5. CASE WriteRefused(h)
    <3>1. hpc[h] \in Offering /\ hjob[h] \in Job
      BY <2>5 DEF TypeOK, WriteRefused, Offering
    <3>2. ~AtWork(hjob[h]) /\ record[hjob[h]] # "succeeded"
      BY <3>1 DEF OfferIsPrivate, Parts
    <3>3. record'[hjob[h]] = "failed" /\ \A k \in Job : k # hjob[h] => record'[k] = record[k]
      BY <2>5, <3>1 DEF TypeOK, WriteRefused
    <3>4. QED
      BY <3>2, <3>3
  <2>6. CASE WriteRefusedError(h)
    BY <2>6 DEF WriteRefusedError
  <2>7. QED
    BY <2>2, <2>3, <2>4, <2>5, <2>6, HandlerShapes DEF Parts
<1>3. \A k \in Job : (Held(k)' <=> Held(k)) /\ (Held(k) => AtWork(k))
  BY <1>1 DEF Held, AtWork
<1>4. \A k \in output : k \in Job /\ record'[k] \notin {"absent", "queued"}
  <2>1. \A k \in output : k \in Job /\ record[k] \notin {"absent", "queued"}
    BY DEF OutputParts, TypeOK
  <2>2. QED
    BY <1>2, <2>1
<1>5. OutputMatchesRecord'
  <2>1. ASSUME NEW k \in Job, record'[k] = "succeeded" PROVE k \in output'
    BY <1>1, <1>2, <2>1 DEF OutputMatchesRecord, OutputParts
  <2>2. ASSUME NEW k \in Job, k \in output'
        PROVE  record'[k] = "succeeded" \/ Held(k)' \/ k \in residue'
    <3>1. record[k] = "succeeded" \/ Held(k) \/ k \in residue
      BY <1>1, <2>2 DEF OutputMatchesRecord, OutputParts
    <3>2. record[k] \notin {"absent", "queued"}
      BY <1>1, <2>2 DEF OutputParts
    <3>3. QED
      BY <1>1, <1>2, <1>3, <3>1, <3>2
  <2>3. QED
    BY <2>1, <2>2 DEF OutputMatchesRecord
<1>6. QED
  BY <1>1, <1>4, <1>5 DEF OutputParts, OutputAtWork

LEMMA MainKeepsOutput ==
  ASSUME TypeOK, TypeOK', Parts, OutputParts, Main
  PROVE  OutputParts'
<1> USE DEF durable, workers, handlers, history
<1>1. CASE Start
  <2>1. \A w \in Worker : wpc[w] = "off" /\ wpc'[w] = "idle"
    BY <1>1 DEF Start, DownIsEmpty, Parts
  <2>2. \A j \in Job : ~Held(j)
    BY <2>1 DEF Held, Executing
  <2>3. \A j \in Job : record'[j] = Recovered(record[j])
    BY <1>1 DEF Start
  <2>4. ASSUME NEW j \in Job
        PROVE  /\ record'[j] = "succeeded" <=> record[j] = "succeeded"
               /\ record'[j] \in {"absent", "queued"} => record'[j] = record[j]
    <3>1. CASE record[j] = "running"
      BY <2>3, <3>1 DEF Recovered
    <3>2. CASE record[j] = "cancellation_requested"
      BY <2>3, <3>2 DEF Recovered
    <3>3. CASE record[j] \notin {"running", "cancellation_requested"}
      BY <2>3, <3>3 DEF Recovered
    <3>4. QED
      BY <3>1, <3>2, <3>3
  <2>5. OutputMatchesRecord'
    BY <1>1, <2>2, <2>4 DEF Start, OutputMatchesRecord, OutputParts
  <2>6. \A j \in output' : record'[j] \notin {"absent", "queued"}
    BY <1>1, <2>4 DEF Start, OutputParts, TypeOK
  <2>7. OutputAtWork'
    BY <2>1 DEF OutputAtWork
  <2>8. QED
    BY <2>5, <2>6, <2>7 DEF OutputParts
<1>2. CASE Die
  <2>1. OutputAtWork'
    BY <1>2 DEF Die, OutputAtWork
  <2>2. OutputMatchesRecord'
    BY <1>2 DEF Die, OutputMatchesRecord, OutputParts
  <2>3. QED
    BY <1>2, <2>1, <2>2 DEF Die, OutputParts
<1>3. CASE EnqueueRecovered \/ Serve \/ Stop
  BY <1>3 DEF EnqueueRecovered, Serve, Stop, OutputParts, OutputMatchesRecord, OutputAtWork,
              Held
<1>4. QED
  BY <1>1, <1>2, <1>3 DEF Main, RecoveryOverflow, Exit, Crash

(* Every published output directory is accounted for, over any sequence of *)
(* cancellations, store errors, failed removals and crashes.               *)
THEOREM OutputAccounted == Spec => []OutputMatchesRecord
<1>1. Init => OutputParts
  BY DEF Init, OutputParts, OutputMatchesRecord, OutputAtWork
<1>2. IInv /\ TypeOK' /\ OutputParts /\ [Next]_vars => OutputParts'
  <2> SUFFICES ASSUME IInv, TypeOK', OutputParts, [Next]_vars
               PROVE  OutputParts'
    OBVIOUS
  <2>1. TypeOK /\ Parts
    BY HeldOnce DEF IInv, Parts
  <2>2. CASE UNCHANGED vars
    BY <2>2 DEF vars, OutputParts, OutputMatchesRecord, OutputAtWork, Held
  <2>3. QED
    BY <2>1, <2>2, WorkerKeepsOutput, HandlerKeepsOutput, MainKeepsOutput DEF Next, Parts
<1>3. OutputParts => OutputMatchesRecord
  BY DEF OutputParts
<1>4. QED
  BY <1>1, <1>2, <1>3, InductiveInvariant, TypeCorrect, PTL DEF Spec

-----------------------------------------------------------------------------
(* What one step may do to the status of a job as a client sees it.        *)
Moved(j) ==
  StatusSeen'[j] = StatusSeen[j] \/ <<StatusSeen[j], StatusSeen'[j]>> \in Lifecycle!Moves

(* The moves that steps of the daemon make.                                *)
LEMMA MovesMade ==
  /\ <<"absent", "offered">> \in Lifecycle!Moves
  /\ \A s \in {"queued", "failed", "cancelled"} : <<"offered", s>> \in Lifecycle!Moves
  /\ \A s \in {"running", "cancelled"} : <<"queued", s>> \in Lifecycle!Moves
  /\ \A s \in {"succeeded", "failed", "cancellation_requested"} :
       <<"running", s>> \in Lifecycle!Moves
  /\ <<"cancellation_requested", "cancelled">> \in Lifecycle!Moves
BY DEF Lifecycle!Moves

(* The status seen after a step is a status of the lifecycle.              *)
LEMMA SeenTyped ==
  ASSUME TypeOK'
  PROVE  StatusSeen' \in [Job -> Lifecycle!Status]
<1>1. \A s \in Status : s \in Lifecycle!Status
  BY DEF Status, Terminal, Lifecycle!Status, Lifecycle!Terminal
<1>2. "offered" \in Lifecycle!Status
  BY DEF Lifecycle!Status
<1>3. \A j \in Job : record'[j] \in Lifecycle!Status
  BY <1>1 DEF TypeOK
<1>4. QED
  BY <1>2, <1>3 DEF StatusSeen

(* What a client sees of a job before and after a step.                    *)
LEMMA Seen ==
  /\ \A j \in Job : StatusSeen[j] = IF Offered(j) THEN "offered" ELSE record[j]
  /\ \A j \in Job : StatusSeen'[j] = IF Offered(j)' THEN "offered" ELSE record'[j]
BY DEF StatusSeen

(* A worker moves at most its own job, and no job on offer.                *)
LEMMA WorkerMoves ==
  ASSUME TypeOK, TypeOK', Parts, NEW w \in Worker, WorkerStep(w), NEW j \in Job
  PROVE  Moved(j)
<1> USE DEF aside, durable, handlers
<1>1. UNCHANGED handlers
  BY WorkerShapes DEF Take, Began, Dropped, Stayed, Left, Parts
<1>2. Offered(j)' <=> Offered(j)
  BY <1>1 DEF Offered
<1>3. \/ record'[j] = record[j]
      \/ record[j] = "queued" /\ record'[j] = "running"
      \/ <<record[j], record'[j]>> \in Settlements
  BY WorkerShapes DEF Take, Began, Dropped, Stayed, Left, Parts, TypeOK
<1>4. CASE Offered(j)
  BY <1>2, <1>4, Seen DEF Moved
<1>5. CASE ~Offered(j)
  <2>1. StatusSeen[j] = record[j] /\ StatusSeen'[j] = record'[j]
    BY <1>2, <1>5, Seen
  <2>2. QED
    BY <1>3, <2>1, MovesMade DEF Moved, Settlements
<1>6. QED
  BY <1>4, <1>5

(* A handler offers a job, or ends an offer, or cancels.                   *)
LEMMA HandlerMoves ==
  ASSUME TypeOK, TypeOK', Parts, NEW h \in Handler, Request(h) \/ HandlerStep(h), NEW j \in Job
  PROVE  Moved(j)
<1> USE DEF others, durable, workers, history
<1>1. /\ "put" \in Offering /\ "full" \in Offering
      /\ "idle" \notin Offering /\ "retry" \notin Offering
  BY DEF Offering
<1>2. CASE Offers(h)
  <2>1. PICK k \in Job : /\ record[k] = "absent"
                         /\ record' = [record EXCEPT ![k] = "queued"] /\ HandlerTo(h, "put", k)
    BY <1>2 DEF Offers
  <2>2. /\ hpc'[h] = "put" /\ hjob'[h] = k /\ hpc[h] \notin Offering
        /\ \A g \in Handler : g # h => hpc'[g] = hpc[g] /\ hjob'[g] = hjob[g]
    BY <1>1, <1>2, <2>1 DEF TypeOK, HandlerTo, Offers
  <2>3. CASE j = k
    <3>1. ~Offered(j)
      BY <2>1, <2>3 DEF Offered, OfferIsPrivate, Parts
    <3>2. Offered(j)'
      BY <1>1, <2>2, <2>3 DEF Offered
    <3>3. QED
      BY <2>1, <2>3, <3>1, <3>2, Seen, MovesMade DEF Moved
  <2>4. CASE j # k
    <3>1. record'[j] = record[j] /\ (Offered(j)' <=> Offered(j))
      BY <2>1, <2>2, <2>4 DEF TypeOK, Offered
    <3>2. QED
      BY <3>1, Seen DEF Moved
  <2>5. QED
    BY <2>3, <2>4
<1>3. CASE Cancels(h)
  <2>1. PICK pc \in HandlerPC \ Offering, k \in Job \cup {None} : HandlerTo(h, pc, k)
    BY <1>3 DEF Cancels
  <2>2. /\ hpc[h] \notin Offering /\ hpc'[h] \notin Offering
        /\ \A g \in Handler : g # h => hpc'[g] = hpc[g] /\ hjob'[g] = hjob[g]
    BY <1>3, <2>1 DEF TypeOK, Cancels, HandlerTo
  <2>3. Offered(j)' <=> Offered(j)
    BY <2>2 DEF Offered
  <2>4. \/ record'[j] = record[j]
        \/ record[j] = "queued" /\ record'[j] = "cancelled"
        \/ record[j] = "running" /\ record'[j] = "cancellation_requested"
    BY <1>3 DEF TypeOK, Cancels
  <2>5. QED
    BY <2>3, <2>4, Seen, MovesMade DEF Moved
<1>4. CASE PutQueued(h) \/ WriteRefused(h) \/ WriteRefusedError(h)
  <2>1. hpc[h] \in Offering /\ hjob[h] \in Job
    BY <1>1, <1>4 DEF TypeOK, PutQueued, WriteRefused, WriteRefusedError, Offering
  <2>2. /\ record[hjob[h]] \in {"queued", "cancelled"}
        /\ \A g \in Handler : hpc[g] \in Offering /\ hjob[g] = hjob[h] => g = h
    BY <2>1 DEF OfferIsPrivate, Parts
  <2>3. /\ \A g \in Handler : g # h => hpc'[g] = hpc[g] /\ hjob'[g] = hjob[g]
        /\ \/ hpc'[h] = "idle"
           \/ hpc'[h] = "full" /\ hjob'[h] = hjob[h] /\ record' = record
    <3>1. CASE PutQueued(h)
      BY <3>1 DEF TypeOK, PutQueued, Done, HandlerTo
    <3>2. CASE WriteRefused(h) \/ WriteRefusedError(h)
      BY <3>2 DEF TypeOK, WriteRefused, WriteRefusedError, Done, HandlerTo
    <3>3. QED
      BY <1>4, <3>1, <3>2
  <2>4. /\ \A k \in Job : k # hjob[h] => record'[k] = record[k]
        /\ record'[hjob[h]] \in {record[hjob[h]], "failed"}
    BY <1>4, <2>1 DEF TypeOK, PutQueued, WriteRefused, WriteRefusedError
  <2>5. CASE j = hjob[h]
    <3>1. Offered(j)
      BY <2>1, <2>5 DEF Offered
    <3>2. CASE hpc'[h] = "idle"
      <4>1. ~Offered(j)'
        BY <1>1, <2>2, <2>3, <2>5, <3>2 DEF Offered
      <4>2. StatusSeen[j] = "offered" /\ StatusSeen'[j] \in {"queued", "cancelled", "failed"}
        BY <2>2, <2>4, <2>5, <3>1, <4>1, Seen
      <4>3. QED
        BY <4>2, MovesMade DEF Moved
    <3>3. CASE hpc'[h] = "full" /\ hjob'[h] = hjob[h]
      <4>1. Offered(j)'
        BY <1>1, <2>5, <3>3 DEF Offered
      <4>2. QED
        BY <3>1, <4>1, Seen DEF Moved
    <3>4. QED
      BY <2>3, <3>2, <3>3
  <2>6. CASE j # hjob[h]
    <3>1. Offered(j)' <=> Offered(j)
      BY <1>1, <2>3, <2>6 DEF Offered
    <3>2. QED
      BY <2>4, <2>6, <3>1, Seen DEF Moved
  <2>7. QED
    BY <2>5, <2>6
<1>5. QED
  BY <1>2, <1>3, <1>4, HandlerShapes DEF Parts

(* A start settles what an earlier process left; a death ends every offer. *)
LEMMA MainMoves ==
  ASSUME TypeOK, TypeOK', Parts, Main, NEW j \in Job
  PROVE  Moved(j)
<1> USE DEF durable, workers, handlers, history
<1>1. CASE Start
  <2>1. ~Offered(j) /\ ~Offered(j)'
    BY <1>1 DEF Start, DownIsEmpty, Parts, Offered, Offering
  <2>2. StatusSeen[j] = record[j] /\ StatusSeen'[j] = Recovered(record[j])
    BY <1>1, <2>1, Seen DEF Start
  <2>3. CASE record[j] = "running"
    BY <2>2, <2>3, MovesMade DEF Recovered, Moved
  <2>4. CASE record[j] = "cancellation_requested"
    BY <2>2, <2>4, MovesMade DEF Recovered, Moved
  <2>5. CASE record[j] \notin {"running", "cancellation_requested"}
    BY <2>2, <2>5 DEF Recovered, Moved
  <2>6. QED
    BY <2>3, <2>4, <2>5
<1>2. CASE Die
  <2>1. ~Offered(j)' /\ record' = record
    BY <1>2 DEF Die, Offered, Offering
  <2>2. CASE Offered(j)
    <3>1. record[j] \in {"queued", "cancelled"}
      BY <2>2 DEF Offered, OfferIsPrivate, Parts
    <3>2. QED
      BY <2>1, <2>2, <3>1, Seen, MovesMade DEF Moved
  <2>3. CASE ~Offered(j)
    BY <2>1, <2>3, Seen DEF Moved
  <2>4. QED
    BY <2>2, <2>3
<1>3. CASE EnqueueRecovered \/ Serve \/ Stop
  <2>1. record' = record /\ (Offered(j)' <=> Offered(j))
    BY <1>3 DEF EnqueueRecovered, Serve, Stop, Offered
  <2>2. QED
    BY <2>1, Seen DEF Moved
<1>4. QED
  BY <1>1, <1>2, <1>3 DEF Main, RecoveryOverflow, Exit, Crash

(* The daemon implements the lifecycle, whatever its threads and crashes   *)
(* do: clients see every job follow the moves of JobLifecycle.             *)
THEOREM DaemonImplementsLifecycle == Spec => ImplementsLifecycle
<1>1. Init => Lifecycle!Init
  BY DEF Init, Lifecycle!Init, StatusSeen, Offered, Offering
<1>2. IInv /\ TypeOK' /\ [Next]_vars => [Lifecycle!Next]_StatusSeen
  <2> SUFFICES ASSUME IInv, TypeOK', [Next]_vars
               PROVE  [Lifecycle!Next]_StatusSeen
    OBVIOUS
  <2>1. TypeOK /\ Parts
    BY HeldOnce DEF IInv, Parts
  <2>2. CASE UNCHANGED vars
    BY <2>2 DEF vars, StatusSeen, Offered
  <2>3. CASE Next
    <3>1. \A j \in Job : Moved(j)
      BY <2>1, <2>3, WorkerMoves, HandlerMoves, MainMoves DEF Next
    <3>2. StatusSeen' \in [Job -> Lifecycle!Status]
      BY SeenTyped
    <3>3. QED
      BY <3>1, <3>2 DEF Lifecycle!Next, Moved
  <2>4. QED
    BY <2>2, <2>3
<1>3. QED
  BY <1>1, <1>2, InductiveInvariant, TypeCorrect, PTL DEF Spec, ImplementsLifecycle, Lifecycle!Spec
=============================================================================
