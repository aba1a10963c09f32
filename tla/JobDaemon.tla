----------------------------- MODULE JobDaemon -----------------------------
(***************************************************************************)
(* The job daemon of core/daemon.py: one process with a durable store of   *)
(* job records, a bounded in-memory queue, worker threads that generate    *)
(* the artifacts of one job at a time, and request-handler threads that    *)
(* submit, cancel and retry.  The process may stop, crash and start again; *)
(* records and published output directories survive it, nothing else does. *)
(*                                                                         *)
(* A step is what one thread does between two operations of the store or   *)
(* of the queue, which are the only operations the code makes atomic.      *)
(***************************************************************************)
EXTENDS Naturals, Sequences, FiniteSets

CONSTANTS
  Job,            \* job identifiers; their order is the order of record files
  Worker,         \* the worker threads of DaemonRuntime.start_workers
  Handler,        \* the request threads that may be in progress at once
  QueueMax,       \* capacity of the in-memory queue (1000 in the code)
  StoreMayFail,   \* may an update of a record raise (a full or failing disk)?
  None            \* no job

ASSUME JobAssumption == Job \subseteq Nat
ASSUME NoneAssumption == None \notin Job
ASSUME QueueAssumption == QueueMax \in Nat \ {0}
ASSUME StoreAssumption == StoreMayFail \in BOOLEAN

VARIABLES
  \* durable: files under state_root/jobs and output_root
  record,     \* status of each job's record, "absent" before it is written
  parent,     \* retried_from of each record
  output,     \* jobs whose output directory is published
  \* volatile: the daemon process
  phase,      \* what the main thread of the process does
  queue,      \* DaemonRuntime.queue
  backlog,    \* recovered jobs that start_workers has not queued yet
  wpc, wjob,  \* where each worker is, and the job in its hands
  hpc, hjob,  \* where each request handler is, and its job
  \* history: read by the properties only
  runs,       \* how often a worker has set the job running
  refused,    \* jobs whose submit was answered "queue is full"
  abandoned,  \* jobs a store error made a thread of this process drop
  residue     \* jobs whose output nobody is left to remove

durable == <<record, parent, output>>
workers == <<wpc, wjob>>
handlers == <<hpc, hjob>>
history == <<runs, refused, abandoned, residue>>
vars == <<record, parent, output, phase, queue, backlog, wpc, wjob, hpc, hjob,
          runs, refused, abandoned, residue>>

(* TERMINAL_STATES *)
Terminal == {"succeeded", "failed", "cancelled"}
Status == {"absent", "queued", "running", "cancellation_requested"} \cup Terminal

(* serve(): not running; start_workers; serve_forever; stop_workers *)
Phase == {"down", "recovering", "serving", "draining"}

(* Between taking a job to "running" and the end of the loop body *)
Executing == {"generate", "finish", "superseded", "remove", "confirm",
              "except", "fail"}
WorkerPC == {"off", "idle", "got"} \cup Executing

Offering == {"put", "full"}
HandlerPC == {"idle", "retry", "cancel", "cancelQueued", "cancelRunning"} \cup Offering

InQueue == {queue[i] : i \in DOMAIN queue}
Held(j) == \E w \in Worker : wpc[w] \in Executing /\ wjob[w] = j
Offered(j) == \E h \in Handler : hpc[h] \in Offering /\ hjob[h] = j

TypeOK ==
  /\ record \in [Job -> Status]
  /\ parent \in [Job -> Job \cup {None}]
  /\ output \in SUBSET Job
  /\ phase \in Phase
  /\ queue \in Seq(Job)
  /\ backlog \in SUBSET Job
  /\ wpc \in [Worker -> WorkerPC]
  /\ wjob \in [Worker -> Job \cup {None}]
  /\ \A w \in Worker : wpc[w] \in {"off", "idle"} <=> wjob[w] = None
  /\ hpc \in [Handler -> HandlerPC]
  /\ hjob \in [Handler -> Job \cup {None}]
  /\ \A h \in Handler : hpc[h] = "idle" <=> hjob[h] = None
  /\ runs \in [Job -> Nat]
  /\ refused \in SUBSET Job
  /\ abandoned \in SUBSET Job
  /\ residue \in SUBSET Job

Init ==
  /\ record = [j \in Job |-> "absent"]
  /\ parent = [j \in Job |-> None]
  /\ output = {}
  /\ phase = "down"
  /\ queue = <<>>
  /\ backlog = {}
  /\ wpc = [w \in Worker |-> "off"]
  /\ wjob = [w \in Worker |-> None]
  /\ hpc = [h \in Handler |-> "idle"]
  /\ hjob = [h \in Handler |-> None]
  /\ runs = [j \in Job |-> 0]
  /\ refused = {}
  /\ abandoned = {}
  /\ residue = {}

-----------------------------------------------------------------------------
(* The process: start, recovery, orderly stop, death *)

(* Mutant: a restart runs an interrupted job again. *)
RecoveredRequeues(s) == IF s = "running" THEN "queued" ELSE s

(* Mutant: a restart leaves an interrupted job as it is. *)
RecoveredForgets(s) == IF s = "cancellation_requested" THEN "cancelled" ELSE s

(* JobStore.recover: what a restart makes of a record it finds *)
Recovered(s) ==
  IF s = "running" THEN "failed"
  ELSE IF s = "cancellation_requested" THEN "cancelled" ELSE s

(* Mutant: the recovered jobs are settled but never queued. *)
StartWithoutBacklog ==
  /\ phase = "down"
  /\ phase' = "recovering"
  /\ record' = [j \in Job |-> Recovered(record[j])]
  /\ wpc' = [w \in Worker |-> "idle"]
  /\ wjob' = [w \in Worker |-> None]
  /\ UNCHANGED <<parent, output, queue, backlog, handlers, history>>

(* start_workers up to the first put: the workers run and wait on the empty *)
(* queue, no request is served yet, so that nothing interleaves with        *)
(* recover().                                                               *)
Start ==
  /\ phase = "down"
  /\ phase' = "recovering"
  /\ record' = [j \in Job |-> Recovered(record[j])]
  /\ backlog' = {j \in Job : record[j] = "queued"}
  /\ wpc' = [w \in Worker |-> "idle"]
  /\ wjob' = [w \in Worker |-> None]
  /\ UNCHANGED <<parent, output, queue, handlers, history>>

(* Everything volatile is gone; daemon threads die with the process. *)
Die ==
  /\ phase' = "down"
  /\ queue' = <<>>
  /\ backlog' = {}
  /\ wpc' = [w \in Worker |-> "off"]
  /\ wjob' = [w \in Worker |-> None]
  /\ hpc' = [h \in Handler |-> "idle"]
  /\ hjob' = [h \in Handler |-> None]
  /\ abandoned' = {}
  /\ residue' = residue \cup {j \in output : Held(j)}
  /\ UNCHANGED <<durable, runs, refused>>

(* for job_id in recover(): put_nowait(job_id), oldest record first, while *)
(* the workers already take jobs.                                          *)
EnqueueRecovered ==
  /\ phase = "recovering"
  /\ Len(queue) < QueueMax
  /\ \E j \in backlog :
       /\ \A k \in backlog : j <= k
       /\ queue' = Append(queue, j)
       /\ backlog' = backlog \ {j}
  /\ UNCHANGED <<durable, phase, workers, handlers, history>>

(* put_nowait raises queue.Full out of serve(): the process ends. *)
RecoveryOverflow ==
  /\ phase = "recovering"
  /\ backlog # {}
  /\ Len(queue) >= QueueMax
  /\ Die

Serve ==
  /\ phase = "recovering"
  /\ backlog = {}
  /\ phase' = "serving"
  /\ UNCHANGED <<durable, queue, backlog, workers, handlers, history>>

(* server_close and _stopping.set: no further request, no further job. *)
Stop ==
  /\ phase = "serving"
  /\ phase' = "draining"
  /\ UNCHANGED <<durable, queue, backlog, workers, handlers, history>>

(* stop_workers joins for five seconds at most; then the process exits and *)
(* takes along what still runs.                                            *)
Exit == phase = "draining" /\ Die

Crash == phase # "down" /\ Die

-----------------------------------------------------------------------------
(* Worker threads: DaemonRuntime._worker *)

(* Mutant: an unconditional write instead of a compare-and-set. *)
TransitionUnchecked(j, allowed, new) == record' = [record EXCEPT ![j] = new]

(* JobStore.transition: a compare-and-set of the record's status. *)
Transition(j, allowed, new) ==
  record' = IF record[j] \in allowed THEN [record EXCEPT ![j] = new] ELSE record

GoTo(w, pc) == wpc' = [wpc EXCEPT ![w] = pc] /\ UNCHANGED wjob

(* The next turn of the loop, which a stopping daemon ends. *)
NextTurn(w) ==
  /\ wpc' = [wpc EXCEPT ![w] = IF phase = "draining" THEN "off" ELSE "idle"]
  /\ wjob' = [wjob EXCEPT ![w] = None]

(* An exception outside the job's own try: the thread ends. *)
ThreadDies(w) ==
  /\ wpc' = [wpc EXCEPT ![w] = "off"]
  /\ wjob' = [wjob EXCEPT ![w] = None]
  /\ abandoned' = abandoned \cup {wjob[w]}

(* queue.get; a worker already waiting may still get a job of a stopping daemon *)
Take(w) ==
  /\ wpc[w] = "idle"
  /\ queue # <<>>
  /\ wpc' = [wpc EXCEPT ![w] = "got"]
  /\ wjob' = [wjob EXCEPT ![w] = Head(queue)]
  /\ queue' = Tail(queue)
  /\ UNCHANGED <<durable, phase, backlog, handlers, history>>

(* An idle worker of a stopping daemon leaves the loop; one that has just   *)
(* taken a job returns and leaves the record for the next process.          *)
Quit(w) ==
  /\ phase = "draining"
  /\ wpc[w] \in {"idle", "got"}
  /\ NextTurn(w)
  /\ UNCHANGED <<durable, phase, queue, backlog, handlers, history>>

(* The job starts unless a cancel or a refusal came first. *)
StartJob(w) ==
  LET j == wjob[w] IN
  /\ wpc[w] = "got"
  /\ phase # "draining"
  /\ Transition(j, {"queued"}, "running")
  /\ IF record[j] = "queued"
       THEN GoTo(w, "generate") /\ runs' = [runs EXCEPT ![j] = @ + 1]
       ELSE NextTurn(w) /\ UNCHANGED runs
  /\ UNCHANGED <<parent, output, phase, queue, backlog, handlers,
                 refused, abandoned, residue>>

StartJobError(w) ==
  /\ StoreMayFail
  /\ wpc[w] = "got"
  /\ phase # "draining"
  /\ ThreadDies(w)
  /\ UNCHANGED <<durable, phase, queue, backlog, handlers, runs, refused, residue>>

(* generate_artifacts returns: the whole directory is published at once, or *)
(* nothing is and an exception is raised.                                   *)
Generate(w) ==
  /\ wpc[w] = "generate"
  /\ \/ GoTo(w, "finish") /\ output' = output \cup {wjob[w]}
     \/ GoTo(w, "except") /\ UNCHANGED output
  /\ UNCHANGED <<record, parent, phase, queue, backlog, handlers, history>>

Finish(w) ==
  LET j == wjob[w] IN
  /\ wpc[w] = "finish"
  /\ Transition(j, {"running"}, "succeeded")
  /\ IF record[j] = "running" THEN NextTurn(w) ELSE GoTo(w, "superseded")
  /\ UNCHANGED <<parent, output, phase, queue, backlog, handlers, history>>

(* The update raises inside the job's try: the published output stays. *)
FinishError(w) ==
  /\ StoreMayFail
  /\ wpc[w] = "finish"
  /\ GoTo(w, "except")
  /\ residue' = residue \cup {wjob[w]}
  /\ UNCHANGED <<durable, phase, queue, backlog, handlers, runs, refused, abandoned>>

(* Mutant: a superseded job is confirmed without removing its output. *)
SupersededKeepsOutput(w) ==
  /\ wpc[w] = "superseded"
  /\ GoTo(w, "confirm")
  /\ UNCHANGED <<durable, phase, queue, backlog, handlers, history>>

(* The record is read again: only a cancellation may have come between. *)
Superseded(w) ==
  /\ wpc[w] = "superseded"
  /\ GoTo(w, IF record[wjob[w]] = "cancellation_requested" THEN "remove" ELSE "except")
  /\ UNCHANGED <<durable, phase, queue, backlog, handlers, history>>

(* shutil.rmtree(output_dir, ignore_errors=True) *)
RemoveOutput(w) ==
  /\ wpc[w] = "remove"
  /\ GoTo(w, "confirm")
  /\ \/ output' = output \ {wjob[w]} /\ UNCHANGED residue
     \/ residue' = residue \cup {wjob[w]} /\ UNCHANGED output
  /\ UNCHANGED <<record, parent, phase, queue, backlog, handlers,
                 runs, refused, abandoned>>

Confirm(w) ==
  /\ wpc[w] = "confirm"
  /\ Transition(wjob[w], {"cancellation_requested"}, "cancelled")
  /\ NextTurn(w)
  /\ UNCHANGED <<parent, output, phase, queue, backlog, handlers, history>>

ConfirmError(w) ==
  /\ StoreMayFail
  /\ wpc[w] = "confirm"
  /\ GoTo(w, "except")
  /\ UNCHANGED <<durable, phase, queue, backlog, handlers, history>>

(* Mutant: the loop goes on without recording the failure. *)
HandleErrorOnly(w) ==
  LET j == wjob[w] IN
  /\ wpc[w] = "except"
  /\ Transition(j, {"cancellation_requested"}, "cancelled")
  /\ NextTurn(w)
  /\ UNCHANGED <<parent, output, phase, queue, backlog, handlers, history>>

(* except: first compare-and-set, for a job whose cancellation was requested *)
HandleError(w) ==
  LET j == wjob[w] IN
  /\ wpc[w] = "except"
  /\ Transition(j, {"cancellation_requested"}, "cancelled")
  /\ IF record[j] = "cancellation_requested" THEN NextTurn(w) ELSE GoTo(w, "fail")
  /\ UNCHANGED <<parent, output, phase, queue, backlog, handlers, history>>

(* except: second compare-and-set, whose outcome the code does not look at *)
RecordFailure(w) ==
  /\ wpc[w] = "fail"
  /\ Transition(wjob[w], {"running"}, "failed")
  /\ NextTurn(w)
  /\ UNCHANGED <<parent, output, phase, queue, backlog, handlers, history>>

RecordFailureError(w) ==
  /\ StoreMayFail
  /\ wpc[w] \in {"except", "fail"}
  /\ ThreadDies(w)
  /\ UNCHANGED <<durable, phase, queue, backlog, handlers, runs, refused, residue>>

-----------------------------------------------------------------------------
(* Request handlers: DaemonRuntime.submit, cancel and retry *)

HandlerTo(h, pc, j) ==
  /\ hpc' = [hpc EXCEPT ![h] = pc]
  /\ hjob' = [hjob EXCEPT ![h] = j]

Done(h) == HandlerTo(h, "idle", None)

(* A request is accepted while the daemon serves; its thread is not joined  *)
(* by server_close and may act on it while the daemon drains already, as   *)
(* the check for a stopping daemon comes first in submit.                  *)
Answering == phase \in {"serving", "draining"}

(* submit: store.write of the record of a fresh identifier *)
WriteQueued(h, j) ==
  /\ record[j] = "absent"
  /\ record' = [record EXCEPT ![j] = "queued"]
  /\ HandlerTo(h, "put", j)

Submit(h) ==
  /\ hpc[h] = "idle"
  /\ Answering
  /\ \E j \in Job : WriteQueued(h, j)
  /\ UNCHANGED <<parent, output, phase, queue, backlog, workers, history>>

(* Mutant: a job whose cancellation is pending counts as finished. *)
RetryUnfinished(h) ==
  /\ hpc[h] = "idle"
  /\ Answering
  /\ \E previous \in Job :
       /\ record[previous] \in Terminal \cup {"cancellation_requested"}
       /\ HandlerTo(h, "retry", previous)
  /\ UNCHANGED <<durable, phase, queue, backlog, workers, history>>

(* retry: read the record, which has to be of a finished job *)
Retry(h) ==
  /\ hpc[h] = "idle"
  /\ Answering
  /\ \E previous \in Job :
       /\ record[previous] \in Terminal
       /\ HandlerTo(h, "retry", previous)
  /\ UNCHANGED <<durable, phase, queue, backlog, workers, history>>

(* and submit its request as a new job; a stopping daemon refuses, and the *)
(* write of the new record may fail                                        *)
SubmitRetry(h) ==
  /\ hpc[h] = "retry"
  /\ \/ \E j \in Job :
          WriteQueued(h, j) /\ parent' = [parent EXCEPT ![j] = hjob[h]]
     \/ /\ phase = "draining" \/ StoreMayFail
        /\ Done(h)
        /\ UNCHANGED <<record, parent>>
  /\ UNCHANGED <<output, phase, queue, backlog, workers, history>>

(* queue.put_nowait: the job is accepted, or the queue is full *)
PutQueued(h) ==
  /\ hpc[h] = "put"
  /\ IF Len(queue) < QueueMax
       THEN queue' = Append(queue, hjob[h]) /\ Done(h)
       ELSE HandlerTo(h, "full", hjob[h]) /\ UNCHANGED queue
  /\ UNCHANGED <<durable, phase, backlog, workers, history>>

(* Mutant: a full queue is reported and the durable record left queued. *)
RefuseOnly(h) ==
  /\ hpc[h] = "full"
  /\ refused' = refused \cup {hjob[h]}
  /\ Done(h)
  /\ UNCHANGED <<durable, phase, queue, backlog, workers, runs, abandoned, residue>>

(* except queue.Full: the handler writes its own copy of the record, now   *)
(* failed, whatever the stored record has become.                          *)
WriteRefused(h) ==
  /\ hpc[h] = "full"
  /\ record' = [record EXCEPT ![hjob[h]] = "failed"]
  /\ refused' = refused \cup {hjob[h]}
  /\ Done(h)
  /\ UNCHANGED <<parent, output, phase, queue, backlog, workers,
                 runs, abandoned, residue>>

WriteRefusedError(h) ==
  /\ StoreMayFail
  /\ hpc[h] = "full"
  /\ abandoned' = abandoned \cup {hjob[h]}
  /\ Done(h)
  /\ UNCHANGED <<durable, phase, queue, backlog, workers, runs, refused, residue>>

Cancel(h) ==
  /\ hpc[h] = "idle"
  /\ Answering
  /\ \E j \in Job : record[j] # "absent" /\ HandlerTo(h, "cancel", j)
  /\ UNCHANGED <<durable, phase, queue, backlog, workers, history>>

(* Mutant: a pending cancellation is requested once more. *)
ReadForCancelAgain(h) ==
  LET j == hjob[h] IN
  /\ hpc[h] = "cancel"
  /\ \/ record[j] = "queued" /\ HandlerTo(h, "cancelQueued", j)
     \/ /\ record[j] \in {"running", "cancellation_requested"}
        /\ HandlerTo(h, "cancelRunning", j)
     \/ record[j] \in Terminal /\ Done(h)
  /\ UNCHANGED <<durable, phase, queue, backlog, workers, history>>

(* cancel: read the record and decide which compare-and-set to try *)
ReadForCancel(h) ==
  LET j == hjob[h] IN
  /\ hpc[h] = "cancel"
  /\ \/ record[j] = "queued" /\ HandlerTo(h, "cancelQueued", j)
     \/ record[j] = "running" /\ HandlerTo(h, "cancelRunning", j)
     \/ record[j] \notin {"queued", "running"} /\ Done(h)
  /\ UNCHANGED <<durable, phase, queue, backlog, workers, history>>

(* the compare-and-set; a lost race starts cancel over *)
CancelQueued(h) ==
  LET j == hjob[h] IN
  /\ hpc[h] = "cancelQueued"
  /\ Transition(j, {"queued"}, "cancelled")
  /\ IF record[j] = "queued" THEN Done(h) ELSE HandlerTo(h, "cancel", j)
  /\ UNCHANGED <<parent, output, phase, queue, backlog, workers, history>>

CancelRunning(h) ==
  LET j == hjob[h] IN
  /\ hpc[h] = "cancelRunning"
  /\ Transition(j, {"running"}, "cancellation_requested")
  /\ IF record[j] = "running" THEN Done(h) ELSE HandlerTo(h, "cancel", j)
  /\ UNCHANGED <<parent, output, phase, queue, backlog, workers, history>>

-----------------------------------------------------------------------------
Main == Start \/ EnqueueRecovered \/ RecoveryOverflow \/ Serve \/ Stop \/ Exit \/ Crash

WorkerStep(w) ==
  \/ Take(w) \/ Quit(w) \/ StartJob(w) \/ StartJobError(w) \/ Generate(w)
  \/ Finish(w) \/ FinishError(w) \/ Superseded(w) \/ RemoveOutput(w)
  \/ Confirm(w) \/ ConfirmError(w) \/ HandleError(w) \/ RecordFailure(w)
  \/ RecordFailureError(w)

(* What a handler does once its request has begun *)
HandlerStep(h) ==
  \/ SubmitRetry(h) \/ PutQueued(h) \/ WriteRefused(h) \/ WriteRefusedError(h)
  \/ ReadForCancel(h) \/ CancelQueued(h) \/ CancelRunning(h)

Request(h) == Submit(h) \/ Retry(h) \/ Cancel(h)

Next ==
  \/ Main
  \/ \E w \in Worker : WorkerStep(w)
  \/ \E h \in Handler : Request(h) \/ HandlerStep(h)

Spec == Init /\ [][Next]_vars

(* A thread that can run does run: the operating system schedules the      *)
(* threads, generate_artifacts ends because every subprocess it starts has *)
(* a timeout, and the store's lock is held for one file operation.  Nobody *)
(* is obliged to send a request, to stop the daemon or to start it.        *)
FairSpec ==
  /\ Spec
  /\ WF_vars(EnqueueRecovered) /\ WF_vars(Serve)
  /\ \A w \in Worker : WF_vars(WorkerStep(w))
  /\ \A h \in Handler : WF_vars(HandlerStep(h))

-----------------------------------------------------------------------------
(* Safety *)

(* No job is started twice, over any sequence of crashes and restarts: an  *)
(* interrupted job is settled by recover(), never queued again, and the    *)
(* compare-and-set in _worker lets one worker win.                         *)
RunsAtMostOnce == \A j \in Job : runs[j] <= 1

(* While a process is up, a running record has exactly one worker that     *)
(* will settle it, unless a store error ended that worker's thread.        *)
RunningIsHeld ==
  \A j \in Job : record[j] = "running" /\ phase # "down" =>
    \/ j \in abandoned
    \/ \E w \in Worker : {v \in Worker : wpc[v] \in Executing /\ wjob[v] = j} = {w}

(* While the daemon serves, a queued record is on its way to a worker: in  *)
(* the queue or in the hands of a thread that will put or start it, unless *)
(* a store error made a thread drop it.  No restart and no race of submit, *)
(* cancel and the workers strands a job.                                   *)
QueuedIsReachable ==
  \A j \in Job : record[j] = "queued" /\ phase \in {"recovering", "serving"} =>
    \/ j \in InQueue \cup backlog \cup abandoned
    \/ \E w \in Worker : wpc[w] = "got" /\ wjob[w] = j
    \/ Offered(j)

(* A succeeded job has its output directory; any other directory still     *)
(* belongs to the worker that published it, or is the residue of a death   *)
(* of the process, a store error or a failed removal after publication.    *)
OutputMatchesRecord ==
  \A j \in Job :
    /\ record[j] = "succeeded" => j \in output
    /\ j \in output => record[j] = "succeeded" \/ Held(j) \/ j \in residue

(* A job whose submit was refused because the queue is full never runs,    *)
(* not even after a restart reads its record.                              *)
RefusedNeverRuns == \A j \in refused : record[j] = "failed" /\ runs[j] = 0

(* Only a finished job has a retry, and it stays finished.                 *)
RetriedIsFinished ==
  \A j \in Job : parent[j] # None => record[parent[j]] \in Terminal

(* The daemon implements the lifecycle it promises, seen as a client sees  *)
(* it: a job is on offer until its submit is answered.                     *)
StatusSeen == [j \in Job |-> IF Offered(j) THEN "offered" ELSE record[j]]

Lifecycle == INSTANCE JobLifecycle WITH status <- StatusSeen

ImplementsLifecycle == Lifecycle!Spec

(* Why these hold.  Every job that threads of the process may bring to a   *)
(* worker has a record; a job on offer is in no other hands than those of  *)
(* its handler, so that refusing it cannot hit a job that runs; a job that *)
(* a worker executes is on record as running or being cancelled; and what  *)
(* retry has read as finished is still finished when it submits.           *)
AtWork(j) == j \in InQueue \/ j \in backlog \/ \E w \in Worker : wjob[w] = j

DownIsEmpty ==
  phase = "down" =>
    /\ queue = <<>> /\ backlog = {}
    /\ \A w \in Worker : wpc[w] = "off"
    /\ \A h \in Handler : hpc[h] = "idle"

RunsCounted ==
  \A j \in Job : runs[j] <= 1 /\ (record[j] \in {"absent", "queued"} => runs[j] = 0)

WorkIsKnown == \A j \in Job : AtWork(j) => record[j] # "absent"

OfferIsPrivate ==
  \A h \in Handler : hpc[h] \in Offering =>
    /\ record[hjob[h]] \in {"queued", "cancelled"}
    /\ runs[hjob[h]] = 0
    /\ ~AtWork(hjob[h])
    /\ \A g \in Handler : hpc[g] \in Offering /\ hjob[g] = hjob[h] => g = h

ExecutionOnRecord ==
  \A w \in Worker : wpc[w] \in Executing =>
    /\ record[wjob[w]] \in {"running", "cancellation_requested"}
    /\ wpc[w] \in {"superseded", "remove", "confirm"} =>
         record[wjob[w]] = "cancellation_requested"
    /\ \A v \in Worker : wpc[v] \in Executing /\ wjob[v] = wjob[w] => v = w

RetryIsFinished ==
  \A h \in Handler : hpc[h] = "retry" => record[hjob[h]] \in Terminal

IInv ==
  /\ TypeOK
  /\ DownIsEmpty
  /\ RunsCounted
  /\ WorkIsKnown
  /\ OfferIsPrivate
  /\ ExecutionOnRecord
  /\ RunningIsHeld
  /\ RefusedNeverRuns
  /\ RetriedIsFinished
  /\ RetryIsFinished

(* TERMINAL_STATES are terminal: no record ever leaves one.                *)
TerminalIsFinal ==
  [][\A j \in Job : record[j] \in Terminal => record'[j] = record[j]]_vars

-----------------------------------------------------------------------------
(* Liveness, of a daemon that eventually stays up *)

StaysUp == <>[](phase = "serving")

(* Every queued job gets its turn.                                         *)
QueuedProgress ==
  StaysUp => \A j \in Job : record[j] = "queued" ~> record[j] # "queued"

(* Every running job is settled, or its cancellation is on record.         *)
RunningProgress ==
  StaysUp => \A j \in Job : record[j] = "running" ~> record[j] # "running"

(* cancel() starts over when it loses a race, and never forever.           *)
CancelAnswered ==
  StaysUp => \A h \in Handler : hpc[h] = "cancel" ~> hpc[h] = "idle"

(* A requested cancellation is carried out.                                *)
CancellationResolves ==
  StaysUp => \A j \in Job :
    record[j] = "cancellation_requested" ~> record[j] = "cancelled"
=============================================================================
