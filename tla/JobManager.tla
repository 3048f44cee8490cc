----------------------------- MODULE JobManager -----------------------------
(***************************************************************************)
(* The process-wide job manager (async.go): a FIFO queue of named jobs     *)
(* served by at most maxConcurrentJobs worker goroutines that are spawned  *)
(* by Submit and end when they find the queue empty.                       *)
(*                                                                         *)
(* Every critical section of jobManager.mu is one action.  The job itself  *)
(* runs outside the mutex, between TakeJob and FinishJob or PanicJob.  A   *)
(* job's error is only logged, so success and failure are one action.      *)
(***************************************************************************)
EXTENDS Integers, Sequences, FiniteSets

CONSTANTS
    Job,                \* the calls of Submit: one closure each
    JobName,            \* the name each call passes
    NoName,             \* the empty name: no duplicate prevention
    NoJob,              \* a worker that is executing nothing
    MaxConcurrentJobs,  \* jobManager.maxConcurrentJobs
    MayPanic            \* the jobs whose closure may panic

Worker == 1 .. MaxConcurrentJobs

Idle == "idle"          \* spawned, or back at the top of the loop
Running == "running"    \* executing next.job()
Returned == "returned"  \* next.job() returned, its name is not deleted yet
Absent == "absent"      \* no such goroutine

ASSUME MaxConcurrentJobsAssumption == MaxConcurrentJobs \in Nat \ {0}
ASSUME MayPanicAssumption == MayPanic \subseteq Job

VARIABLES
    activeWorkers,  \* jobManager.activeWorkers
    queue,          \* jobManager.queue
    names,          \* jobManager.names
    doing,          \* where each worker goroutine is
    job,            \* the local variable next of each worker
    submitted       \* the calls of Submit made so far

jobVars == <<activeWorkers, queue, names, doing, job, submitted>>

Alive == {w \in Worker : doing[w] # Absent}
AtWork == {w \in Worker : doing[w] \in {Running, Returned}}
IdleWorkers == {w \in Worker : doing[w] = Idle}

\* The jobs that are enqueued or running, as the comment of Submit has it.
Queued == {queue[i] : i \in DOMAIN queue}
InProgress == {job[w] : w \in AtWork}

\* The types of the variables (jobManager and its workers).
JobsTypeOK ==
    /\ activeWorkers \in 0 .. MaxConcurrentJobs
    /\ queue \in Seq(Job)
    /\ names \subseteq {JobName[j] : j \in Job} \ {NoName}
    /\ doing \in [Worker -> {Absent, Idle, Running, Returned}]
    /\ job \in [Worker -> Job \cup {NoJob}]
    /\ \A w \in AtWork : job[w] \in Job
    /\ submitted \subseteq Job

JobsInit ==
    /\ activeWorkers = 0
    /\ queue = <<>>
    /\ names = {}
    /\ doing = [w \in Worker |-> Absent]
    /\ job = [w \in Worker |-> NoJob]
    /\ submitted = {}

-----------------------------------------------------------------------------
\* Mutant of Enqueue: a worker is spawned only when there is none.
EnqueueSpawnsOne(j) ==
    /\ queue' = Append(queue, j)
    /\ names' = IF JobName[j] = NoName THEN names ELSE names \cup {JobName[j]}
    /\ IF activeWorkers = 0
          THEN /\ activeWorkers' = 1
               /\ doing' = [doing EXCEPT ![1] = Idle]
          ELSE UNCHANGED <<activeWorkers, doing>>

(***************************************************************************)
(* Submit.  A name that is present makes the call a no-op; otherwise the   *)
(* job is appended and a worker is spawned while there are fewer than the  *)
(* maximum.                                                                *)
(***************************************************************************)
Enqueue(j) ==
    /\ queue' = Append(queue, j)
    /\ names' = IF JobName[j] = NoName THEN names ELSE names \cup {JobName[j]}
    /\ \/ /\ activeWorkers < MaxConcurrentJobs
          /\ activeWorkers' = activeWorkers + 1
          /\ \E w \in Worker :
                /\ doing[w] = Absent
                /\ doing' = [doing EXCEPT ![w] = Idle]
       \/ /\ activeWorkers >= MaxConcurrentJobs
          /\ UNCHANGED <<activeWorkers, doing>>

Submit(j) ==
    /\ j \notin submitted
    /\ submitted' = submitted \cup {j}
    /\ \/ /\ JobName[j] \in names
          /\ UNCHANGED <<activeWorkers, queue, names, doing>>
       \/ /\ JobName[j] \notin names
          /\ Enqueue(j)
    /\ UNCHANGED job

\* Mutant of TakeJob: the name is deleted when the job is taken.
TakeJobForgetsName(w) ==
    /\ doing[w] = Idle
    /\ queue # <<>>
    /\ job' = [job EXCEPT ![w] = Head(queue)]
    /\ queue' = Tail(queue)
    /\ names' = names \ {JobName[Head(queue)]}
    /\ doing' = [doing EXCEPT ![w] = Running]
    /\ UNCHANGED <<activeWorkers, submitted>>

\* Mutant of TakeJob: the newest job is taken first.
TakeLastJob(w) ==
    /\ doing[w] = Idle
    /\ queue # <<>>
    /\ job' = [job EXCEPT ![w] = queue[Len(queue)]]
    /\ queue' = SubSeq(queue, 1, Len(queue) - 1)
    /\ doing' = [doing EXCEPT ![w] = Running]
    /\ UNCHANGED <<activeWorkers, names, submitted>>

\* The top of the worker's loop with a job to take.
TakeJob(w) ==
    /\ doing[w] = Idle
    /\ queue # <<>>
    /\ job' = [job EXCEPT ![w] = Head(queue)]
    /\ queue' = Tail(queue)
    /\ doing' = [doing EXCEPT ![w] = Running]
    /\ UNCHANGED <<activeWorkers, names, submitted>>

\* The top of the worker's loop with an empty queue: the goroutine ends.
ExitWorker(w) ==
    /\ doing[w] = Idle
    /\ queue = <<>>
    /\ activeWorkers' = activeWorkers - 1
    /\ doing' = [doing EXCEPT ![w] = Absent]
    /\ UNCHANGED <<queue, names, job, submitted>>

\* Mutant of FinishJob: the goroutine ends after one job and the counter is
\* not decremented.
FinishJobEndsWorker(w) ==
    /\ doing[w] = Running
    /\ doing' = [doing EXCEPT ![w] = Absent]
    /\ names' = names \ {JobName[job[w]]}
    /\ job' = [job EXCEPT ![w] = NoJob]
    /\ UNCHANGED <<activeWorkers, queue, submitted>>

\* next.job() returns, with or without an error.
FinishJob(w) ==
    /\ doing[w] = Running
    /\ doing' = [doing EXCEPT ![w] = Returned]
    /\ UNCHANGED <<activeWorkers, queue, names, job, submitted>>

\* The name is deleted in a critical section of its own.
ForgetName(w) ==
    /\ doing[w] = Returned
    /\ names' = names \ {JobName[job[w]]}
    /\ job' = [job EXCEPT ![w] = NoJob]
    /\ doing' = [doing EXCEPT ![w] = Idle]
    /\ UNCHANGED <<activeWorkers, queue, submitted>>

\* next.job() panics: the deferred recover ends the goroutine and touches
\* neither activeWorkers nor names.
PanicJob(w) ==
    /\ doing[w] = Running
    /\ job[w] \in MayPanic
    /\ doing' = [doing EXCEPT ![w] = Absent]
    /\ job' = [job EXCEPT ![w] = NoJob]
    /\ UNCHANGED <<activeWorkers, queue, names, submitted>>

WorkerStep(w) ==
    \/ TakeJob(w)
    \/ ExitWorker(w)
    \/ FinishJob(w)
    \/ ForgetName(w)
    \/ PanicJob(w)

\* Every call of Submit has been made and every worker has ended.
Done ==
    /\ submitted = Job
    /\ Alive = {}
    /\ UNCHANGED jobVars

JobsNext ==
    \/ \E j \in Job : Submit(j)
    \/ \E w \in Worker : WorkerStep(w)
    \/ Done

JobsSpec == JobsInit /\ [][JobsNext]_jobVars

\* Goroutines are scheduled and the closures return: obtainCert, renewCert
\* and the others end on their own or by maxRetryDuration.
JobsFairness == \A w \in Worker : WF_jobVars(WorkerStep(w))

JobsFairSpec == JobsSpec /\ JobsFairness

-----------------------------------------------------------------------------
(* Properties *)

\* Two jobs submitted under one non-empty name are never both enqueued or
\* running, although names is updated and read in separate critical sections
\* (Submit: "prevent duplicate jobs").  Holds whatever the jobs do.
NoDuplicateJobs ==
    /\ \A i, k \in DOMAIN queue :
          (i # k /\ JobName[queue[i]] = JobName[queue[k]])
             => JobName[queue[i]] = NoName
    /\ \A v, w \in AtWork :
          (v # w /\ JobName[job[v]] = JobName[job[w]])
             => JobName[job[v]] = NoName
    /\ \A i \in DOMAIN queue, w \in AtWork :
          JobName[queue[i]] = JobName[job[w]] => JobName[queue[i]] = NoName

\* While fewer than maxConcurrentJobs workers are counted, every enqueued job
\* has an idle worker of its own on the way, so no job waits behind a running
\* one without need (Submit: "will then run this job as soon as it is able").
\* Panics do not change that: they only take away from the workers there are.
PromptService ==
    activeWorkers < MaxConcurrentJobs => Cardinality(IdleWorkers) >= Len(queue)

\* No worker is left, and as many jobs that may panic are over as there are
\* slots for workers.
AllSlotsLost ==
    /\ Alive = {}
    /\ Cardinality((MayPanic \cap submitted) \ (Queued \cup InProgress))
          >= MaxConcurrentJobs

\* Every enqueued job is eventually executed, although no worker is spawned
\* for it at the maximum, unless panics have cost every slot: fewer of them
\* leave a worker that serves the whole queue.
QueuedJobsRun == \A j \in Job : j \in Queued ~> (j \in InProgress \/ AllSlotsLost)

\* The names lost to panics are those that no active job has.
LostNames == {n \in names : \A j \in Queued \cup InProgress : JobName[j] # n}

\* What Submit promises, with neither workers nor a name table.
Abstract == INSTANCE JobQueue WITH
    pending <- queue, active <- InProgress, called <- submitted, lost <- LostNames

\* The job manager implements that promise.
ImplementsJobQueue == Abstract!Spec
=============================================================================
