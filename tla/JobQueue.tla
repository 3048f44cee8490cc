------------------------------ MODULE JobQueue ------------------------------
(***************************************************************************)
(* What jobManager.Submit promises its callers (async.go, the comment of   *)
(* Submit), with no worker goroutines and no table of names: a call is a   *)
(* no-op exactly when a job of the same non-empty name is enqueued or      *)
(* running, accepted jobs start in the order they were accepted, and at    *)
(* most MaxConcurrentJobs run at once.  A job that panics is the exception *)
(* the code makes: its name is taken for ever.                             *)
(***************************************************************************)
EXTENDS Integers, Sequences, FiniteSets

CONSTANTS Job, JobName, NoName, MaxConcurrentJobs

VARIABLES
    pending,    \* the accepted jobs that have not started, oldest first
    active,     \* the jobs that have started and not ended
    called,     \* the calls of Submit made so far
    lost        \* the names of jobs that panicked

vars == <<pending, active, called, lost>>

Init ==
    /\ pending = <<>>
    /\ active = {}
    /\ called = {}
    /\ lost = {}

\* A job of j's name is enqueued or running, or has panicked.
Duplicate(j) ==
    /\ JobName[j] # NoName
    /\ \/ \E k \in {pending[i] : i \in DOMAIN pending} \cup active :
             JobName[k] = JobName[j]
       \/ JobName[j] \in lost

Accept(j) ==
    /\ j \notin called
    /\ ~Duplicate(j)
    /\ pending' = Append(pending, j)
    /\ called' = called \cup {j}
    /\ UNCHANGED <<active, lost>>

Refuse(j) ==
    /\ j \notin called
    /\ Duplicate(j)
    /\ called' = called \cup {j}
    /\ UNCHANGED <<pending, active, lost>>

Start ==
    /\ pending # <<>>
    /\ Cardinality(active) < MaxConcurrentJobs
    /\ active' = active \cup {Head(pending)}
    /\ pending' = Tail(pending)
    /\ UNCHANGED <<called, lost>>

End(j) ==
    /\ j \in active
    /\ active' = active \ {j}
    /\ UNCHANGED <<pending, called, lost>>

Panic(j) ==
    /\ j \in active
    /\ active' = active \ {j}
    /\ lost' = lost \cup ({JobName[j]} \ {NoName})
    /\ UNCHANGED <<pending, called>>

Next ==
    \/ \E j \in Job : Accept(j) \/ Refuse(j) \/ End(j) \/ Panic(j)
    \/ Start

Spec == Init /\ [][Next]_vars
=============================================================================
