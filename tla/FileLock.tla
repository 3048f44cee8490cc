------------------------------ MODULE FileLock ------------------------------
(***************************************************************************)
(* The storage lock of FileStorage (filestorage.go) for one lock name: a   *)
(* lockfile created with O_EXCL, polled by waiters, kept fresh by a        *)
(* goroutine of the holder's process and removed by Unlock, or by a waiter *)
(* that finds it stale.                                                    *)
(*                                                                         *)
(* Every system call on the lockfile is an action of its own; in a         *)
(* freshener the open and the read are one.  A removed file lives on under *)
(* the descriptors open on it: linked is the set of writers whose          *)
(* descriptor refers to the file that is at the path now, and a write by   *)
(* any other writer is lost.                                               *)
(*                                                                         *)
(* Time is measured in ticks.  Only the age of the timestamp in the file   *)
(* and the time since a freshener last slept matter; both are capped at    *)
(* the first value at which nothing changes any more.                      *)
(***************************************************************************)
EXTENDS Integers, FiniteSets

CONSTANTS
    Client,         \* processes that call Lock and Unlock
    Interval,       \* lockFreshnessInterval, in ticks
    EmptyLimit,     \* how often a waiter may read an empty file (8)
    MaxFresheners,  \* bound: keepLockfileFresh goroutines alive at once
    MaxFaults,      \* bound: crashes and I/O errors in a behaviour
    FaultKind,      \* the faults that happen, of {"crash", "io"}
    NoOwner

Freshener == 1 .. MaxFresheners

ASSUME ClientAssumption == NoOwner \notin Client /\ Client \cap Int = {}
ASSUME IntervalAssumption == Interval \in Nat \ {0}
ASSUME EmptyLimitAssumption == EmptyLimit \in Nat \ {0}
ASSUME BoundsAssumption == MaxFresheners \in Nat /\ MaxFaults \in Nat
ASSUME FaultKindAssumption == FaultKind \subseteq {"crash", "io"}

StaleAge == 2 * Interval
MaxAge == StaleAge + 1

VARIABLES
    lockfile,   \* "absent", "empty" (size 0) or "meta" (a lockMeta)
    age,        \* ticks since meta.Updated
    linked,     \* writers whose descriptor refers to the current file
    pc,         \* where each client is in Lock
    emptyCount, \* the local variable emptyCount of each call of Lock
    phase,      \* where each freshener is in updateLockfileFreshness
    timer,      \* ticks since the freshener's last update
    owner,      \* the process the freshener runs in
    serving,    \* the freshener's lock has not been released (history)
    forced,     \* why waiters have removed lockfiles so far (history)
    faults      \* crashes and I/O errors so far (history)

clientVars == <<pc, emptyCount>>
freshenerVars == <<phase, timer, owner, serving>>
fileVars == <<lockfile, age, linked>>
vars == <<fileVars, clientVars, freshenerVars, forced, faults>>

ClientPC == {"idle", "create", "write", "read", "removeStale", "removeEmpty",
             "wait", "held", "crashed"}

\* The types of the variables (the lockfile and the goroutines of FileStorage).
TypeOK ==
    /\ lockfile \in {"absent", "empty", "meta"}
    /\ age \in 0 .. MaxAge
    /\ linked \subseteq Client \cup Freshener
    /\ pc \in [Client -> ClientPC]
    /\ emptyCount \in [Client -> 0 .. EmptyLimit]
    /\ phase \in [Freshener -> {"none", "sleep", "opened", "truncated"}]
    /\ timer \in [Freshener -> 0 .. StaleAge]
    /\ owner \in [Freshener -> Client \cup {NoOwner}]
    /\ serving \in [Freshener -> BOOLEAN]
    /\ forced \subseteq {"stale", "empty"}
    /\ faults \in 0 .. MaxFaults

Init ==
    /\ lockfile = "absent" /\ age = 0 /\ linked = {}
    /\ pc = [c \in Client |-> "idle"]
    /\ emptyCount = [c \in Client |-> 0]
    /\ phase = [f \in Freshener |-> "none"]
    /\ timer = [f \in Freshener |-> 0]
    /\ owner = [f \in Freshener |-> NoOwner]
    /\ serving = [f \in Freshener |-> FALSE]
    /\ forced = {}
    /\ faults = 0

Goto(c, from, to) == pc[c] = from /\ pc' = [pc EXCEPT ![c] = to]

\* os.Remove(filename): the path is free, open descriptors are orphaned.
RemoveFile ==
    /\ lockfile' = "absent"
    /\ age' = 0
    /\ linked' = {}

\* An encoded lockMeta with Updated = now is written through a descriptor.
WriteMeta(w) ==
    /\ IF w \in linked
          THEN lockfile' = "meta" /\ age' = 0
          ELSE UNCHANGED <<lockfile, age>>
    /\ linked' = linked \ {w}

-----------------------------------------------------------------------------
(* Lock *)

\* A call of Lock; it starts with emptyCount = 0.
Lock(c) ==
    /\ Goto(c, "idle", "create")
    /\ emptyCount' = [emptyCount EXCEPT ![c] = 0]
    /\ UNCHANGED <<fileVars, freshenerVars, forced, faults>>

\* Mutant of CreateExclusive: the file is opened without O_EXCL.
CreateWithoutExcl(c) ==
    /\ Goto(c, "create", "write")
    /\ lockfile' = "empty"
    /\ linked' = linked \cup {c}
    /\ UNCHANGED <<age, emptyCount, freshenerVars, forced, faults>>

\* atomicallyCreateFile, up to OpenFile with O_EXCL.
CreateExclusive(c) ==
    /\ lockfile = "absent"
    /\ Goto(c, "create", "write")
    /\ lockfile' = "empty"
    /\ linked' = linked \cup {c}
    /\ UNCHANGED <<age, emptyCount, freshenerVars, forced, faults>>

CreateExists(c) ==
    /\ lockfile # "absent"
    /\ Goto(c, "create", "read")
    /\ UNCHANGED <<fileVars, emptyCount, freshenerVars, forced, faults>>

\* The rest of atomicallyCreateFile and of createLockfile: the lockMeta is
\* written, a freshener is started and Lock returns.
WriteLockInfo(c) ==
    /\ Goto(c, "write", "held")
    /\ WriteMeta(c)
    /\ \E f \in Freshener :
          /\ phase[f] = "none"
          /\ \A g \in Freshener : phase[g] = "none" => f <= g
          /\ phase' = [phase EXCEPT ![f] = "sleep"]
          /\ timer' = [timer EXCEPT ![f] = 0]
          /\ owner' = [owner EXCEPT ![f] = c]
          /\ serving' = [serving EXCEPT ![f] = TRUE]
    /\ UNCHANGED <<emptyCount, forced, faults>>

\* One of the bounded number of faults of a behaviour.
Fault(kind) ==
    /\ kind \in FaultKind
    /\ faults < MaxFaults
    /\ faults' = faults + 1

\* Mutant of LockFails: the lockfile is cleaned up on the way out.
LockFailsRemoves(c) ==
    /\ Fault("io")
    /\ pc[c] \in {"create", "write", "read", "removeStale", "removeEmpty"}
    /\ pc' = [pc EXCEPT ![c] = "idle"]
    /\ RemoveFile
    /\ UNCHANGED <<emptyCount, freshenerVars, forced>>

\* A file operation of Lock fails and Lock returns the error.  A file it has
\* created stays behind, empty.
LockFails(c) ==
    /\ Fault("io")
    /\ pc[c] \in {"create", "write", "read", "removeStale", "removeEmpty"}
    /\ pc' = [pc EXCEPT ![c] = "idle"]
    /\ linked' = linked \ {c}
    /\ UNCHANGED <<lockfile, age, emptyCount, freshenerVars, forced>>

\* Mutant of FileLockIsStale: no grace period for the update itself.
StaleWithoutGrace == age > Interval

\* fileLockIsStale
FileLockIsStale == age > StaleAge

\* Mutant of ReadLockfile: an empty file is waited for without a limit.
ReadEmptyWaits(c) ==
    /\ Goto(c, "read",
            IF lockfile = "absent" THEN "create"
            ELSE IF lockfile = "meta" /\ FileLockIsStale THEN "removeStale"
            ELSE "wait")
    /\ UNCHANGED <<fileVars, emptyCount, freshenerVars, forced, faults>>

\* The file is opened and decoded and the outcome decides what is next.  A
\* file that reads empty for the EmptyLimit-th time in this call is treated
\* like a stale one (its zero lockMeta is stale), and so is every later one.
ReadLockfile(c) ==
    /\ \/ /\ lockfile = "absent"
          /\ Goto(c, "read", "create")
          /\ UNCHANGED emptyCount
       \/ /\ lockfile = "empty"
          /\ emptyCount' = [emptyCount EXCEPT ![c] = IF @ < EmptyLimit THEN @ + 1 ELSE @]
          /\ Goto(c, "read", IF emptyCount'[c] < EmptyLimit THEN "wait" ELSE "removeEmpty")
       \/ /\ lockfile = "meta"
          /\ Goto(c, "read", IF FileLockIsStale THEN "removeStale" ELSE "wait")
          /\ UNCHANGED emptyCount
    /\ UNCHANGED <<fileVars, freshenerVars, forced, faults>>

\* The file was judged stale: whatever is at the path by now is removed.
RemoveStale(c) ==
    /\ \/ Goto(c, "removeStale", "create") /\ forced' = forced \cup {"stale"}
       \/ Goto(c, "removeEmpty", "create") /\ forced' = forced \cup {"empty"}
    /\ RemoveFile
    /\ UNCHANGED <<emptyCount, freshenerVars, faults>>

\* The poll interval (or the 250 ms after an empty read) elapses.
PollAgain(c) ==
    /\ Goto(c, "wait", "create")
    /\ UNCHANGED <<fileVars, emptyCount, freshenerVars, forced, faults>>

\* The context is cancelled while Lock waits.
CancelLock(c) ==
    /\ Goto(c, "wait", "idle")
    /\ UNCHANGED <<fileVars, emptyCount, freshenerVars, forced, faults>>

\* The lock c obtained is no longer held; its freshener is not told.
Released(c) ==
    /\ Goto(c, "held", "idle")
    /\ serving' = [f \in Freshener |-> serving[f] /\ owner[f] # c]
    /\ UNCHANGED <<emptyCount, phase, timer, owner, forced>>

\* Unlock removes whatever file is at the path.
Unlock(c) ==
    /\ Released(c)
    /\ RemoveFile
    /\ UNCHANGED faults

\* os.Remove fails: the caller only logs it and goes on.
UnlockFails(c) ==
    /\ Fault("io")
    /\ Released(c)
    /\ UNCHANGED fileVars

-----------------------------------------------------------------------------
(* keepLockfileFresh and updateLockfileFreshness *)

\* The values of a freshener that has returned.
EndFreshener(f) ==
    /\ phase' = [phase EXCEPT ![f] = "none"]
    /\ timer' = [timer EXCEPT ![f] = 0]
    /\ owner' = [owner EXCEPT ![f] = NoOwner]
    /\ serving' = [serving EXCEPT ![f] = FALSE]
    /\ linked' = linked \ {f}

\* The sleep is over and the file at the path is opened and read.  A missing
\* file means the lock was released; an empty one does not decode.  Either
\* ends the goroutine.
WakeFreshener(f) ==
    /\ phase[f] = "sleep"
    /\ timer[f] >= Interval
    /\ \/ /\ lockfile # "meta"
          /\ EndFreshener(f)
       \/ /\ lockfile = "meta"
          /\ phase' = [phase EXCEPT ![f] = "opened"]
          /\ linked' = linked \cup {f}
          /\ UNCHANGED <<timer, owner, serving>>
    /\ UNCHANGED <<lockfile, age, clientVars, forced, faults>>

TruncateLockfile(f) ==
    /\ phase[f] = "opened"
    /\ phase' = [phase EXCEPT ![f] = "truncated"]
    /\ IF f \in linked
          THEN lockfile' = "empty" /\ age' = 0
          ELSE UNCHANGED <<lockfile, age>>
    /\ UNCHANGED <<linked, clientVars, timer, owner, serving, forced, faults>>

RewriteLockfile(f) ==
    /\ phase[f] = "truncated"
    /\ phase' = [phase EXCEPT ![f] = "sleep"]
    /\ timer' = [timer EXCEPT ![f] = 0]
    /\ WriteMeta(f)
    /\ UNCHANGED <<clientVars, owner, serving, forced, faults>>

\* An I/O error at any point of the update ends the goroutine.
FreshenerFails(f) ==
    /\ Fault("io")
    /\ \/ phase[f] \in {"opened", "truncated"}
       \/ phase[f] = "sleep" /\ timer[f] >= Interval
    /\ EndFreshener(f)
    /\ UNCHANGED <<lockfile, age, clientVars, forced>>

-----------------------------------------------------------------------------
(* The environment *)

\* A process is killed: its goroutines are gone, the lockfile stays.
Crash(c) ==
    /\ Fault("crash")
    /\ pc[c] # "crashed"
    /\ pc' = [pc EXCEPT ![c] = "crashed"]
    /\ LET mine == {f \in Freshener : owner[f] = c} IN
          /\ linked' = linked \ (mine \cup {c})
          /\ phase' = [f \in Freshener |-> IF f \in mine THEN "none" ELSE phase[f]]
          /\ timer' = [f \in Freshener |-> IF f \in mine THEN 0 ELSE timer[f]]
          /\ owner' = [f \in Freshener |-> IF f \in mine THEN NoOwner ELSE owner[f]]
          /\ serving' = [f \in Freshener |-> serving[f] /\ f \notin mine]
    /\ emptyCount' = [emptyCount EXCEPT ![c] = 0]
    /\ UNCHANGED <<lockfile, age, forced>>

Restart(c) ==
    /\ Goto(c, "crashed", "idle")
    /\ UNCHANGED <<fileVars, emptyCount, freshenerVars, forced, faults>>

\* Time passes, but a freshener finishes its update within twice the interval
\* of the last one: the grace period fileLockIsStale allows for.
Tick ==
    /\ \A f \in Freshener : phase[f] # "none" => timer[f] < StaleAge
    /\ age' = IF lockfile = "meta" /\ age < MaxAge THEN age + 1 ELSE age
    /\ timer' = [f \in Freshener |-> IF phase[f] = "none" THEN 0 ELSE timer[f] + 1]
    /\ UNCHANGED <<lockfile, linked, clientVars, phase, owner, serving, forced, faults>>

\* The steps of Lock that the code takes on its own.
LockStep(c) ==
    \/ CreateExclusive(c)
    \/ CreateExists(c)
    \/ WriteLockInfo(c)
    \/ ReadLockfile(c)
    \/ RemoveStale(c)
    \/ PollAgain(c)

FreshenerStep(f) ==
    \/ WakeFreshener(f)
    \/ TruncateLockfile(f)
    \/ RewriteLockfile(f)

Next ==
    \/ \E c \in Client :
          \/ Lock(c) \/ LockStep(c) \/ LockFails(c) \/ CancelLock(c)
          \/ Unlock(c) \/ UnlockFails(c) \/ Crash(c) \/ Restart(c)
    \/ \E f \in Freshener : FreshenerStep(f) \/ FreshenerFails(f)
    \/ Tick

Spec == Init /\ [][Next]_vars

\* The code's goroutines run, time passes, and a holder releases its lock.
\* Nobody has to call Lock, to cancel or to restart.
Fairness ==
    /\ \A c \in Client : WF_vars(LockStep(c)) /\ WF_vars(Unlock(c))
    /\ \A f \in Freshener : WF_vars(FreshenerStep(f))
    /\ WF_vars(Tick)

FairSpec == Spec /\ Fairness

-----------------------------------------------------------------------------
(* Properties *)

Holders == {c \in Client : pc[c] = "held"}

\* Two callers of Lock never both return before Unlock, as long as no process
\* crashed, no I/O failed and no waiter lost patience with empty lockfiles:
\* staleness by age alone never lets a second caller in, whatever fresheners
\* of earlier locks do to the file.
MutualExclusion ==
    (faults = 0 /\ "empty" \notin forced)
        => \A c, d \in Holders : c = d

\* Whatever faults there are, two callers hold the lock only after a waiter
\* has removed a lockfile: O_EXCL, Unlock by name and the fresheners' writes
\* through old descriptors never do it on their own.
ExclusiveUntilForced == forced = {} => \A c, d \in Holders : c = d

\* Nobody judges a lockfile stale by its age unless there was a fault or a
\* removal on account of empty reads: timely fresheners keep a live lock
\* fresh, even when the holder's own freshener ends because it met a file
\* another one had truncated.
StaleOnlyAfterFault ==
    (faults = 0 /\ "empty" \notin forced)
        => \A c \in Client : pc[c] # "removeStale"

Trying(c) == pc[c] \notin {"idle", "held", "crashed"}

\* A lockfile that nobody holds, and that nobody is writing, is kept by a
\* freshener of a released lock.
Haunted ==
    /\ lockfile # "absent"
    /\ \A c \in Client : pc[c] # "held" /\ c \notin linked
    /\ \E f \in Freshener : phase[f] # "none" /\ ~serving[f]

\* FileStorage's comment: a lock left behind by a terminated acquirer becomes
\* stale and is removed.  So callers of Lock never wait for each other or for
\* a dead process for ever, whatever crashed or failed at whatever point,
\* unless a freshener of an earlier lock keeps the lockfile left behind fresh.
LockIsObtained ==
    <>[]~Haunted => \A c \in Client : Trying(c) ~> (Holders # {} \/ ~Trying(c))
=============================================================================
