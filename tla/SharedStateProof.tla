-------------------------- MODULE SharedStateProof --------------------------
(***************************************************************************)
(* Proofs about the state that everything else shares, for any value of    *)
(* the constants: the lock that instances share through a file system      *)
(* (FileLock, whatever the processes, the freshness interval, the limit on *)
(* empty reads and the number of fresheners and faults), and what the      *)
(* goroutines of an instance share, the cache (CertCache, whatever the     *)
(* certificates, names, capacities and goroutines) and the job queue       *)
(* (JobManager, whatever the jobs, their names, the number of workers and  *)
(* the closures that panic).  The three have no variable in common.        *)
(***************************************************************************)
EXTENDS FileLock, CertCache, JobManager, FiniteSetTheorems, SequenceTheorems, TLAPS

-----------------------------------------------------------------------------
(* The file lock: the inductive invariant *)

\* The clients that have created the lockfile and not released it.
Creators == {c \in Client : pc[c] \in {"write", "held"}}

Calm == faults = 0 /\ "empty" \notin forced

\* A descriptor is open only inside the operation that uses it, and a
\* creator's file is written by nobody else until it holds a lockMeta.
DescriptorsOpen ==
    /\ lockfile = "absent" => linked = {}
    /\ \A c \in Client \cap linked :
          pc[c] = "write" /\ linked = {c} /\ lockfile = "empty"
    /\ \A f \in Freshener \cap linked : phase[f] \in {"opened", "truncated"}

\* Until a waiter has removed a lockfile, the lockfile is one creator's.
OneCreator ==
    forced = {} =>
        /\ \A c, d \in Creators : c = d
        /\ lockfile = "absent" => Creators = {}

\* The fresheners that will rewrite the current file, unless it is removed.
Keepers == {f \in Freshener : phase[f] = "sleep" \/ f \in linked}

\* Without faults, a lockfile is owned; it is empty only while somebody is
\* about to write it, and otherwise somebody will rewrite it in time: that
\* freshener has slept at least as long as the timestamp is old.
KeptFresh ==
    Calm =>
        /\ forced = {}
        /\ \A c \in Client : pc[c] # "removeStale"
        /\ \A c \in Client : pc[c] = "write" => c \in linked /\ lockfile = "empty"
        /\ lockfile = "empty" =>
              \/ \E c \in Client : pc[c] = "write"
              \/ \E f \in Freshener \cap linked : phase[f] = "truncated"
        /\ lockfile = "meta" => \E f \in Keepers : age <= timer[f]

IInv == TypeOK /\ DescriptorsOpen /\ OneCreator /\ KeptFresh

-----------------------------------------------------------------------------
\* Clients and fresheners are different writers.
LEMMA WritersDiffer == \A c \in Client, f \in Freshener : c # f
BY ClientAssumption DEF Freshener

\* The arithmetic of the constants.
LEMMA Ages == /\ StaleAge \in Nat /\ MaxAge = StaleAge + 1 /\ MaxAge \in Nat
              /\ Interval <= StaleAge /\ Interval \in Nat /\ StaleAge >= 2
BY IntervalAssumption DEF StaleAge, MaxAge

-----------------------------------------------------------------------------
(* Type correctness, one lemma for all actions. *)

\* A freshener that has returned.
LEMMA EndFreshenerTypes ==
  ASSUME TypeOK, NEW f \in Freshener, EndFreshener(f)
  PROVE  /\ linked' \subseteq Client \cup Freshener
         /\ phase' \in [Freshener -> {"none", "sleep", "opened", "truncated"}]
         /\ timer' \in [Freshener -> 0 .. StaleAge]
         /\ owner' \in [Freshener -> Client \cup {NoOwner}]
         /\ serving' \in [Freshener -> BOOLEAN]
<1>1. serving' \in [Freshener -> BOOLEAN]
  BY Zenon DEF TypeOK, EndFreshener
<1>2. timer' \in [Freshener -> 0 .. StaleAge]
  BY Ages DEF TypeOK, EndFreshener
<1> QED
  BY <1>1, <1>2, Zenon DEF TypeOK, EndFreshener

\* Every step keeps the types.
LEMMA TypesStep ==
  ASSUME TypeOK, [Next]_vars
  PROVE  TypeOK'
<1> USE DEF TypeOK, ClientPC, fileVars, clientVars, freshenerVars
<1>1. ASSUME NEW c \in Client, Lock(c) PROVE TypeOK'
  BY <1>1, Ages, EmptyLimitAssumption, BoundsAssumption DEF Lock, Goto
<1>2. ASSUME NEW c \in Client, CreateExclusive(c) PROVE TypeOK'
  BY <1>2, Ages, EmptyLimitAssumption, BoundsAssumption, Zenon DEF CreateExclusive, Goto
<1>3. ASSUME NEW c \in Client, CreateExists(c) PROVE TypeOK'
  BY <1>3, Ages, EmptyLimitAssumption, BoundsAssumption, Zenon DEF CreateExists, Goto
<1>4. ASSUME NEW c \in Client, WriteLockInfo(c) PROVE TypeOK'
  BY <1>4, Ages, EmptyLimitAssumption, BoundsAssumption DEF WriteLockInfo, WriteMeta, Goto
<1>5. ASSUME NEW c \in Client, LockFails(c) PROVE TypeOK'
  BY <1>5, Ages, EmptyLimitAssumption, BoundsAssumption DEF LockFails, Fault
<1>6. ASSUME NEW c \in Client, ReadLockfile(c) PROVE TypeOK'
  <2>1. emptyCount' \in [Client -> 0 .. EmptyLimit]
    BY <1>6, EmptyLimitAssumption DEF ReadLockfile
  <2>2. pc' \in [Client -> ClientPC]
    BY <1>6, Zenon DEF ReadLockfile, Goto
  <2> QED
    BY <1>6, <2>1, <2>2, Zenon DEF ReadLockfile
<1>7. ASSUME NEW c \in Client, RemoveStale(c) PROVE TypeOK'
  <2>1. forced' \subseteq {"stale", "empty"} /\ pc' \in [Client -> ClientPC]
    BY <1>7, Zenon DEF RemoveStale, Goto
  <2> QED
    BY <1>7, <2>1, Ages DEF RemoveStale, RemoveFile
<1>8. ASSUME NEW c \in Client, PollAgain(c) PROVE TypeOK'
  BY <1>8, Ages, EmptyLimitAssumption, BoundsAssumption, Zenon DEF PollAgain, Goto
<1>9. ASSUME NEW c \in Client, CancelLock(c) PROVE TypeOK'
  BY <1>9, Ages, EmptyLimitAssumption, BoundsAssumption, Zenon DEF CancelLock, Goto
<1>10. ASSUME NEW c \in Client, Unlock(c) PROVE TypeOK'
  BY <1>10, Ages, EmptyLimitAssumption, BoundsAssumption DEF Unlock, Released, RemoveFile, Goto
<1>11. ASSUME NEW c \in Client, UnlockFails(c) PROVE TypeOK'
  BY <1>11, Ages, EmptyLimitAssumption, BoundsAssumption DEF UnlockFails, Released, Fault, Goto
<1>12. ASSUME NEW c \in Client, Crash(c) PROVE TypeOK'
  BY <1>12, Ages, EmptyLimitAssumption, BoundsAssumption DEF Crash, Fault
<1>13. ASSUME NEW c \in Client, Restart(c) PROVE TypeOK'
  BY <1>13, Ages, EmptyLimitAssumption, BoundsAssumption, Zenon DEF Restart, Goto
<1>14. ASSUME NEW f \in Freshener, WakeFreshener(f) PROVE TypeOK'
  <2>1. CASE lockfile # "meta"
    BY <1>14, <2>1, EndFreshenerTypes, Zenon DEF WakeFreshener
  <2>2. CASE lockfile = "meta"
    BY <1>14, <2>2, Zenon DEF WakeFreshener
  <2> QED
    BY <2>1, <2>2, Zenon
<1>15. ASSUME NEW f \in Freshener, TruncateLockfile(f) PROVE TypeOK'
  BY <1>15, Ages, EmptyLimitAssumption, BoundsAssumption DEF TruncateLockfile
<1>16. ASSUME NEW f \in Freshener, RewriteLockfile(f) PROVE TypeOK'
  BY <1>16, Ages, EmptyLimitAssumption, BoundsAssumption DEF RewriteLockfile, WriteMeta
<1>17. ASSUME NEW f \in Freshener, FreshenerFails(f) PROVE TypeOK'
  BY <1>17, EndFreshenerTypes, BoundsAssumption DEF FreshenerFails, Fault
<1>18. ASSUME Tick PROVE TypeOK'
  BY <1>18, Ages DEF Tick
<1>19. CASE UNCHANGED vars
  BY <1>19, Zenon DEF vars
<1> QED
  BY <1>1, <1>2, <1>3, <1>4, <1>5, <1>6, <1>7, <1>8, <1>9, <1>10,
     <1>11, <1>12, <1>13, <1>14, <1>15, <1>16, <1>17, <1>18, <1>19, Zenon
  DEF Next, LockStep, FreshenerStep

-----------------------------------------------------------------------------
(* Descriptors and creators. *)

\* Steps of Lock and Unlock.
LEMMA ClientKeepsFile ==
  ASSUME IInv, NEW c \in Client,
         \/ Lock(c) \/ LockStep(c) \/ LockFails(c) \/ CancelLock(c)
         \/ Unlock(c) \/ UnlockFails(c) \/ Crash(c) \/ Restart(c)
  PROVE  DescriptorsOpen' /\ OneCreator'
<1> USE WritersDiffer
<1> USE DEF IInv, TypeOK, ClientPC, fileVars, freshenerVars
<1>1. CASE Lock(c) \/ CreateExists(c) \/ PollAgain(c) \/ CancelLock(c) \/ Restart(c)
  BY <1>1 DEF Lock, CreateExists, PollAgain, CancelLock, Restart, Goto,
              DescriptorsOpen, OneCreator, Creators
<1>2. CASE CreateExclusive(c)
  BY <1>2 DEF CreateExclusive, Goto, DescriptorsOpen, OneCreator, Creators
<1>3. CASE WriteLockInfo(c)
  <2>1. DescriptorsOpen'
    BY <1>3 DEF WriteLockInfo, WriteMeta, Goto, DescriptorsOpen
  <2>2. OneCreator'
    BY <1>3 DEF WriteLockInfo, WriteMeta, Goto, OneCreator, Creators
  <2> QED
    BY <2>1, <2>2, Zenon
<1>4. CASE LockFails(c)
  BY <1>4 DEF LockFails, DescriptorsOpen, OneCreator, Creators
<1>5. CASE ReadLockfile(c)
  BY <1>5 DEF ReadLockfile, Goto, DescriptorsOpen, OneCreator, Creators
<1>6. CASE RemoveStale(c)
  BY <1>6, Zenon DEF RemoveStale, RemoveFile, Goto, DescriptorsOpen, OneCreator
<1>7. CASE Unlock(c)
  BY <1>7 DEF Unlock, Released, RemoveFile, Goto, DescriptorsOpen, OneCreator, Creators
<1>8. CASE UnlockFails(c)
  BY <1>8 DEF UnlockFails, Released, Goto, DescriptorsOpen, OneCreator, Creators
<1>9. CASE Crash(c)
  BY <1>9 DEF Crash, DescriptorsOpen, OneCreator, Creators
<1> QED
  BY <1>1, <1>2, <1>3, <1>4, <1>5, <1>6, <1>7, <1>8, <1>9, Zenon DEF LockStep

\* Steps of the fresheners.
LEMMA FreshenerKeepsFile ==
  ASSUME IInv, NEW f \in Freshener, FreshenerStep(f) \/ FreshenerFails(f)
  PROVE  DescriptorsOpen' /\ OneCreator'
<1> USE WritersDiffer
<1> USE DEF IInv, TypeOK, clientVars
<1>1. CASE WakeFreshener(f)
  <2>1. CASE lockfile # "meta"
    BY <1>1, <2>1 DEF WakeFreshener, EndFreshener, DescriptorsOpen, OneCreator, Creators
  <2>2. CASE lockfile = "meta"
    <3>1. Client \cap linked = {}
      BY <2>2, Zenon DEF DescriptorsOpen
    <3> QED
      BY <1>1, <2>2, <3>1, Zenon DEF WakeFreshener, DescriptorsOpen, OneCreator, Creators
  <2> QED
    BY <2>1, <2>2, Zenon
<1>2. CASE TruncateLockfile(f)
  BY <1>2, Zenon DEF TruncateLockfile, DescriptorsOpen, OneCreator, Creators
<1>3. CASE RewriteLockfile(f)
  BY <1>3 DEF RewriteLockfile, WriteMeta, DescriptorsOpen, OneCreator, Creators
<1>4. CASE FreshenerFails(f)
  BY <1>4 DEF FreshenerFails, EndFreshener, DescriptorsOpen, OneCreator, Creators
<1> QED
  BY <1>1, <1>2, <1>3, <1>4, Zenon DEF FreshenerStep

-----------------------------------------------------------------------------
(* Freshness. *)

\* Steps of Lock and Unlock.
LEMMA ClientKeepsFresh ==
  ASSUME IInv, NEW c \in Client,
         \/ Lock(c) \/ LockStep(c) \/ LockFails(c) \/ CancelLock(c)
         \/ Unlock(c) \/ UnlockFails(c) \/ Crash(c) \/ Restart(c)
  PROVE  KeptFresh'
<1> USE WritersDiffer, Ages
<1> USE DEF IInv, TypeOK, ClientPC, fileVars, freshenerVars
<1>1. CASE Lock(c) \/ CreateExists(c) \/ PollAgain(c) \/ CancelLock(c) \/ Restart(c)
  <2>1. UNCHANGED <<fileVars, phase, timer, forced, faults>>
    BY <1>1, Zenon DEF Lock, CreateExists, PollAgain, CancelLock, Restart
  <2>2. /\ pc'[c] \notin {"write", "removeStale"} /\ pc[c] # "write"
        /\ \A d \in Client : d # c => pc'[d] = pc[d]
    BY <1>1, Zenon DEF Lock, CreateExists, PollAgain, CancelLock, Restart, Goto
  <2> QED
    BY <2>1, <2>2, Zenon DEF KeptFresh, Calm, Keepers
<1>2. CASE CreateExclusive(c)
  BY <1>2, Zenon DEF CreateExclusive, Goto, OneCreator, Creators, KeptFresh, Calm
<1>3. CASE WriteLockInfo(c)
  <2> SUFFICES ASSUME Calm' PROVE KeptFresh'
    BY Zenon DEF KeptFresh
  <2>1. Calm /\ c \in linked /\ lockfile' = "meta" /\ age' = 0
    BY <1>3, Zenon DEF WriteLockInfo, WriteMeta, Goto, KeptFresh, Calm
  <2>2. PICK f \in Freshener : phase'[f] = "sleep" /\ timer'[f] = 0
    BY <1>3, Zenon DEF WriteLockInfo
  <2>3. f \in Keepers' /\ age' <= timer'[f]
    BY <2>1, <2>2 DEF Keepers
  <2>4. \A d \in Client : pc'[d] # "write" /\ pc'[d] # "removeStale"
    BY <1>3, <2>1 DEF WriteLockInfo, Goto, OneCreator, Creators, KeptFresh
  <2> QED
    BY <1>3, <2>1, <2>3, <2>4, Zenon DEF WriteLockInfo, KeptFresh
<1>4. CASE LockFails(c) \/ UnlockFails(c) \/ Crash(c)
  BY <1>4 DEF LockFails, UnlockFails, Crash, Fault, KeptFresh, Calm
<1>5. CASE ReadLockfile(c)
  <2> SUFFICES ASSUME Calm' PROVE KeptFresh'
    BY Zenon DEF KeptFresh
  <2>1. Calm
    BY <1>5, Zenon DEF ReadLockfile, Calm
  <2>2. lockfile = "meta" => ~FileLockIsStale
    BY <2>1 DEF KeptFresh, Keepers, FileLockIsStale
  <2>3. pc'[c] \notin {"write", "removeStale"} /\ pc[c] # "write"
    BY <1>5, <2>2, Zenon DEF ReadLockfile, Goto
  <2>4. \A d \in Client : d # c => pc'[d] = pc[d]
    BY <1>5, Zenon DEF ReadLockfile, Goto
  <2> QED
    BY <1>5, <2>1, <2>3, <2>4, Zenon DEF ReadLockfile, KeptFresh, Keepers
<1>6. CASE RemoveStale(c)
  BY <1>6, Zenon DEF RemoveStale, Goto, KeptFresh, Calm
<1>7. CASE Unlock(c)
  BY <1>7 DEF Unlock, Released, RemoveFile, Goto, OneCreator, Creators, KeptFresh, Calm
<1> QED
  BY <1>1, <1>2, <1>3, <1>4, <1>5, <1>6, <1>7, Zenon DEF LockStep

\* Steps of the fresheners.
LEMMA FreshenerKeepsFresh ==
  ASSUME IInv, NEW f \in Freshener, FreshenerStep(f) \/ FreshenerFails(f)
  PROVE  KeptFresh'
<1> USE WritersDiffer, Ages
<1> USE DEF IInv, TypeOK, clientVars
<1>1. CASE WakeFreshener(f)
  <2>1. CASE lockfile # "meta"
    BY <1>1, <2>1, Zenon DEF WakeFreshener, EndFreshener, KeptFresh, Calm
  <2>2. CASE lockfile = "meta"
    <3>1. Keepers' = Keepers /\ timer' = timer /\ age' = age
      BY <1>1, <2>2, Zenon DEF WakeFreshener, Keepers
    <3> QED
      BY <1>1, <2>2, <3>1 DEF WakeFreshener, KeptFresh, Calm
  <2> QED
    BY <2>1, <2>2, Zenon
<1>2. CASE TruncateLockfile(f)
  <2>1. CASE f \in linked
    BY <1>2, <2>1, Zenon DEF TruncateLockfile, KeptFresh, Calm, DescriptorsOpen
  <2>2. CASE f \notin linked
    BY <1>2, <2>2, Zenon DEF TruncateLockfile, KeptFresh, Calm, Keepers
  <2> QED
    BY <2>1, <2>2, Zenon
<1>3. CASE RewriteLockfile(f)
  <2>1. CASE f \in linked
    <3>1. f \in Keepers' /\ age' <= timer'[f] /\ lockfile' = "meta"
      BY <1>3, <2>1 DEF RewriteLockfile, WriteMeta, Keepers
    <3>2. Calm => \A c \in Client : pc[c] # "write"
      BY <2>1 DEF KeptFresh, DescriptorsOpen
    <3> QED
      BY <1>3, <3>1, <3>2, Zenon DEF RewriteLockfile, KeptFresh, Calm
  <2>2. CASE f \notin linked
    BY <1>3, <2>2 DEF RewriteLockfile, WriteMeta, KeptFresh, Calm, Keepers
  <2> QED
    BY <2>1, <2>2, Zenon
<1>4. CASE FreshenerFails(f)
  BY <1>4 DEF FreshenerFails, Fault, KeptFresh, Calm
<1> QED
  BY <1>1, <1>2, <1>3, <1>4, Zenon DEF FreshenerStep

\* The passing of time: the keeper's sleep grows with the timestamp's age.
LEMMA TickKeepsFresh ==
  ASSUME IInv, Tick
  PROVE  DescriptorsOpen' /\ OneCreator' /\ KeptFresh'
<1> USE DEF IInv, TypeOK, clientVars
<1>1. DescriptorsOpen' /\ OneCreator'
  BY Zenon DEF Tick, DescriptorsOpen, OneCreator, Creators
<1>2. KeptFresh'
  <2> SUFFICES ASSUME Calm' PROVE KeptFresh'
    BY Zenon DEF KeptFresh
  <2>1. Calm
    BY Zenon DEF Tick, Calm
  <2>2. ASSUME lockfile' = "meta" PROVE \E f \in Keepers' : age' <= timer'[f]
    <3>1. PICK f \in Keepers : age <= timer[f]
      BY <2>1, <2>2, Zenon DEF Tick, KeptFresh
    <3>2. phase[f] # "none" /\ f \in Freshener /\ f \in Keepers'
      BY <3>1, Zenon DEF Tick, Keepers, DescriptorsOpen
    <3>3. timer'[f] = timer[f] + 1 /\ age' <= age + 1
      BY <3>2, Ages DEF Tick
    <3> QED
      BY <3>1, <3>2, <3>3, Ages DEF Tick
  <2> QED
    BY <2>1, <2>2, Zenon DEF Tick, KeptFresh
<1> QED
  BY <1>1, <1>2, Zenon

-----------------------------------------------------------------------------
\* The inductive invariant.
THEOREM FileLockInvariant == Spec => []IInv
<1>1. Init => IInv
  BY Ages, EmptyLimitAssumption, BoundsAssumption
     DEF Init, IInv, TypeOK, ClientPC, DescriptorsOpen, OneCreator, Creators,
         KeptFresh, Calm
<1>2. IInv /\ [Next]_vars => IInv'
  <2> SUFFICES ASSUME IInv, [Next]_vars PROVE IInv'
    BY Zenon
  <2>1. TypeOK'
    BY TypesStep, Zenon DEF IInv
  <2>2. CASE UNCHANGED vars
    BY <2>1, <2>2, Zenon DEF vars, fileVars, clientVars, freshenerVars, IInv, DescriptorsOpen,
                      OneCreator, Creators, KeptFresh, Calm, Keepers
  <2> QED
    BY <2>1, <2>2, ClientKeepsFile, FreshenerKeepsFile, ClientKeepsFresh,
       FreshenerKeepsFresh, TickKeepsFresh, Zenon DEF Next, IInv
<1> QED
  BY <1>1, <1>2, PTL DEF Spec

\* The lockfile, the calls of Lock and the fresheners stay in their types.
THEOREM FileLockTypes == Spec => []TypeOK
BY FileLockInvariant, PTL DEF IInv

\* Without faults, and unless a waiter loses patience with empty reads, two
\* callers of Lock never hold the lock together.
THEOREM FileLockExclusion == Spec => []MutualExclusion
<1>1. IInv => MutualExclusion
  BY Zenon DEF IInv, KeptFresh, Calm, OneCreator, Creators, MutualExclusion, Holders
<1> QED
  BY <1>1, FileLockInvariant, PTL

\* Whatever the faults, exclusion is lost only after a waiter has removed a
\* lockfile.
THEOREM FileLockExclusiveUntilForced == Spec => []ExclusiveUntilForced
<1>1. IInv => ExclusiveUntilForced
  BY Zenon DEF IInv, OneCreator, Creators, ExclusiveUntilForced, Holders
<1> QED
  BY <1>1, FileLockInvariant, PTL

\* The grace period of fileLockIsStale is enough: no lockfile is judged stale
\* by its age unless something failed before.
THEOREM FileLockStaleOnlyAfterFault == Spec => []StaleOnlyAfterFault
<1>1. IInv => StaleOnlyAfterFault
  BY Zenon DEF IInv, KeptFresh, Calm, StaleOnlyAfterFault
<1> QED
  BY <1>1, FileLockInvariant, PTL

-----------------------------------------------------------------------------
(* The certificate cache: the inductive invariant *)


\* The invariant of a cache that holds S with the index ix.
Sound(S, ix) ==
    /\ S \subseteq Hash
    /\ IsFiniteSet(S)
    /\ ix \in [Name -> [Hash -> Nat]]
    /\ \A n \in Name, h \in Hash : ix[n][h] > 0 => h \in S /\ ix[n][h] = SAN[h][n]

\* All of it but U is found by name.
Found(S, U, ix) == \A h \in S \ U, n \in Name : ix[n][h] = SAN[h][n]

\* A goroutine works with the copy of one certificate.
OneCopy == \A a \in Actor : task[a] = "copy" => \E h \in Hash : copy[a] = {h}

CacheIInv ==
    /\ CacheTypeOK
    /\ OneCopy
    /\ Sound(cached, index)
    /\ Found(cached, unindexed, index)

-----------------------------------------------------------------------------
\* Removing certificates together with their index entries.
LEMMA UnindexSound ==
  ASSUME NEW S, NEW U, NEW ix, Sound(S, ix), NEW R \in SUBSET Hash
  PROVE  /\ Sound(S \ R, Unindex(ix, R))
         /\ Found(S, U, ix) => Found(S \ R, U, Unindex(ix, R))
<1>1. IsFiniteSet(S \ R)
  BY FS_Subset, S \ R \in SUBSET S, Zenon DEF Sound
<1>2. Unindex(ix, R) \in [Name -> [Hash -> Nat]]
  BY Zenon DEF Unindex, Sound
<1>3. \A n \in Name, h \in Hash :
         Unindex(ix, R)[n][h] = IF h \in R /\ SAN[h][n] > 0 THEN 0 ELSE ix[n][h]
  BY Zenon DEF Unindex
<1>4. ASSUME NEW n \in Name, NEW h \in Hash, Unindex(ix, R)[n][h] > 0
      PROVE  h \in S \ R /\ Unindex(ix, R)[n][h] = SAN[h][n]
  BY <1>3, <1>4, SANAssumption DEF Sound
<1>5. Sound(S \ R, Unindex(ix, R))
  BY <1>1, <1>2, <1>4, Zenon DEF Sound
<1>6. Found(S, U, ix) => Found(S \ R, U, Unindex(ix, R))
  BY <1>3, Zenon DEF Found, Sound
<1> QED
  BY <1>5, <1>6, Zenon

\* Adding a certificate that is not there.
LEMMA AddSound ==
  ASSUME NEW S, NEW U, NEW ix, Sound(S, ix), NEW h \in Hash, h \notin S
  PROVE  /\ Sound(S \cup {h}, AddToIndex(ix, h))
         /\ Found(S, U, ix) => Found(S \cup {h}, U \cap S, AddToIndex(ix, h))
<1>1. IsFiniteSet(S \cup {h})
  BY FS_AddElement, Zenon DEF Sound
<1>2. AddToIndex(ix, h) \in [Name -> [Hash -> Nat]]
  BY SANAssumption DEF AddToIndex, Sound
<1>3. \A n \in Name, k \in Hash :
         AddToIndex(ix, h)[n][k] = IF k = h THEN ix[n][k] + SAN[k][n] ELSE ix[n][k]
  BY Zenon DEF AddToIndex
<1>4. \A n \in Name : ix[n][h] = 0
  BY DEF Sound
<1>5. \A n \in Name : AddToIndex(ix, h)[n][h] = SAN[h][n]
  BY <1>3, <1>4, SANAssumption
<1>6. Sound(S \cup {h}, AddToIndex(ix, h))
  BY <1>1, <1>2, <1>3, <1>5, Zenon DEF Sound
<1>7. Found(S, U, ix) => Found(S \cup {h}, U \cap S, AddToIndex(ix, h))
  BY <1>3, <1>5 DEF Found, Sound
<1> QED
  BY <1>6, <1>7, Zenon

\* unsyncedCacheCertificate, with or without an eviction.
LEMMA CacheSound ==
  ASSUME NEW S, NEW ix, Sound(S, ix), NEW h \in Hash,
         UnsyncedCacheCertificate(S, ix, h)
  PROVE  /\ Sound(cached', index')
         /\ Found(S, unindexed, ix) => Found(cached', unindexed', index')
<1>1. CASE h \in S
  BY <1>1 DEF UnsyncedCacheCertificate, Found
<1>2. CASE h \notin S /\ ~AtCapacity(S)
  <2>1. cached' = S \cup {h} /\ index' = AddToIndex(ix, h) /\ unindexed' = unindexed \cap S
    BY <1>2, Zenon DEF UnsyncedCacheCertificate
  <2> QED
    BY <1>2, <2>1, AddSound, Zenon
<1>3. CASE h \notin S /\ AtCapacity(S)
  <2>1. PICK v \in S : /\ cached' = (S \ {v}) \cup {h}
                       /\ index' = AddToIndex(Unindex(ix, {v}), h)
                       /\ unindexed' = unindexed \cap S \cap cached'
    BY <1>3, Zenon DEF UnsyncedCacheCertificate
  <2>2. {v} \in SUBSET Hash
    BY Zenon DEF Sound
  <2>3. /\ Sound(S \ {v}, Unindex(ix, {v}))
        /\ Found(S, unindexed, ix) => Found(S \ {v}, unindexed, Unindex(ix, {v}))
    BY <2>2, UnindexSound, Zenon
  <2>4. unindexed' = unindexed \cap (S \ {v}) /\ h \notin S \ {v}
    BY <1>3, <2>1, Zenon
  <2> QED
    BY <2>1, <2>3, <2>4, AddSound
<1> QED
  BY <1>1, <1>2, <1>3, Zenon

\* unsyncedCacheCertificate grows the cache only below its capacity.
LEMMA CacheBounded ==
  ASSUME NEW S, NEW ix, Sound(S, ix), NEW h \in Hash, capacity \in Int,
         UnsyncedCacheCertificate(S, ix, h)
  PROVE  \/ Cardinality(cached') <= Cardinality(S)
         \/ capacity <= 0 \/ Cardinality(cached') <= capacity
<1>0. IsFiniteSet(S) /\ Cardinality(S) \in Nat
  BY FS_CardinalityType, Zenon DEF Sound
<1>1. CASE h \in S
  BY <1>0, <1>1 DEF UnsyncedCacheCertificate
<1>2. CASE h \notin S /\ ~AtCapacity(S)
  <2>1. Cardinality(cached') = Cardinality(S) + 1
    BY <1>0, <1>2, FS_AddElement, Zenon DEF UnsyncedCacheCertificate
  <2> QED
    BY <1>0, <1>2, <2>1 DEF AtCapacity
<1>3. CASE h \notin S /\ AtCapacity(S)
  <2>1. PICK v \in S : cached' = (S \ {v}) \cup {h}
    BY <1>3, Zenon DEF UnsyncedCacheCertificate
  <2>2. IsFiniteSet(S \ {v}) /\ Cardinality(S \ {v}) = Cardinality(S) - 1
    BY <1>0, FS_RemoveElement, Zenon
  <2>3. Cardinality(cached') = Cardinality(S \ {v}) + 1
    BY <1>3, <2>1, <2>2, FS_AddElement, Zenon
  <2> QED
    BY <1>0, <2>2, <2>3
<1> QED
  BY <1>1, <1>2, <1>3, Zenon

\* The goroutines' own state.
LEMMA ActorStep ==
  ASSUME CacheIInv, [CacheNext]_cacheVars
  PROVE  /\ task' \in [Actor -> {"none", "copy", "delete"}]
         /\ copy' \in [Actor -> SUBSET Hash]
         /\ OneCopy'
<1> USE ManagedAssumption DEF CacheIInv, CacheTypeOK
<1>1. ASSUME UNCHANGED <<task, copy>>
      PROVE  task' \in [Actor -> {"none", "copy", "delete"}] /\
             copy' \in [Actor -> SUBSET Hash] /\ OneCopy'
  BY <1>1, Zenon DEF OneCopy
<1>2. ASSUME NEW a \in Actor, NEW h \in Hash, TakeCopy(a, h)
      PROVE  task' \in [Actor -> {"none", "copy", "delete"}] /\
             copy' \in [Actor -> SUBSET Hash] /\ OneCopy'
  BY <1>2, Zenon DEF TakeCopy, OneCopy
<1>3. ASSUME NEW a \in Actor, FinishTask(a)
      PROVE  task' \in [Actor -> {"none", "copy", "delete"}] /\
             copy' \in [Actor -> SUBSET Hash] /\ OneCopy'
  BY <1>3, Zenon DEF FinishTask, OneCopy
<1>4. ASSUME NEW a \in Actor, NEW n \in Name, NEW iss, StartRemoveManaged(a, n, iss)
      PROVE  task' \in [Actor -> {"none", "copy", "delete"}] /\
             copy' \in [Actor -> SUBSET Hash] /\ OneCopy'
  <2> DEFINE D == {h \in Managed : index[n][h] > 0 /\ iss \in {AnyIssuer, IssuerKey[h]}}
  <2>1. /\ D \in SUBSET Hash
        /\ copy' = [copy EXCEPT ![a] = D] /\ task' = [task EXCEPT ![a] = "delete"]
    BY <1>4, Zenon DEF StartRemoveManaged
  <2> HIDE DEF D
  <2> QED
    BY <2>1, Zenon DEF OneCopy
<1> QED
  BY <1>1, <1>2, <1>3, <1>4, Zenon
     DEF CacheNext, CacheCertificate, SetOptions, ReplaceCertificate, FinishWithCopy,
         RemoveCertificate, StoreStapledCopy, Remove, cacheVars

\* Every critical section keeps cache and index together.
LEMMA IndexStep ==
  ASSUME CacheIInv, [CacheNext]_cacheVars
  PROVE  /\ Sound(cached', index')
         /\ Found(cached', unindexed', index')
<1> USE DEF CacheIInv
<1>0. \A a \in Actor : copy[a] \in SUBSET Hash
  BY Zenon DEF CacheTypeOK
<1>1. ASSUME NEW h \in Hash, CacheCertificate(h)
      PROVE  Sound(cached', index') /\ Found(cached', unindexed', index')
  BY <1>1, CacheSound, Zenon DEF CacheCertificate
<1>2. ASSUME UNCHANGED <<cached, index, unindexed>>
      PROVE  Sound(cached', index') /\ Found(cached', unindexed', index')
  BY <1>2, Zenon
<1>3. ASSUME NEW a \in Actor, RemoveCertificate(a)
      PROVE  Sound(cached', index') /\ Found(cached', unindexed', index')
  <2>1. Sound(cached', index') /\ Found(cached', unindexed, index')
    BY <1>0, <1>3, UnindexSound, Zenon DEF RemoveCertificate
  <2> QED
    BY <1>3, <2>1, Zenon DEF RemoveCertificate, Found
<1>4. ASSUME NEW a \in Actor, NEW h \in Hash, ReplaceCertificate(a, h)
      PROVE  Sound(cached', index') /\ Found(cached', unindexed', index')
  <2>1. /\ Sound(cached \ copy[a], Unindex(index, copy[a]))
        /\ Found(cached \ copy[a], unindexed, Unindex(index, copy[a]))
    BY <1>0, UnindexSound, Zenon
  <2> QED
    BY <1>4, <2>1, CacheSound, Zenon DEF ReplaceCertificate
<1>5. ASSUME NEW a \in Actor, Remove(a)
      PROVE  Sound(cached', index') /\ Found(cached', unindexed', index')
  <2>1. cached' = cached \ (copy[a] \cap cached) /\ index' = Unindex(index, copy[a] \cap cached)
    BY <1>5, Zenon DEF Remove
  <2>2. copy[a] \cap cached \in SUBSET Hash
    BY <1>0, Zenon
  <2>3. Sound(cached', index') /\ Found(cached', unindexed, index')
    BY <2>1, <2>2, UnindexSound, Zenon
  <2> QED
    BY <1>5, <2>3, Zenon DEF Remove, Found
<1>6. ASSUME NEW a \in Actor, StoreStapledCopy(a)
      PROVE  Sound(cached', index') /\ Found(cached', unindexed', index')
  <2>1. IsFiniteSet(cached')
    <3>1. PICK h \in Hash : copy[a] = {h}
      BY <1>6, Zenon DEF StoreStapledCopy, OneCopy
    <3> QED
      BY <1>6, <3>1, FS_AddElement, Zenon DEF StoreStapledCopy, Sound
  <2>2. Sound(cached', index')
    BY <1>0, <1>6, <2>1, Zenon DEF StoreStapledCopy, Sound
  <2> QED
    BY <1>6, <2>2, Zenon DEF StoreStapledCopy, Found
<1> QED
  BY <1>1, <1>2, <1>3, <1>4, <1>5, <1>6, Zenon
     DEF CacheNext, SetOptions, TakeCopy, StartRemoveManaged, FinishWithCopy, cacheVars

-----------------------------------------------------------------------------
\* The inductive invariant.
THEOREM CertCacheInvariant == CacheSpec => []CacheIInv
<1>1. CacheInit => CacheIInv
  <2> SUFFICES ASSUME CacheInit PROVE CacheIInv
    BY Zenon
  <2>1. Sound(cached, index) /\ Found(cached, unindexed, index)
    BY FS_EmptySet DEF CacheInit, Sound, Found
  <2> QED
    BY <2>1, Zenon DEF CacheInit, CacheIInv, CacheTypeOK, OneCopy
<1>2. CacheIInv /\ [CacheNext]_cacheVars => CacheIInv'
  <2> SUFFICES ASSUME CacheIInv, [CacheNext]_cacheVars PROVE CacheIInv'
    BY Zenon
  <2>1. /\ Sound(cached', index')
        /\ Found(cached', unindexed', index')
    BY IndexStep, Zenon
  <2>2. capacity' \in Capacity
    BY Zenon DEF CacheIInv, CacheTypeOK, CacheNext, CacheCertificate, SetOptions, TakeCopy,
           ReplaceCertificate,
           StartRemoveManaged, FinishWithCopy, RemoveCertificate, StoreStapledCopy,
           Remove, FinishTask, cacheVars
  <2>3. unindexed' \subseteq cached'
    BY Zenon DEF CacheIInv, CacheTypeOK, CacheNext, CacheCertificate,
           UnsyncedCacheCertificate, SetOptions,
           TakeCopy, ReplaceCertificate, StartRemoveManaged, FinishWithCopy,
           RemoveCertificate, StoreStapledCopy, Remove, cacheVars
  <2>4. CacheTypeOK' /\ OneCopy'
    BY <2>1, <2>2, <2>3, ActorStep, Zenon DEF Sound, CacheTypeOK
  <2> QED
    BY <2>1, <2>4, Zenon DEF CacheIInv
<1> QED
  BY <1>1, <1>2, PTL DEF CacheSpec

\* The cache, its index and the goroutines' copies stay in their types.
THEOREM CertCacheTypes == CacheSpec => []CacheTypeOK
BY CertCacheInvariant, PTL DEF CacheIInv

\* No name leads to a certificate that is not cached, whatever stale copies
\* are removed, replaced or written back.
THEOREM CertCacheIndexSound == CacheSpec => []IndexSound
<1>1. CacheIInv => IndexSound
  BY Zenon DEF CacheIInv, Sound, IndexSound
<1> QED
  BY <1>1, CertCacheInvariant, PTL

\* Every cached certificate is found by name, unless a handshake put it back.
THEOREM CertCacheFoundByName == CacheSpec => []FoundByName
<1>1. CacheIInv => FoundByName
  BY Zenon DEF CacheIInv, Found, FoundByName
<1> QED
  BY <1>1, CertCacheInvariant, PTL

\* The cache never grows past its capacity in any other way.
THEOREM CertCacheGrowthBounded == CacheSpec => GrowthBounded
<1> DEFINE Bounded == \/ ~(/\ unindexed' \subseteq unindexed
                           /\ Cardinality(cached') > Cardinality(cached))
                      \/ capacity <= 0 \/ Cardinality(cached') <= capacity
<1>1. ASSUME CacheIInv, [CacheNext]_cacheVars PROVE Bounded
  <2>0. /\ capacity \in Int /\ Sound(cached, index)
        /\ \A a \in Actor : copy[a] \in SUBSET Hash
    BY <1>1, CapacityAssumption, Zenon DEF CacheIInv, CacheTypeOK
  <2>1. \A S \in SUBSET cached : /\ Cardinality(S) <= Cardinality(cached)
                                 /\ Cardinality(S) \in Nat
    BY <2>0, FS_Subset, FS_CardinalityType, Zenon DEF Sound
  <2>2. IsFiniteSet(cached') /\ Cardinality(cached') \in Nat /\ Cardinality(cached) \in Nat
    BY <1>1, <2>0, IndexStep, FS_CardinalityType, Zenon DEF Sound
  <2>3. CASE cached' \in SUBSET cached
    BY <2>1, <2>2, <2>3
  <2>4. ASSUME NEW h \in Hash, CacheCertificate(h) PROVE Bounded
    BY <2>0, <2>2, <2>4, CacheBounded DEF CacheCertificate
  <2>5. ASSUME NEW a \in Actor, NEW h \in Hash, ReplaceCertificate(a, h) PROVE Bounded
    <3>1. Sound(cached \ copy[a], Unindex(index, copy[a]))
      BY <2>0, UnindexSound, Zenon
    <3>2. \/ Cardinality(cached') <= Cardinality(cached \ copy[a])
          \/ capacity <= 0 \/ Cardinality(cached') <= capacity
      BY <2>0, <2>5, <3>1, CacheBounded, Zenon DEF ReplaceCertificate
    <3>3. /\ Cardinality(cached \ copy[a]) <= Cardinality(cached)
          /\ Cardinality(cached \ copy[a]) \in Nat
      BY <2>1, cached \ copy[a] \in SUBSET cached, Zenon
    <3> QED
      BY <2>0, <2>2, <3>2, <3>3
  <2>6. ASSUME NEW a \in Actor, StoreStapledCopy(a) PROVE Bounded
    <3>1. CASE unindexed' \subseteq unindexed
      <4>1. cached' = cached
        BY <1>1, <2>6, <3>1, Zenon DEF StoreStapledCopy, CacheIInv, CacheTypeOK
      <4> QED
        BY <2>3, <4>1, Zenon
    <3> QED
      BY <3>1, Zenon
  <2> HIDE DEF Bounded
  <2> QED
    BY <1>1, <2>3, <2>4, <2>5, <2>6, Zenon
       DEF CacheNext, SetOptions, TakeCopy, StartRemoveManaged, FinishWithCopy,
           RemoveCertificate, Remove, cacheVars
<1>2. ASSUME CacheIInv, [CacheNext]_cacheVars
      PROVE  [(unindexed' \subseteq unindexed /\ Cardinality(cached') > Cardinality(cached))
                 => (capacity <= 0 \/ Cardinality(cached') <= capacity)]_cacheVars
  BY <1>1, <1>2, Zenon
<1> QED
  BY <1>2, CertCacheInvariant, PTL DEF CacheSpec, GrowthBounded

-----------------------------------------------------------------------------
(***************************************************************************)
(* The job manager: the inductive invariant.  It counts the workers that   *)
(* exist against activeWorkers (the bound on them follows) and keeps the   *)
(* names of queued and running jobs in names (no duplicates follows).  As  *)
(* Submit spawns a worker whenever there is a slot, below the maximum      *)
(* every queued job has one.  With each job in at most one place, a step   *)
(* maps to a step of JobQueue or to none.                                  *)
(***************************************************************************)

\* The worker goroutines that exist are counted by activeWorkers; a panic
\* removes one without counting down, so the count may only be too high.
WorkersCounted == Cardinality(Alive) <= activeWorkers

\* A named job that is enqueued or running has its name in names.
ActiveNamesKnown ==
    /\ \A i \in DOMAIN queue : JobName[queue[i]] # NoName => JobName[queue[i]] \in names
    /\ \A w \in AtWork : JobName[job[w]] # NoName => JobName[job[w]] \in names

JobsIInv == JobsTypeOK /\ WorkersCounted /\ ActiveNamesKnown /\ NoDuplicateJobs

-----------------------------------------------------------------------------
\* Worker is a finite set, so its subsets have cardinalities.
LEMMA WorkersFinite == IsFiniteSet(Worker) /\ Cardinality(Worker) = MaxConcurrentJobs
<1>1. MaxConcurrentJobs \in Nat
  BY MaxConcurrentJobsAssumption, Zenon
<1>2. 1 .. MaxConcurrentJobs = Worker
  BY Zenon DEF Worker
<1> QED
  BY <1>1, <1>2, FS_Interval, 1 \in Int, MaxConcurrentJobs \in Int

\* Any set of workers is finite.
LEMMA WorkerSubsets ==
  ASSUME NEW S \in SUBSET Worker
  PROVE  IsFiniteSet(S) /\ Cardinality(S) \in Nat /\ Cardinality(S) <= MaxConcurrentJobs
BY WorkersFinite, FS_Subset, FS_CardinalityType, Zenon

\* Adding and removing one worker changes the number of workers by one.
LEMMA OneWorkerMore ==
  ASSUME NEW S \in SUBSET Worker, NEW w \in Worker, w \notin S
  PROVE  Cardinality(S \cup {w}) = Cardinality(S) + 1
BY WorkerSubsets, FS_AddElement, Zenon

\* A worker that leaves a set of workers makes it smaller by one.
LEMMA OneWorkerLess ==
  ASSUME NEW S \in SUBSET Worker, NEW w \in S
  PROVE  Cardinality(S \ {w}) = Cardinality(S) - 1 /\ Cardinality(S) >= 1
<1>1. Cardinality(S \ {w}) = Cardinality(S) - 1
  BY WorkerSubsets, FS_RemoveElement, Zenon
<1>2. Cardinality(S \ {w}) \in Nat /\ Cardinality(S) \in Nat
  BY WorkerSubsets, S \ {w} \in SUBSET Worker, Zenon
<1> QED
  BY <1>1, <1>2

-----------------------------------------------------------------------------
\* Submit with a name that is not taken: the only action that adds a job.
LEMMA EnqueueStep ==
  ASSUME JobsIInv, NEW j \in Job, JobName[j] \notin names, Enqueue(j), UNCHANGED job,
         submitted' = submitted \cup {j}
  PROVE  JobsIInv'
<1> USE DEF JobsIInv
<1>1. /\ queue' \in Seq(Job)
      /\ Len(queue') = Len(queue) + 1
      /\ DOMAIN queue = 1 .. Len(queue) /\ DOMAIN queue' = 1 .. Len(queue')
      /\ Len(queue) \in Nat
      /\ \A i \in 1 .. Len(queue) : queue'[i] = queue[i]
      /\ queue'[Len(queue) + 1] = j
  BY AppendProperties, LenProperties DEF Enqueue, JobsTypeOK
<1>2. /\ names' \subseteq {JobName[k] : k \in Job} \ {NoName}
      /\ names \subseteq names'
      /\ JobName[j] # NoName => JobName[j] \in names'
  BY Zenon DEF Enqueue, JobsTypeOK
<1>3. /\ doing' \in [Worker -> {Absent, Idle, Running, Returned}]
      /\ AtWork' = AtWork
      /\ activeWorkers' \in 0 .. MaxConcurrentJobs
      /\ WorkersCounted'
  <2>1. CASE activeWorkers >= MaxConcurrentJobs
    <3>1. UNCHANGED <<doing, activeWorkers>>
      BY <2>1, MaxConcurrentJobsAssumption DEF Enqueue, JobsTypeOK
    <3>2. Alive' = Alive /\ AtWork' = AtWork
      BY <3>1, Zenon DEF Alive, AtWork
    <3> QED
      BY <3>1, <3>2, Zenon DEF WorkersCounted, JobsTypeOK
  <2>2. CASE activeWorkers < MaxConcurrentJobs
    <3>1. activeWorkers' = activeWorkers + 1
      BY <2>2, MaxConcurrentJobsAssumption DEF Enqueue, JobsTypeOK
    <3>2. PICK w \in Worker : doing[w] = Absent /\ doing' = [doing EXCEPT ![w] = Idle]
      BY <2>2, MaxConcurrentJobsAssumption DEF Enqueue, JobsTypeOK
    <3>3. Alive' = Alive \cup {w} /\ w \notin Alive /\ AtWork' = AtWork
      BY <3>2, Zenon DEF Alive, AtWork, JobsTypeOK, Absent, Idle, Running, Returned
    <3>4. Cardinality(Alive') = Cardinality(Alive) + 1
      BY <3>3, OneWorkerMore, Alive \in SUBSET Worker, Zenon DEF Alive
    <3>5. Cardinality(Alive) \in Nat
      BY WorkerSubsets, Alive \in SUBSET Worker, Zenon DEF Alive
    <3>6. WorkersCounted' /\ activeWorkers' \in 0 .. MaxConcurrentJobs
      BY <2>2, <3>1, <3>4, <3>5, MaxConcurrentJobsAssumption DEF WorkersCounted, JobsTypeOK
    <3> QED
      BY <3>2, <3>3, <3>6, Zenon DEF JobsTypeOK, Absent, Idle, Running, Returned
  <2> QED
    BY <2>1, <2>2, MaxConcurrentJobsAssumption DEF JobsTypeOK
<1>4. JobsTypeOK'
  BY <1>1, <1>2, <1>3, Zenon DEF JobsTypeOK
<1>5. ActiveNamesKnown'
  <2>1. ASSUME NEW i \in DOMAIN queue', JobName[queue'[i]] # NoName
        PROVE  JobName[queue'[i]] \in names'
    BY <1>1, <1>2, <2>1 DEF ActiveNamesKnown
  <2>2. \A w \in AtWork' : JobName[job'[w]] # NoName => JobName[job'[w]] \in names'
    BY <1>2, <1>3, Zenon DEF ActiveNamesKnown
  <2> QED
    BY <2>1, <2>2, Zenon DEF ActiveNamesKnown
<1>6. NoDuplicateJobs'
  <2>1. ASSUME NEW i \in DOMAIN queue', NEW k \in DOMAIN queue', i # k,
               JobName[queue'[i]] = JobName[queue'[k]]
        PROVE  JobName[queue'[i]] = NoName
    <3>1. CASE i \in 1 .. Len(queue) /\ k \in 1 .. Len(queue)
      BY <1>1, <2>1, <3>1 DEF NoDuplicateJobs
    <3>2. CASE i = Len(queue) + 1 /\ k \in 1 .. Len(queue)
      BY <1>1, <2>1, <3>2, Zenon DEF ActiveNamesKnown
    <3>3. CASE k = Len(queue) + 1 /\ i \in 1 .. Len(queue)
      BY <1>1, <2>1, <3>3, Zenon DEF ActiveNamesKnown
    <3> QED
      BY <1>1, <2>1, <3>1, <3>2, <3>3
  <2>2. \A v, w \in AtWork' :
          (v # w /\ JobName[job'[v]] = JobName[job'[w]]) => JobName[job'[v]] = NoName
    BY <1>3, Zenon DEF NoDuplicateJobs
  <2>3. ASSUME NEW i \in DOMAIN queue', NEW w \in AtWork',
               JobName[queue'[i]] = JobName[job'[w]]
        PROVE  JobName[queue'[i]] = NoName
    <3>1. CASE i \in 1 .. Len(queue)
      BY <1>1, <1>3, <2>3, <3>1 DEF NoDuplicateJobs
    <3>2. CASE i = Len(queue) + 1
      BY <1>1, <1>3, <2>3, <3>2, Zenon DEF ActiveNamesKnown
    <3> QED
      BY <1>1, <3>1, <3>2
  <2> QED
    BY <2>1, <2>2, <2>3, Zenon DEF NoDuplicateJobs
<1> QED
  BY <1>3, <1>4, <1>5, <1>6, Zenon

\* TakeJob moves the oldest job from the queue to a worker.
LEMMA TakeJobStep ==
  ASSUME JobsIInv, NEW w \in Worker, TakeJob(w)
  PROVE  JobsIInv'
<1> USE DEF JobsIInv
<1> USE DEF Absent, Idle, Running, Returned
<1>1. /\ queue' \in Seq(Job) /\ Head(queue) \in Job
      /\ Len(queue) \in Nat \ {0}
      /\ Len(queue') = Len(queue) - 1
      /\ DOMAIN queue = 1 .. Len(queue) /\ DOMAIN queue' = 1 .. Len(queue')
      /\ \A i \in 1 .. Len(queue') : queue'[i] = queue[i + 1]
      /\ Head(queue) = queue[1]
  <2>1. queue \in Seq(Job) /\ queue # <<>> /\ queue' = Tail(queue)
    BY Zenon DEF TakeJob, JobsTypeOK
  <2> QED
    BY <2>1, HeadTailProperties, LenProperties, EmptySeq
<1>2. /\ AtWork' = AtWork \cup {w} /\ w \notin AtWork
      /\ Alive' = Alive
      /\ doing' \in [Worker -> {Absent, Idle, Running, Returned}]
  BY Zenon DEF TakeJob, JobsTypeOK, AtWork, Alive
<1>3. /\ job' \in [Worker -> Job \cup {NoJob}]
      /\ job'[w] = queue[1]
      /\ \A v \in AtWork : job'[v] = job[v]
      /\ \A v \in AtWork' : job'[v] \in Job
  BY <1>1, <1>2, Zenon DEF TakeJob, JobsTypeOK, AtWork
<1>4. JobsTypeOK' /\ WorkersCounted'
  BY <1>1, <1>2, <1>3, Zenon DEF JobsTypeOK, WorkersCounted, TakeJob
<1>5. ActiveNamesKnown'
  <2>1. names' = names
    BY Zenon DEF TakeJob
  <2>2. \A i \in DOMAIN queue' : i + 1 \in DOMAIN queue /\ queue'[i] = queue[i + 1]
    BY <1>1
  <2>3. ASSUME NEW i \in DOMAIN queue', JobName[queue'[i]] # NoName
        PROVE  JobName[queue'[i]] \in names'
    BY <2>1, <2>2, <2>3, Zenon DEF ActiveNamesKnown
  <2>4. ASSUME NEW v \in AtWork', JobName[job'[v]] # NoName
        PROVE  JobName[job'[v]] \in names'
    <3>1. 1 \in DOMAIN queue
      BY <1>1
    <3> QED
      BY <1>2, <1>3, <2>1, <2>4, <3>1 DEF ActiveNamesKnown
  <2> QED
    BY <2>3, <2>4, Zenon DEF ActiveNamesKnown
<1>6. NoDuplicateJobs'
  <2>1. \A i \in DOMAIN queue' :
          i + 1 \in DOMAIN queue /\ i + 1 # 1 /\ queue'[i] = queue[i + 1]
    BY <1>1
  <2>2. 1 \in DOMAIN queue
    BY <1>1
  <2>3. ASSUME NEW i \in DOMAIN queue', NEW k \in DOMAIN queue', i # k,
               JobName[queue'[i]] = JobName[queue'[k]]
        PROVE  JobName[queue'[i]] = NoName
    <3>1. i + 1 # k + 1
      BY <1>1, <2>3
    <3> QED
      BY <2>1, <2>3, <3>1 DEF NoDuplicateJobs
  <2>4. ASSUME NEW u \in AtWork', NEW v \in AtWork', u # v,
               JobName[job'[u]] = JobName[job'[v]]
        PROVE  JobName[job'[u]] = NoName
    BY <1>2, <1>3, <2>2, <2>4 DEF NoDuplicateJobs
  <2>5. ASSUME NEW i \in DOMAIN queue', NEW v \in AtWork',
               JobName[queue'[i]] = JobName[job'[v]]
        PROVE  JobName[queue'[i]] = NoName
    BY <1>2, <1>3, <2>1, <2>2, <2>5 DEF NoDuplicateJobs
  <2> QED
    BY <2>3, <2>4, <2>5, Zenon DEF NoDuplicateJobs
<1> QED
  BY <1>4, <1>5, <1>6, Zenon

\* A step that starts no job and keeps the names of the jobs that stay active
\* preserves both facts about names.
LEMMA NoNewJob ==
  ASSUME JobsIInv, queue' = queue, AtWork' \subseteq AtWork,
         \A v \in AtWork' : job'[v] = job[v],
         \A i \in DOMAIN queue :
            JobName[queue[i]] # NoName => JobName[queue[i]] \in names',
         \A v \in AtWork' :
            JobName[job[v]] # NoName => JobName[job[v]] \in names'
  PROVE  ActiveNamesKnown' /\ NoDuplicateJobs'
<1>1. ActiveNamesKnown'
  BY Zenon DEF ActiveNamesKnown
<1>2. NoDuplicateJobs'
  BY DEF JobsIInv, NoDuplicateJobs
<1> QED
  BY <1>1, <1>2, Zenon

\* A worker exits only when it is counted, and is counted no more.
LEMMA ExitWorkerStep ==
  ASSUME JobsIInv, NEW w \in Worker, ExitWorker(w)
  PROVE  JobsIInv'
<1> USE DEF JobsIInv, Absent, Idle, Running, Returned
<1>1. /\ Alive' = Alive \ {w} /\ w \in Alive /\ AtWork' = AtWork
      /\ doing' \in [Worker -> {Absent, Idle, Running, Returned}]
  BY Zenon DEF ExitWorker, JobsTypeOK, AtWork, Alive
<1>2. Cardinality(Alive') = Cardinality(Alive) - 1 /\ Cardinality(Alive) >= 1
  BY <1>1, OneWorkerLess, Alive \in SUBSET Worker, Zenon DEF Alive
<1>3. Cardinality(Alive) \in Nat
  BY WorkerSubsets, Alive \in SUBSET Worker, Zenon DEF Alive
<1>4. WorkersCounted' /\ activeWorkers' \in 0 .. MaxConcurrentJobs
  BY <1>2, <1>3, MaxConcurrentJobsAssumption DEF WorkersCounted, JobsTypeOK, ExitWorker
<1>5. JobsTypeOK'
  BY <1>1, <1>4, Zenon DEF JobsTypeOK, ExitWorker
<1>6. ActiveNamesKnown' /\ NoDuplicateJobs'
  BY <1>1, NoNewJob, Zenon DEF ExitWorker, ActiveNamesKnown
<1> QED
  BY <1>4, <1>5, <1>6, Zenon

\* A finished job is in no one's hands, and its name may be queued again.
LEMMA FinishJobStep ==
  ASSUME JobsIInv, NEW w \in Worker, FinishJob(w)
  PROVE  JobsIInv'
<1> USE DEF JobsIInv, Absent, Idle, Running, Returned
<1>1. /\ Alive' = Alive /\ AtWork' = AtWork
      /\ doing' \in [Worker -> {Absent, Idle, Running, Returned}]
  BY Zenon DEF FinishJob, JobsTypeOK, AtWork, Alive
<1>2. JobsTypeOK' /\ WorkersCounted'
  BY <1>1, Zenon DEF JobsTypeOK, WorkersCounted, FinishJob
<1>3. ActiveNamesKnown' /\ NoDuplicateJobs'
  BY <1>1, NoNewJob, Zenon DEF FinishJob, ActiveNamesKnown
<1> QED
  BY <1>2, <1>3, Zenon

\* The name that is deleted belongs to no other active job.
LEMMA ForgetNameStep ==
  ASSUME JobsIInv, NEW w \in Worker, ForgetName(w)
  PROVE  JobsIInv'
<1> USE DEF JobsIInv, Absent, Idle, Running, Returned
<1>1. /\ Alive' = Alive /\ AtWork' = AtWork \ {w} /\ w \in AtWork
      /\ doing' \in [Worker -> {Absent, Idle, Running, Returned}]
      /\ job' \in [Worker -> Job \cup {NoJob}]
      /\ \A v \in AtWork' : job'[v] = job[v]
  BY Zenon DEF ForgetName, JobsTypeOK, AtWork, Alive
<1>2. JobsTypeOK' /\ WorkersCounted'
  BY <1>1, Zenon DEF JobsTypeOK, WorkersCounted, ForgetName
<1>3. \A i \in DOMAIN queue :
         JobName[queue[i]] # NoName => JobName[queue[i]] \in names'
  BY <1>1, Zenon DEF ForgetName, ActiveNamesKnown, NoDuplicateJobs
<1>4. \A v \in AtWork' :
         JobName[job[v]] # NoName => JobName[job[v]] \in names'
  BY <1>1, Zenon DEF ForgetName, ActiveNamesKnown, NoDuplicateJobs
<1>5. ActiveNamesKnown' /\ NoDuplicateJobs'
  BY <1>1, <1>3, <1>4, NoNewJob, Zenon DEF ForgetName
<1> QED
  BY <1>2, <1>5, Zenon

\* A panic drops a goroutine and leaves its name and its count behind.
LEMMA PanicJobStep ==
  ASSUME JobsIInv, NEW w \in Worker, PanicJob(w)
  PROVE  JobsIInv'
<1> USE DEF JobsIInv, Absent, Idle, Running, Returned
<1>1. /\ Alive' = Alive \ {w} /\ w \in Alive /\ AtWork' = AtWork \ {w}
      /\ doing' \in [Worker -> {Absent, Idle, Running, Returned}]
      /\ job' \in [Worker -> Job \cup {NoJob}]
      /\ \A v \in AtWork' : job'[v] = job[v]
  BY Zenon DEF PanicJob, JobsTypeOK, AtWork, Alive
<1>2. Cardinality(Alive') = Cardinality(Alive) - 1
  BY <1>1, OneWorkerLess, Alive \in SUBSET Worker, Zenon DEF Alive
<1>3. Cardinality(Alive) \in Nat
  BY WorkerSubsets, Alive \in SUBSET Worker, Zenon DEF Alive
<1>4. WorkersCounted'
  BY <1>2, <1>3 DEF WorkersCounted, JobsTypeOK, PanicJob
<1>5. JobsTypeOK'
  BY <1>1, Zenon DEF JobsTypeOK, PanicJob
<1>6. ActiveNamesKnown' /\ NoDuplicateJobs'
  BY <1>1, NoNewJob, Zenon DEF PanicJob, ActiveNamesKnown
<1> QED
  BY <1>4, <1>5, <1>6, Zenon

-----------------------------------------------------------------------------
\* The inductive invariant: every step of Submit and of the workers keeps it.
THEOREM JobManagerInvariant == JobsSpec => []JobsIInv
<1>1. JobsInit => JobsIInv
  <2> SUFFICES ASSUME JobsInit PROVE JobsIInv
    BY Zenon
  <2>1. Alive = {} /\ AtWork = {}
    BY Zenon DEF JobsInit, Alive, AtWork, Absent, Running, Returned
  <2>2. Cardinality(Alive) = 0
    BY <2>1, FS_EmptySet, Zenon
  <2>3. JobsTypeOK
    BY <2>1, MaxConcurrentJobsAssumption, EmptySeq DEF JobsInit, JobsTypeOK
  <2> QED
    BY <2>1, <2>2, <2>3 DEF JobsIInv, JobsInit, WorkersCounted, ActiveNamesKnown, NoDuplicateJobs
<1>2. JobsIInv /\ [JobsNext]_jobVars => JobsIInv'
  <2> SUFFICES ASSUME JobsIInv, [JobsNext]_jobVars PROVE JobsIInv'
    BY Zenon
  <2>1. ASSUME NEW j \in Job, Submit(j) PROVE JobsIInv'
    <3>1. CASE JobName[j] \in names
      <4>1. UNCHANGED <<activeWorkers, queue, names, doing, job>> /\ submitted' \subseteq Job
        BY <2>1, <3>1, Zenon DEF Submit, JobsIInv, JobsTypeOK
      <4>2. Alive' = Alive /\ AtWork' = AtWork
        BY <4>1, Zenon DEF Alive, AtWork
      <4>3. JobsTypeOK' /\ WorkersCounted'
        BY <4>1, <4>2, Zenon DEF JobsIInv, JobsTypeOK, WorkersCounted
      <4>4. ActiveNamesKnown' /\ NoDuplicateJobs'
        BY <4>1, <4>2, NoNewJob, Zenon DEF JobsIInv, ActiveNamesKnown
      <4> QED
        BY <4>3, <4>4, Zenon DEF JobsIInv
    <3>2. CASE JobName[j] \notin names
      BY <2>1, <3>2, EnqueueStep, Zenon DEF Submit
    <3> QED
      BY <3>1, <3>2, Zenon
  <2>2. ASSUME NEW w \in Worker, WorkerStep(w) PROVE JobsIInv'
    BY <2>2, TakeJobStep, ExitWorkerStep, FinishJobStep, ForgetNameStep, PanicJobStep, Zenon
       DEF WorkerStep
  <2>3. CASE UNCHANGED jobVars
    BY <2>3, Zenon DEF jobVars, JobsIInv, JobsTypeOK, WorkersCounted, ActiveNamesKnown, NoDuplicateJobs,
                Alive, AtWork
  <2> QED
    BY <2>1, <2>2, <2>3, Zenon DEF JobsNext, Done
<1> QED
  BY <1>1, <1>2, PTL DEF JobsSpec

\* The fields of jobManager and the workers' state stay in their types; in
\* particular activeWorkers never drops below zero or exceeds the maximum.
THEOREM JobManagerTypes == JobsSpec => []JobsTypeOK
BY JobManagerInvariant, PTL DEF JobsIInv

\* Submit's promise to "prevent duplicate jobs": no two active jobs share a
\* name, for any number of workers and whatever the jobs do.
THEOREM JobManagerNoDuplicates == JobsSpec => []NoDuplicateJobs
BY JobManagerInvariant, PTL DEF JobsIInv

-----------------------------------------------------------------------------
(* PromptService *)

\* A step keeps PromptService if every job it enqueues has a new idle worker,
\* and an idle worker is lost only to a job or for want of one.
LEMMA PromptServiceStep ==
  ASSUME JobsIInv, PromptService, [JobsNext]_jobVars
  PROVE  PromptService'
<1> USE DEF Absent, Idle, Running, Returned
<1> DEFINE idle == Cardinality(IdleWorkers)
<1>0. /\ IdleWorkers \in SUBSET Worker /\ IdleWorkers' \in SUBSET Worker
      /\ idle \in Nat /\ idle' \in Nat
      /\ queue \in Seq(Job) /\ Len(queue) \in Nat /\ activeWorkers \in Nat
      /\ MaxConcurrentJobs \in Nat
  <2>1. IdleWorkers \in SUBSET Worker /\ IdleWorkers' \in SUBSET Worker
    BY Zenon DEF IdleWorkers
  <2>2. queue \in Seq(Job) /\ activeWorkers \in Nat /\ MaxConcurrentJobs \in Nat
    BY MaxConcurrentJobsAssumption DEF JobsIInv, JobsTypeOK
  <2> QED
    BY <2>1, <2>2, WorkerSubsets, LenProperties, Zenon
<1>1. ASSUME NEW j \in Job, Submit(j), JobName[j] \notin names, activeWorkers < MaxConcurrentJobs
      PROVE  PromptService'
  <2>1. queue' = Append(queue, j)
    BY <1>1, Zenon DEF Submit, Enqueue
  <2>2. PICK w \in Worker : doing[w] = Absent /\ doing' = [doing EXCEPT ![w] = Idle]
    BY <1>1, <1>0 DEF Submit, Enqueue
  <2>3. IdleWorkers' = IdleWorkers \cup {w} /\ w \notin IdleWorkers
    BY <2>2, Zenon DEF IdleWorkers, JobsIInv, JobsTypeOK
  <2>4. idle' = idle + 1
    BY <1>0, <2>3, OneWorkerMore, Zenon
  <2>5. Len(queue') = Len(queue) + 1
    BY <1>0, <2>1, AppendProperties, Zenon
  <2> QED
    BY <1>0, <1>1, <2>4, <2>5 DEF PromptService
<1>2. ASSUME NEW j \in Job, Submit(j), JobName[j] \in names \/ activeWorkers >= MaxConcurrentJobs
      PROVE  PromptService'
  <2>1. CASE JobName[j] \in names
    BY <1>2, <2>1, Zenon DEF Submit, PromptService, IdleWorkers
  <2>2. CASE JobName[j] \notin names
    <3>1. activeWorkers' = activeWorkers /\ activeWorkers >= MaxConcurrentJobs
      BY <1>0, <1>2, <2>2 DEF Submit, Enqueue
    <3> QED
      BY <1>0, <3>1 DEF PromptService
  <2> QED
    BY <2>1, <2>2, Zenon
<1>3. ASSUME NEW w \in Worker, TakeJob(w) PROVE PromptService'
  <2>1. IdleWorkers' = IdleWorkers \ {w} /\ w \in IdleWorkers
    BY <1>3, Zenon DEF TakeJob, IdleWorkers, JobsIInv, JobsTypeOK
  <2>2. idle' = idle - 1
    BY <1>0, <2>1, OneWorkerLess, Zenon
  <2>3. Len(queue') = Len(queue) - 1
    BY <1>0, <1>3, HeadTailProperties, Zenon DEF TakeJob
  <2> QED
    BY <1>0, <1>3, <2>2, <2>3 DEF PromptService, TakeJob
<1>4. ASSUME NEW w \in Worker, ExitWorker(w) PROVE PromptService'
  <2>1. Len(queue') = 0
    BY <1>4, EmptySeq, Zenon DEF ExitWorker
  <2> QED
    BY <1>0, <2>1 DEF PromptService
<1>5. ASSUME NEW w \in Worker, FinishJob(w) \/ PanicJob(w) PROVE PromptService'
  <2>1. IdleWorkers' = IdleWorkers
    BY <1>5, Zenon DEF FinishJob, PanicJob, IdleWorkers, JobsIInv, JobsTypeOK
  <2> QED
    BY <1>5, <2>1, Zenon DEF PromptService, FinishJob, PanicJob
<1>6. ASSUME NEW w \in Worker, ForgetName(w) PROVE PromptService'
  <2>1. IdleWorkers' = IdleWorkers \cup {w} /\ w \notin IdleWorkers
    BY <1>6, Zenon DEF ForgetName, IdleWorkers, JobsIInv, JobsTypeOK
  <2>2. idle' = idle + 1
    BY <1>0, <2>1, OneWorkerMore, Zenon
  <2> QED
    BY <1>0, <1>6, <2>2 DEF PromptService, ForgetName
<1>7. CASE UNCHANGED jobVars
  BY <1>7, Zenon DEF jobVars, PromptService, IdleWorkers
<1> QED
  BY <1>0, <1>1, <1>2, <1>3, <1>4, <1>5, <1>6, <1>7 DEF JobsNext, WorkerStep, Done

\* Submit's "as soon as it is able", for any number of workers: while fewer
\* than the maximum are counted, every enqueued job has an idle worker.
THEOREM JobManagerPromptService == JobsSpec => []PromptService
<1>1. JobsInit => PromptService
  <2> SUFFICES ASSUME JobsInit PROVE PromptService
    BY Zenon
  <2>1. Len(queue) = 0
    BY EmptySeq, Zenon DEF JobsInit
  <2>2. IdleWorkers \in SUBSET Worker
    BY Zenon DEF IdleWorkers
  <2> QED
    BY <2>1, <2>2, WorkerSubsets DEF PromptService
<1> QED
  BY <1>1, PromptServiceStep, JobManagerInvariant, PTL DEF JobsSpec

-----------------------------------------------------------------------------
(* The refinement of JobQueue *)

\* A job is enqueued once or at one worker, never both, and its Submit has
\* been called.  NoDuplicateJobs says that of named jobs only.
OnePlace ==
    /\ \A i \in DOMAIN queue : queue[i] \in submitted
    /\ \A w \in AtWork : job[w] \in submitted
    /\ \A i, k \in DOMAIN queue : i # k => queue[i] # queue[k]
    /\ \A v, w \in AtWork : v # w => job[v] # job[w]
    /\ \A i \in DOMAIN queue, w \in AtWork : queue[i] # job[w]

\* What Enqueue does to the queue and to the places of jobs.
LEMMA EnqueueFacts ==
  ASSUME JobsIInv, NEW j \in Job, Enqueue(j), UNCHANGED job
  PROVE  /\ Len(queue) \in Nat
         /\ DOMAIN queue = 1 .. Len(queue) /\ DOMAIN queue' = 1 .. Len(queue) + 1
         /\ \A i \in 1 .. Len(queue) : queue'[i] = queue[i]
         /\ queue'[Len(queue) + 1] = j
         /\ Queued' = Queued \cup {j}
         /\ AtWork' = AtWork /\ InProgress' = InProgress
<1>1. /\ queue' \in Seq(Job)
      /\ Len(queue') = Len(queue) + 1
      /\ DOMAIN queue = 1 .. Len(queue) /\ DOMAIN queue' = 1 .. Len(queue')
      /\ Len(queue) \in Nat
      /\ \A i \in 1 .. Len(queue) : queue'[i] = queue[i]
      /\ queue'[Len(queue) + 1] = j
  BY AppendProperties, LenProperties DEF Enqueue, JobsIInv, JobsTypeOK
<1>2. Queued' = Queued \cup {j}
  BY <1>1 DEF Queued
<1>3. AtWork' = AtWork
  BY Zenon DEF Enqueue, AtWork, JobsIInv, JobsTypeOK, Absent, Idle, Running, Returned
<1>4. InProgress' = InProgress
  BY <1>3, Zenon DEF InProgress
<1> QED
  BY <1>1, <1>2, <1>3, <1>4, Zenon

\* What TakeJob does to them.
LEMMA TakeJobFacts ==
  ASSUME JobsIInv, NEW w \in Worker, TakeJob(w)
  PROVE  /\ Len(queue) \in Nat \ {0}
         /\ DOMAIN queue = 1 .. Len(queue) /\ DOMAIN queue' = 1 .. Len(queue) - 1
         /\ \A i \in 1 .. Len(queue) - 1 : queue'[i] = queue[i + 1]
         /\ Head(queue) = queue[1]
         /\ Queued = Queued' \cup {Head(queue)}
         /\ AtWork' = AtWork \cup {w} /\ w \notin AtWork
         /\ job'[w] = Head(queue) /\ \A v \in AtWork : job'[v] = job[v]
         /\ InProgress' = InProgress \cup {Head(queue)}
<1>1. queue \in Seq(Job) /\ queue # <<>> /\ queue' = Tail(queue)
  BY Zenon DEF TakeJob, JobsIInv, JobsTypeOK
<1>2. /\ Len(queue) \in Nat \ {0}
      /\ Len(queue') = Len(queue) - 1
      /\ DOMAIN queue = 1 .. Len(queue) /\ DOMAIN queue' = 1 .. Len(queue')
      /\ \A i \in 1 .. Len(queue') : queue'[i] = queue[i + 1]
      /\ Head(queue) = queue[1]
  BY <1>1, HeadTailProperties, LenProperties, EmptySeq
<1>3. Queued = Queued' \cup {Head(queue)}
  <2>1. \A i \in DOMAIN queue :
           \/ i = 1
           \/ i - 1 \in DOMAIN queue' /\ queue[i] = queue'[i - 1]
    BY <1>2
  <2>2. \A i \in DOMAIN queue' : i + 1 \in DOMAIN queue /\ queue'[i] = queue[i + 1]
    BY <1>2
  <2>3. 1 \in DOMAIN queue
    BY <1>2
  <2> QED
    BY <1>2, <2>1, <2>2, <2>3 DEF Queued
<1>4. AtWork' = AtWork \cup {w} /\ w \notin AtWork
  BY Zenon DEF TakeJob, AtWork, JobsIInv, JobsTypeOK, Absent, Idle, Running, Returned
<1>5. job'[w] = Head(queue) /\ \A v \in AtWork : job'[v] = job[v]
  BY <1>4, Zenon DEF TakeJob, JobsIInv, JobsTypeOK, AtWork
<1>6. InProgress' = InProgress \cup {Head(queue)}
  BY <1>4, <1>5, Zenon DEF InProgress
<1> QED
  BY <1>2, <1>3, <1>4, <1>5, <1>6, Zenon

\* ForgetName and PanicJob take the job of one worker away.
LEMMA LeaveFacts ==
  ASSUME JobsIInv, NEW w \in Worker, ForgetName(w) \/ PanicJob(w)
  PROVE  /\ w \in AtWork /\ AtWork' = AtWork \ {w}
         /\ \A v \in AtWork' : job'[v] = job[v]
         /\ queue' = queue /\ Queued' = Queued /\ submitted' = submitted
         /\ job[w] \in Job
<1>1. w \in AtWork /\ AtWork' = AtWork \ {w} /\ \A v \in AtWork' : job'[v] = job[v]
  BY Zenon DEF ForgetName, PanicJob, AtWork, JobsIInv, JobsTypeOK, Absent, Idle, Running, Returned
<1> QED
  BY <1>1 DEF ForgetName, PanicJob, Queued, JobsIInv, JobsTypeOK

\* No step puts a job in two places.
LEMMA OnePlaceStep ==
  ASSUME JobsIInv, OnePlace, [JobsNext]_jobVars
  PROVE  OnePlace'
<1>1. ASSUME NEW j \in Job, Submit(j) PROVE OnePlace'
  <2>1. CASE JobName[j] \in names
    BY <1>1, <2>1, Zenon DEF Submit, OnePlace, AtWork
  <2>2. CASE JobName[j] \notin names
    <3>1. Enqueue(j) /\ UNCHANGED job /\ j \notin submitted /\ submitted' = submitted \cup {j}
      BY <1>1, <2>2, Zenon DEF Submit
    <3>2. \A i \in DOMAIN queue' :
             \/ i \in DOMAIN queue /\ queue'[i] = queue[i]
             \/ i = Len(queue) + 1 /\ queue'[i] = j
      BY <3>1, EnqueueFacts
    <3>3. AtWork' = AtWork
      BY <3>1, EnqueueFacts, Zenon
    <3> QED
      BY <3>1, <3>2, <3>3 DEF OnePlace
  <2> QED
    BY <2>1, <2>2, Zenon
<1>2. ASSUME NEW w \in Worker, TakeJob(w) PROVE OnePlace'
  <2>1. \A i \in DOMAIN queue' : i + 1 \in DOMAIN queue /\ i + 1 # 1 /\ queue'[i] = queue[i + 1]
    BY <1>2, TakeJobFacts
  <2>2. \A i, k \in DOMAIN queue' : i # k => i + 1 # k + 1
    BY <1>2, TakeJobFacts
  <2>3. 1 \in DOMAIN queue /\ job'[w] = queue[1]
    BY <1>2, TakeJobFacts
  <2>4. submitted' = submitted
    BY <1>2, Zenon DEF TakeJob
  <2>5. AtWork' = AtWork \cup {w} /\ w \notin AtWork /\ \A v \in AtWork : job'[v] = job[v]
    BY <1>2, TakeJobFacts, Zenon
  <2>6. /\ \A i \in DOMAIN queue' : queue'[i] \in submitted'
        /\ \A i, k \in DOMAIN queue' : i # k => queue'[i] # queue'[k]
    BY <2>1, <2>2, <2>4 DEF OnePlace
  <2>7. /\ \A v \in AtWork' : job'[v] \in submitted'
        /\ \A u, v \in AtWork' : u # v => job'[u] # job'[v]
    BY <2>3, <2>4, <2>5 DEF OnePlace
  <2>8. \A i \in DOMAIN queue', v \in AtWork' : queue'[i] # job'[v]
    BY <2>1, <2>3, <2>5 DEF OnePlace
  <2> QED
    BY <2>6, <2>7, <2>8, Zenon DEF OnePlace
<1>3. ASSUME NEW w \in Worker, ExitWorker(w) \/ FinishJob(w) PROVE OnePlace'
  <2>1. AtWork' = AtWork
    BY <1>3, Zenon DEF ExitWorker, FinishJob, AtWork, JobsIInv, JobsTypeOK, Absent, Idle, Running, Returned
  <2> QED
    BY <1>3, <2>1 DEF OnePlace, ExitWorker, FinishJob
<1>4. ASSUME NEW w \in Worker, ForgetName(w) \/ PanicJob(w) PROVE OnePlace'
  BY <1>4, LeaveFacts DEF OnePlace
<1>5. CASE UNCHANGED jobVars
  BY <1>5, Zenon DEF jobVars, OnePlace, AtWork
<1> QED
  BY <1>1, <1>2, <1>3, <1>4, <1>5, Zenon DEF JobsNext, WorkerStep, Done

\* A worker has one job, so there are no more jobs than workers at work.
LEMMA InProgressBounded ==
  ASSUME NEW w \in Worker, w \notin AtWork
  PROVE  Cardinality(InProgress) < MaxConcurrentJobs
<1> DEFINE f == [v \in AtWork |-> job[v]]
<1>1. AtWork \in SUBSET Worker
  BY Zenon DEF AtWork
<1>2. IsFiniteSet(AtWork) /\ Cardinality(AtWork) \in Nat
  BY <1>1, WorkerSubsets, Zenon
<1>3. f \in Surjection(AtWork, InProgress)
  BY Zenon DEF Surjection, InProgress
<1>4. IsFiniteSet(InProgress) /\ Cardinality(InProgress) <= Cardinality(AtWork)
  BY <1>2, <1>3, FS_Surjection, Zenon
<1>5. Cardinality(AtWork \cup {w}) = Cardinality(AtWork) + 1
  BY <1>1, OneWorkerMore, Zenon
<1>6. Cardinality(AtWork \cup {w}) <= MaxConcurrentJobs
  BY <1>1, WorkerSubsets, AtWork \cup {w} \in SUBSET Worker, Zenon
<1> QED
  BY <1>2, <1>4, <1>5, <1>6, FS_CardinalityType, MaxConcurrentJobsAssumption

\* Every active job that has a name has it in names.
LEMMA ActiveNames ==
  ASSUME JobsIInv, NEW k \in Queued \cup InProgress, JobName[k] # NoName
  PROVE  JobName[k] \in names
BY Zenon DEF JobsIInv, ActiveNamesKnown, Queued, InProgress

\* Every step of the job manager is a step of JobQueue or changes nothing of
\* what JobQueue sees.
LEMMA RefinementStep ==
  ASSUME JobsIInv, OnePlace, [JobsNext]_jobVars
  PROVE  [Abstract!Next]_(Abstract!vars)
<1> DEFINE active == Queued \cup InProgress
<1>1. ASSUME NEW j \in Job, Submit(j), JobName[j] \in names
      PROVE  Abstract!Refuse(j)
  <2>1. /\ j \notin submitted /\ submitted' = submitted \cup {j}
        /\ queue' = queue /\ InProgress' = InProgress /\ LostNames' = LostNames
    BY <1>1, Zenon DEF Submit, LostNames, Queued, InProgress, AtWork
  <2>2. Abstract!Duplicate(j)
    <3>1. JobName[j] # NoName
      BY <1>1, Zenon DEF JobsIInv, JobsTypeOK
    <3>2. (\E k \in active : JobName[k] = JobName[j]) \/ JobName[j] \in LostNames
      BY <1>1, Zenon DEF LostNames
    <3> QED
      BY <3>1, <3>2, Zenon DEF Abstract!Duplicate, Queued
  <2> QED
    BY <2>1, <2>2, Zenon DEF Abstract!Refuse
<1>2. ASSUME NEW j \in Job, Submit(j), JobName[j] \notin names
      PROVE  Abstract!Accept(j)
  <2>1. /\ j \notin submitted /\ submitted' = submitted \cup {j}
        /\ queue' = Append(queue, j) /\ Enqueue(j) /\ UNCHANGED job
    BY <1>2, Zenon DEF Submit, Enqueue
  <2>2. InProgress' = InProgress /\ Queued' = Queued \cup {j}
    BY <2>1, EnqueueFacts, Zenon
  <2>3. ~Abstract!Duplicate(j)
    <3>1. ASSUME NEW k \in active, JobName[j] # NoName PROVE JobName[k] # JobName[j]
      BY <1>2, <3>1, ActiveNames, Zenon
    <3>2. JobName[j] \notin LostNames
      BY <1>2, Zenon DEF LostNames
    <3> QED
      BY <3>1, <3>2, Zenon DEF Abstract!Duplicate, Queued
  <2>4. LostNames' = LostNames
    <3>1. names' = IF JobName[j] = NoName THEN names ELSE names \cup {JobName[j]}
      BY <2>1, Zenon DEF Enqueue
    <3> QED
      BY <1>2, <2>2, <3>1, Zenon DEF LostNames
  <2> QED
    BY <2>1, <2>2, <2>3, <2>4, Zenon DEF Abstract!Accept
<1>3. ASSUME NEW w \in Worker, TakeJob(w) PROVE Abstract!Start
  <2>1. queue # <<>> /\ queue' = Tail(queue) /\ submitted' = submitted /\ names' = names
    BY <1>3, Zenon DEF TakeJob
  <2>2. /\ Queued = Queued' \cup {Head(queue)} /\ w \notin AtWork
        /\ InProgress' = InProgress \cup {Head(queue)}
    BY <1>3, TakeJobFacts, Zenon
  <2>3. LostNames' = LostNames
    BY <2>1, <2>2, Zenon DEF LostNames
  <2>4. Abstract!Cardinality(InProgress) = Cardinality(InProgress)
    BY Zenon DEF Abstract!Cardinality, Cardinality
  <2> QED
    BY <2>1, <2>2, <2>3, <2>4, InProgressBounded, Zenon DEF Abstract!Start
<1>4. ASSUME NEW w \in Worker, ExitWorker(w) \/ FinishJob(w)
      PROVE  UNCHANGED Abstract!vars
  <2>1. AtWork' = AtWork
    BY <1>4, Zenon DEF ExitWorker, FinishJob, AtWork, JobsIInv, JobsTypeOK, Absent, Idle, Running, Returned
  <2>2. queue' = queue /\ submitted' = submitted /\ names' = names /\ job' = job
    BY <1>4, Zenon DEF ExitWorker, FinishJob
  <2> QED
    BY <2>1, <2>2 DEF Abstract!vars, LostNames, Queued, InProgress
<1>5. ASSUME NEW w \in Worker, ForgetName(w) \/ PanicJob(w)
      PROVE  /\ job[w] \in Job /\ job[w] \in InProgress
             /\ InProgress' = InProgress \ {job[w]}
             /\ \A k \in active : k # job[w] /\ JobName[k] = JobName[job[w]]
                                  => JobName[k] = NoName
             /\ Queued' = Queued /\ job[w] \notin Queued
  <2>1. /\ w \in AtWork /\ AtWork' = AtWork \ {w} /\ Queued' = Queued
        /\ \A v \in AtWork' : job'[v] = job[v]
        /\ job[w] \in Job
    BY <1>5, LeaveFacts, Zenon
  <2>2. InProgress' = InProgress \ {job[w]}
    BY <2>1 DEF InProgress, OnePlace
  <2>3. job[w] \notin Queued
    BY <2>1, Zenon DEF Queued, OnePlace
  <2>4. ASSUME NEW k \in active, k # job[w], JobName[k] = JobName[job[w]]
        PROVE  JobName[k] = NoName
    BY <2>1, <2>4 DEF JobsIInv, NoDuplicateJobs, Queued, InProgress
  <2> QED
    BY <2>1, <2>2, <2>3, <2>4, Zenon DEF InProgress
<1>6. ASSUME NEW w \in Worker, ForgetName(w) PROVE Abstract!End(job[w])
  <2>1. names' = names \ {JobName[job[w]]} /\ NoName \notin names
        /\ queue' = queue /\ submitted' = submitted
    BY <1>6, Zenon DEF ForgetName, JobsIInv, JobsTypeOK
  <2>2. LostNames' = LostNames
    BY <1>5, <1>6, <2>1, Zenon DEF LostNames
  <2> QED
    BY <1>5, <1>6, <2>1, <2>2, Zenon DEF Abstract!End
<1>7. ASSUME NEW w \in Worker, PanicJob(w) PROVE Abstract!Panic(job[w])
  <2>1. names' = names /\ queue' = queue /\ submitted' = submitted /\ NoName \notin names
    BY <1>7, Zenon DEF PanicJob, JobsIInv, JobsTypeOK
  <2>2. JobName[job[w]] # NoName => JobName[job[w]] \in names
    BY <1>5, <1>7, ActiveNames, Zenon
  <2>3. LostNames' = LostNames \cup ({JobName[job[w]]} \ {NoName})
    BY <1>5, <1>7, <2>1, <2>2, Zenon DEF LostNames
  <2> QED
    BY <1>5, <1>7, <2>1, <2>3, Zenon DEF Abstract!Panic
<1>8. CASE UNCHANGED jobVars
  BY <1>8 DEF jobVars, Abstract!vars, LostNames, Queued, InProgress, AtWork
<1>9. \A w \in Worker : ForgetName(w) \/ PanicJob(w) => job[w] \in Job
  BY <1>5, Zenon
<1> QED
  BY <1>1, <1>2, <1>3, <1>4, <1>6, <1>7, <1>8, <1>9, Zenon
     DEF JobsNext, WorkerStep, Done, Abstract!Next

\* Submit's promise, for any number of workers: a call is refused exactly when
\* a job of its name is enqueued, running or lost to a panic; accepted jobs
\* start in order, at most maxConcurrentJobs at a time.
THEOREM JobManagerRefinesJobQueue == JobsSpec => ImplementsJobQueue
<1>1. JobsInit => OnePlace
  BY EmptySeq DEF JobsInit, OnePlace, AtWork, Absent, Running, Returned
<1>2. JobsInit => Abstract!Init
  BY Zenon DEF JobsInit, Abstract!Init, LostNames, InProgress, AtWork, Absent, Running, Returned
<1> QED
  BY <1>1, <1>2, OnePlaceStep, RefinementStep, JobManagerInvariant, PTL
     DEF JobsSpec, ImplementsJobQueue, Abstract!Spec
=============================================================================
