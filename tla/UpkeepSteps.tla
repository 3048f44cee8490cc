---------------------------- MODULE UpkeepSteps ----------------------------
(***************************************************************************)
(* What a step of an instance or of a task does in Upkeep, and the part of *)
(* its invariant that is about the instances: the lock, the numbers, what  *)
(* is being saved, and the pair of key and certificate.                    *)
(*                                                                         *)
(* The instances take the steps of Issuance, so its lemmas about a step of *)
(* an instance are used here.  Its invariant is not: it says that what has *)
(* been saved stays, and the tasks delete without the lock.  What remains  *)
(* is that under the lock a certificate and a key can only disappear.      *)
(***************************************************************************)
EXTENDS Upkeep, IssuanceProof

-----------------------------------------------------------------------------
(* The invariant, and what the types need of the tasks *)

\* A roll back may have failed.
RollbackFailed == {"store", "delete"} \subseteq faults

\* No instance is in the middle of a save, or rolls one back.
NobodyBetween ==
    \A p \in Instance : pc[p] # "undo" /\ (pc[p] = "save" => step[p] = 1)

\* What the operation of an instance can be where it is.
AtPlace(p) ==
    /\ pc[p] \in {"lock", "attempt", "issue", "save", "undo", "failed", "unlock"} =>
          op[p] \in {"obtain", "renew"}
    /\ pc[p] \in {"lock", "check", "attempt", "issue", "loaded"} => step[p] = 1
    /\ pc[p] = "check" => op[p] = "obtain"
    /\ pc[p] = "idle" => op[p] = "none"
    /\ pc[p] = "undo" => "store" \in faults /\ step[p] < 3
    /\ moving[p] # "no" => pc[p] = "check"
    /\ forced[p] => op[p] \in {"obtain", "renew", "cache", "reload"}

\* The instances between acquireLock and releaseLock have the lock.
HasLock == \A p \in Instance : Locked(p) => lock = p

\* No key comes from the future.
KeysNotAhead ==
    /\ store[1].key <= issued
    /\ \A p \in Instance :
          got[p].key <= issued /\ best[p].key <= issued /\ new[p].files.key <= issued
    /\ \A n \in 1 .. issued : keyOf[n] <= issued /\ (~reuse => keyOf[n] = n)

\* What is being saved, or rolled back, is the last certificate.
Saving ==
    \A p \in Instance :
        /\ pc[p] \in {"save", "undo"} => issued # 0
        /\ pc[p] = "save" =>
              new[p].files.cert = issued /\ (step[p] <= 2 => store[1].cert # issued)
        /\ (pc[p] = "undo" /\ step[p] = 1 /\ "delete" \notin faults) => store[1].cert # issued

\* What is stored of the resource that is being saved, and what is stored
\* otherwise, is no mixed pair.
Unmixed ==
    RollbackFailed \/
        /\ NobodyBetween => store[1].key = 0 \/ store[1].cert = 0 \/ KeyPair(store[1])
        /\ \A p \in Instance : pc[p] = "save" =>
              /\ step[p] > 1 => store[1].key \in {0, new[p].files.key}
              /\ step[p] > 2 => store[1].cert \in {0, new[p].files.cert}

\* The files are deleted one after the other, when there is something to delete.
FilesInTurn ==
    /\ task["revoke"] = "new" => seen["revoke"] = 0
    /\ task["revoke"] \in {"new", "ask"} => file["revoke"] = 1
    /\ task["revoke"] \in {"folder", "done"} => file["revoke"] = 4
    /\ task["clean"] \in {"new", "load"} => file["clean"] = 1
    /\ \A t \in {"revoke", "clean"} : task[t] = "delete" => file[t] <= 3

\* What RevokeCert has deleted is gone, and nobody is about to store it.
Revoking ==
    task["revoke"] \in {"ask", "delete", "folder", "done"} =>
        LET c == seen["revoke"] IN
        /\ c \in 1 .. issued
        /\ \A p \in Instance : (pc[p] = "save" /\ step[p] <= 2) => new[p].files.cert # c
        /\ file["revoke"] > 1 => store[1].cert # c
        /\ file["revoke"] > 2 => (store[1].key # keyOf[c] \/ reuse)

\* The certificate that updateARI works for.
Updating == task["ari"] \in {"fetched", "cached", "write"} => seen["ari"] # 0 /\ owner \in Instance

-----------------------------------------------------------------------------
(* One issuer *)

\* The values that the arithmetic of the following lemmas needs.
LEMMA Values ==
    ASSUME TypeOK
    PROVE  /\ IssuerIndex = {1} /\ 0 \in Version
           /\ issued \in Nat /\ due \in Nat /\ due <= issued /\ issued <= MaxIssued
           /\ store[1] \in Resource
           /\ store[1].key \in Nat /\ store[1].cert \in Nat /\ store[1].meta \in Nat
           /\ \A p \in Instance :
                 /\ at[p] = 1 /\ new[p].issuer = 1 /\ step[p] \in 1 .. 3
                 /\ got[p] \in Resource /\ best[p] \in Resource /\ new[p].files \in Resource
                 /\ got[p].key \in Nat /\ got[p].cert \in Nat
                 /\ best[p].key \in Nat /\ best[p].cert \in Nat /\ best[p].meta \in Nat
                 /\ new[p].files.key \in Nat /\ new[p].files.cert \in Nat /\ mem[p] \in Nat
           /\ \A n \in 1 .. issued : keyOf[n] \in Nat
  <1>1. IssuerIndex = {1}
    BY OneIssuerAssumption DEF IssuerIndex
  <1>2. issued \in Nat /\ due \in Nat /\ due <= issued /\ issued <= MaxIssued
    BY TypesSplit, BoundAssumption DEF SharedOK, Version
  <1>3. ASSUME NEW r \in Resource PROVE r.key \in Nat /\ r.cert \in Nat /\ r.meta \in Nat
    BY BoundAssumption DEF Resource, Version
  <1>4. store[1] \in Resource
    BY <1>1, TypesSplit, Zenon DEF StoreOK
  <1>5. ASSUME NEW p \in Instance
        PROVE  /\ at[p] = 1 /\ new[p].issuer = 1 /\ step[p] \in 1 .. 3
               /\ got[p] \in Resource /\ best[p] \in Resource /\ new[p].files \in Resource
               /\ mem[p] \in Nat
    BY <1>1, Numbers, Zenon
  <1>6. ASSUME NEW n \in 1 .. issued PROVE keyOf[n] \in Nat
    BY <1>2, TypesSplit, BoundAssumption DEF SharedOK, Version
  <1> QED BY <1>1, <1>2, <1>3, <1>4, <1>5, <1>6, NothingIsResource, Zenon

\* The key that can be reused is the one that is stored.
LEMMA OneIssuer ==
    ASSUME TypeOK
    PROVE  /\ StorageHasCertResourcesAnyIssuer <=> Complete(store[1])
           /\ ReusableKey = store[1].key
  <1>1. IssuerIndex = {1}
    BY Values, Zenon
  <1>2. StorageHasCertResourcesAnyIssuer <=> Complete(store[1])
    BY <1>1, Zenon DEF StorageHasCertResourcesAnyIssuer, StorageHasCertResources
  <1>3. CASE store[1].key = 0
    <2>1. ~\E i \in IssuerIndex : store[i].key # 0
      BY <1>1, <1>3, Zenon
    <2> QED BY <1>2, <1>3, <2>1, Zenon DEF ReusableKey
  <1>4. CASE store[1].key # 0
    <2>1. \E i \in IssuerIndex : store[i].key # 0
      BY <1>1, <1>4, Zenon
    <2>2. \E i \in IssuerIndex : store[i].key # 0 /\ \A j \in 1 .. i - 1 : store[j].key = 0
      BY <1>1, <1>4
    <2>3. PICK i \in IssuerIndex : ReusableKey = store[i].key
      BY <2>1, <2>2, Zenon DEF ReusableKey
    <2> QED BY <1>1, <1>2, <2>3, Zenon
  <1> QED BY <1>3, <1>4, Zenon

\* The file that storeTx stores.
LEMMA StoreOne ==
    ASSUME TypeOK, NEW p \in Instance, StoreFile(p)
    PROVE  /\ store'[1].key = IF step[p] = 1 THEN new[p].files.key ELSE store[1].key
           /\ store'[1].cert = IF step[p] = 2 THEN new[p].files.cert ELSE store[1].cert
           /\ store'[1].meta = IF step[p] = 3 THEN new[p].files.meta ELSE store[1].meta
  <1>1. new[p].issuer = 1
    BY Values, Zenon
  <1> QED BY <1>1, StoreEffect

\* The file that storeTx deletes, or does not.
LEMMA UndoOne ==
    ASSUME TypeOK, NEW p \in Instance, UndoStore(p)
    PROVE  \/ /\ faults' = faults
              /\ store'[1].key = IF step[p] = 1 THEN 0 ELSE store[1].key
              /\ store'[1].cert = IF step[p] = 2 THEN 0 ELSE store[1].cert
              /\ store'[1].meta = IF step[p] = 3 THEN 0 ELSE store[1].meta
           \/ store' = store /\ "delete" \notin faults /\ faults' = faults \cup {"delete"}
  <1>1. /\ new[p].issuer = 1 /\ step[p] \in 1 .. 3 /\ store[1] \in Resource /\ 0 \in Version
        /\ store \in [IssuerIndex -> Resource] /\ 1 \in IssuerIndex
    BY Values, TypesSplit, NothingIsResource, Zenon DEF StoreOK
  <1> DEFINE r == [store[1] EXCEPT ![Files[step[p]]] = 0]
  <1>2. CASE store' = [store EXCEPT ![new[p].issuer][Files[step[p]]] = 0] /\ UNCHANGED faults
    <2>1. store'[1] = r
      BY <1>1, <1>2, Zenon
    <2>2. /\ r.key = IF step[p] = 1 THEN 0 ELSE store[1].key
          /\ r.cert = IF step[p] = 2 THEN 0 ELSE store[1].cert
          /\ r.meta = IF step[p] = 3 THEN 0 ELSE store[1].meta
      BY <1>1, FileSet
    <2> HIDE DEF r
    <2> QED BY <1>2, <2>1, <2>2, Zenon
  <1>3. CASE Fault("delete") /\ UNCHANGED store
    BY <1>3, Zenon DEF Fault
  <1> QED BY <1>2, <1>3, Zenon DEF UndoStore

\* The certificate that the issuer issues.
LEMMA IssueOne ==
    ASSUME TypeOK, NEW p \in Instance, Issues(p)
    PROVE  /\ issued' = issued + 1 /\ issued' <= MaxIssued
           /\ new'[p].files.cert = issued' /\ new'[p].files.meta = issued'
           /\ new'[p].files.key = IF reuse /\ best[p].key # 0 THEN best[p].key ELSE issued'
           /\ keyOf'[issued'] = new'[p].files.key
           /\ UNCHANGED <<store, reuse, due, faults>>
  <1>1. PICK i \in IssuerIndex : Issue(p, i)
    BY Zenon DEF Issues
  <1> DEFINE k == IF reuse /\ best[p].key # 0 THEN best[p].key ELSE issued'
             n == [issuer |-> i, files |-> [key |-> k, cert |-> issued', meta |-> issued']]
  <1>2. issued' = issued + 1 /\ issued' \in 1 .. MaxIssued
    BY <1>1, IssueEffect, Zenon
  <1>3. new' = [new EXCEPT ![p] = n] /\ keyOf' = [keyOf EXCEPT ![issued'] = k]
    BY <1>1, Zenon DEF Issue
  <1>4. new'[p] = n /\ keyOf'[issued'] = k
    BY <1>2, <1>3, TypesSplit, Zenon DEF NewOK, SharedOK
  <1>5. n.files.cert = issued' /\ n.files.meta = issued' /\ n.files.key = k
    BY Zenon
  <1>6. UNCHANGED <<store, reuse, due, faults>>
    BY <1>1, Zenon DEF Issue, storage
  <1> HIDE DEF n, k
  <1>7. new'[p].files.key = k /\ new'[p].files.cert = issued' /\ new'[p].files.meta = issued'
    BY <1>4, <1>5, Zenon
  <1> QED BY <1>2, <1>4, <1>6, <1>7 DEF k

-----------------------------------------------------------------------------
(* The steps *)

\* A step of instance p with its operation ...
Moves(p) == Unforced(p) \/ ForceRenew(p) \/ ForcedRenewLoaded(p) \/ ForcedFails(p)

\* ... that changes neither storage nor what has been issued.
Calm(p) ==
    Moves(p) /\ ~(Unforced(p) /\ (StoreFile(p) \/ UndoStore(p) \/ Issues(p)))

\* Time passes, or nothing happens.
TimePasses ==
    \/ Expire
    \/ BecomeDue /\ Unmoved /\ UNCHANGED <<revoked, leaked, expired>>
    \/ UNCHANGED upkeepVars

\* A step that leaves the operations alone.
Aside ==
    \/ TaskStep
    \/ \E p \in Instance : CopyKey(p) \/ CopyKeyFails(p) \/ DeleteKey(p) \/ UpdateARI(p)
    \/ TimePasses

\* There are no others.
LEMMA UpkeepCases ==
    [UpkeepNext]_upkeepVars => (\E p \in Instance : Moves(p)) \/ Aside
  BY Zenon DEF UpkeepNext, Moves, Aside, TimePasses

\* A step of Issuance.
LEMMA UnforcedNext ==
    ASSUME NEW p \in Instance, Unforced(p)
    PROVE  Step(p) /\ [Next]_vars /\ (InstanceStep(p) \/ GiveUp(p) \/ StoreFails(p))
  <1>1. InstanceStep(p) \/ GiveUp(p) \/ StoreFails(p)
    BY Zenon DEF Unforced
  <1>2. Step(p) /\ Next
    BY <1>1, Zenon DEF Step, Next
  <1> QED BY <1>1, <1>2, Zenon

\* What a step of an instance leaves to the tasks, and the faults it meets.
LEMMA MovesShared ==
    ASSUME NEW p \in Instance, Moves(p)
    PROVE  /\ UNCHANGED <<task, file, seen, owner, revoked, leaked, expired, reuse, moved>>
           /\ faults \subseteq faults' /\ faults' \subseteq faults \cup {"store", "delete"}
  <1>1. UNCHANGED <<task, file, seen, owner, revoked, leaked, expired, moved>>
    BY Zenon DEF Moves, Unforced, ForceRenew, ForcedRenewLoaded, ForcedFails, Others, tasks, force
  <1>2. CASE ForceRenew(p) \/ ForcedRenewLoaded(p) \/ ForcedFails(p)
    BY <1>1, <1>2, Zenon DEF ForceRenew, ForcedRenewLoaded, ForcedFails, ca
  <1>3. CASE Unforced(p)
    <2>1. InstanceStep(p) \/ GiveUp(p) \/ StoreFails(p)
      BY <1>3, UnforcedNext, Zenon
    <2>2. UNCHANGED reuse
      BY <2>1, Zenon
         DEF InstanceStep, OperationStep, Issues, Issue, Manage, Maintain, ReadFile, ManageLoaded,
             MaintainLoaded, CacheLoaded, ObtainCheck, AcquireLock, AttemptObtain, AttemptRenew,
             RenewLoaded, IssueFails, StoreFile, StoreFails, UndoStore, Retry, GiveUp, Unlock, ca
    <2>3. CASE UndoStore(p) \/ StoreFails(p)
      BY <1>1, <2>2, <2>3, Zenon DEF UndoStore, StoreFails, Fault
    <2>4. CASE ~(UndoStore(p) \/ StoreFails(p))
      <3>1. UNCHANGED faults
        BY <2>1, <2>4, Zenon
           DEF InstanceStep, OperationStep, Issues, Issue, Manage, Maintain, ReadFile, ManageLoaded,
               MaintainLoaded, CacheLoaded, ObtainCheck, AcquireLock, AttemptObtain, AttemptRenew,
               RenewLoaded, IssueFails, StoreFile, Retry, GiveUp, Unlock
      <3> QED BY <1>1, <2>2, <3>1, Zenon
    <2> QED BY <2>3, <2>4, Zenon
  <1> QED BY <1>2, <1>3, Zenon DEF Moves

\* A step of an instance leaves the others.
LEMMA MovesSame ==
    ASSUME TypeOK, UpkeepTypeOK, NEW p \in Instance, NEW q \in Instance \ {p}, Moves(p)
    PROVE  Same(q) /\ forced'[q] = forced[q] /\ moving'[q] = moving[q]
  <1> USE TypesSplit
  <1>1. forced'[q] = forced[q] /\ moving'[q] = moving[q]
    BY Zenon DEF Moves, Unforced, ForceRenew, ForcedRenewLoaded, ForcedFails, MoveGoto, force,
                 UpkeepTypeOK
  <1>2. CASE Unforced(p)
    BY <1>1, <1>2, UnforcedNext, OthersSame, Zenon
  <1>3. CASE ForceRenew(p)
    BY <1>1, <1>3, EndSame, Zenon DEF ForceRenew, cached, Same
  <1>4. CASE ForcedRenewLoaded(p)
    BY <1>1, <1>4, Zenon DEF ForcedRenewLoaded, local, cached, Same, Goto, PlacesOK
  <1>5. CASE ForcedFails(p)
    <2>1. mem'[q] = mem[q] /\ End(p)
      BY <1>5, Zenon DEF ForcedFails, CachedOK
    <2> QED BY <1>1, <2>1, EndSame, Zenon DEF Same
  <1> QED BY <1>2, <1>3, <1>4, <1>5, Zenon DEF Moves

\* A step that neither stores, deletes nor issues.
LEMMA CalmShared ==
    ASSUME NEW p \in Instance, Calm(p)
    PROVE  UNCHANGED <<store, issued, keyOf, due>>
  <1>1. CASE Unforced(p)
    BY <1>1, UnforcedNext, StepCases, QuietShared, Zenon DEF Calm
  <1>2. CASE ForceRenew(p) \/ ForcedRenewLoaded(p) \/ ForcedFails(p)
    BY <1>2, Zenon DEF ForceRenew, ForcedRenewLoaded, ForcedFails, storage, ca
  <1> QED BY <1>1, <1>2, Zenon DEF Calm, Moves

\* A step of a task, of time or of moveCompromisedPrivateKey leaves the
\* instances.
LEMMA AsideSame ==
    ASSUME Aside
    PROVE  /\ UNCHANGED <<lock, issued, keyOf, reuse, pc, op, at, step, got, best, new, ok, mem, forced>>
           /\ \A q \in Instance : Same(q)
           /\ faults \subseteq faults' /\ faults' \subseteq faults \cup {"store", "delete"}
  <1>1. UNCHANGED <<lock, issued, keyOf, reuse, pc, op, at, step, got, best, new, ok, mem, forced>>
    <2>1. CASE TaskStep
      BY <2>1, Zenon
         DEF TaskStep, RevokeLoad, RevokeAsk, RevokeDelete, RevokeDeleteFails, RevokeFolder, CleanStart,
             CleanLoad, CleanDelete, CleanDeleteFails, CleanList, CleanFolder, UpdateCachedARI,
             LoadMeta, StoreMeta, CARevokes, DeleteFile, OnlyTask, storage, ca, local, cached, force
    <2>2. ASSUME NEW p \in Instance, CopyKey(p) \/ CopyKeyFails(p) \/ DeleteKey(p) \/ UpdateARI(p)
          PROVE  UNCHANGED <<lock, issued, keyOf, reuse, pc, op, at, step, got, best, new, ok, mem, forced>>
      BY <2>2, Zenon DEF CopyKey, CopyKeyFails, DeleteKey, UpdateARI, storage, ca, local, cached, force,
                         vars
    <2>3. CASE TimePasses
      BY <2>3, Zenon DEF TimePasses, Expire, BecomeDue, Unmoved, upkeepVars, vars, storage, ca, local, cached, force
    <2> QED BY <2>1, <2>2, <2>3, Zenon DEF Aside
  <1>2. faults \subseteq faults' /\ faults' \subseteq faults \cup {"store", "delete"}
    <2>1. CASE TaskStep
      BY <2>1, Zenon
         DEF TaskStep, RevokeLoad, RevokeAsk, RevokeDelete, RevokeDeleteFails, RevokeFolder, CleanStart,
             CleanLoad, CleanDelete, CleanDeleteFails, CleanList, CleanFolder, UpdateCachedARI,
             LoadMeta, StoreMeta, CARevokes, DeleteFile, Fault
    <2>2. ASSUME NEW p \in Instance, CopyKey(p) \/ CopyKeyFails(p) \/ DeleteKey(p) \/ UpdateARI(p)
          PROVE  faults \subseteq faults' /\ faults' \subseteq faults \cup {"store", "delete"}
      BY <2>2, Zenon DEF CopyKey, CopyKeyFails, DeleteKey, UpdateARI, Fault, vars
    <2>3. CASE TimePasses
      BY <2>3, Zenon DEF TimePasses, Expire, BecomeDue, upkeepVars, vars
    <2> QED BY <2>1, <2>2, <2>3, Zenon DEF Aside
  <1> QED BY <1>1, <1>2, Zenon DEF Same

\* Which of them change storage.
LEMMA AsideCases ==
    ASSUME Aside
    PROVE  \/ UNCHANGED store
           \/ \E t \in {"revoke", "clean"}, next \in {"folder", "list"} : DeleteFile(t, next)
           \/ RevokeFolder \/ CleanFolder \/ StoreMeta
           \/ \E p \in Instance : DeleteKey(p)
  <1>1. CASE TaskStep
    BY <1>1, Zenon
       DEF TaskStep, RevokeLoad, RevokeAsk, RevokeDelete, RevokeDeleteFails, CleanStart,
           CleanLoad, CleanDelete, CleanDeleteFails, CleanList, UpdateCachedARI,
           LoadMeta, CARevokes, OnlyTask, storage
  <1>2. ASSUME NEW p \in Instance, CopyKey(p) \/ CopyKeyFails(p) \/ UpdateARI(p)
        PROVE  UNCHANGED store
    BY <1>2, Zenon DEF CopyKey, CopyKeyFails, UpdateARI, storage, vars
  <1>3. CASE TimePasses
    BY <1>3, Zenon DEF TimePasses, Expire, BecomeDue, upkeepVars, vars, storage
  <1> QED BY <1>1, <1>2, <1>3, Zenon DEF Aside

\* A task deletes a file, ...
LEMMA DeleteFileOne ==
    ASSUME TypeOK, UpkeepTypeOK, NEW t \in {"revoke", "clean"}, NEW next, DeleteFile(t, next)
    PROVE  /\ store' \in [IssuerIndex -> Resource]
           /\ store'[1].key = IF file[t] = 2 THEN 0 ELSE store[1].key
           /\ store'[1].cert = IF file[t] = 1 THEN 0 ELSE store[1].cert
           /\ store'[1].meta = IF file[t] = 3 THEN 0 ELSE store[1].meta
           /\ file[t] \in 1 .. 3 /\ file'[t] = file[t] + 1
           /\ \A u \in Task \ {t} : file'[u] = file[u]
  <1>1. t \in Task /\ file \in [Task -> 1 .. 4] /\ file[t] \in 1 .. 3
    BY DEF UpkeepTypeOK, DeleteFile, Task
  <1>2. store \in [IssuerIndex -> Resource] /\ IssuerIndex = {1} /\ 0 \in Version /\ store[1] \in Resource
    BY Values, TypesSplit, Zenon DEF StoreOK
  <1> DEFINE f == DeleteOrder[file[t]]
             r == [store[1] EXCEPT ![f] = 0]
  <1>3. store' = [store EXCEPT ![1] = r] /\ file' = [file EXCEPT ![t] = @ + 1]
    BY Zenon DEF DeleteFile
  <1>4. f = IF file[t] = 1 THEN "cert" ELSE IF file[t] = 2 THEN "key" ELSE "meta"
    BY <1>1 DEF DeleteOrder
  <1> HIDE DEF f
  <1>5. /\ r \in Resource
        /\ r.key = IF file[t] = 2 THEN 0 ELSE store[1].key
        /\ r.cert = IF file[t] = 1 THEN 0 ELSE store[1].cert
        /\ r.meta = IF file[t] = 3 THEN 0 ELSE store[1].meta
    <2>1. CASE file[t] = 1
      BY <1>2, <1>4, <2>1 DEF Resource
    <2>2. CASE file[t] = 2
      BY <1>2, <1>4, <2>2 DEF Resource
    <2>3. CASE file[t] = 3
      BY <1>2, <1>4, <2>3 DEF Resource
    <2> QED BY <1>1, <2>1, <2>2, <2>3
  <1> HIDE DEF r
  <1>6. store'[1] = r /\ store' \in [IssuerIndex -> Resource]
    BY <1>2, <1>3, <1>5, Zenon
  <1>7. file'[t] = file[t] + 1 /\ \A u \in Task \ {t} : file'[u] = file[u]
    BY <1>1, <1>3, Zenon
  <1> QED BY <1>1, <1>5, <1>6, <1>7, Zenon

\* ... or the folder, ...
LEMMA DeleteFolderOne ==
    ASSUME TypeOK, RevokeFolder \/ CleanFolder
    PROVE  store' \in [IssuerIndex -> Resource] /\ store'[1] = NoResource
  <1>1. store' = [store EXCEPT ![1] = NoResource]
    BY Zenon DEF RevokeFolder, CleanFolder, DeleteFolder
  <1>2. store \in [IssuerIndex -> Resource] /\ IssuerIndex = {1}
    BY Values, TypesSplit, Zenon DEF StoreOK
  <1> QED BY <1>1, <1>2, NothingIsResource, Zenon

\* ... or stores the metadata, ...
LEMMA StoreMetaOne ==
    ASSUME TypeOK, UpkeepTypeOK, StoreMeta
    PROVE  /\ store' \in [IssuerIndex -> Resource]
           /\ store'[1].key = store[1].key /\ store'[1].cert = store[1].cert
           /\ store'[1].meta = seen["ari"]
  <1> DEFINE r == [store[1] EXCEPT !.meta = seen["ari"]]
  <1>1. store' = [store EXCEPT ![1] = r]
    BY Zenon DEF StoreMeta
  <1>2. store \in [IssuerIndex -> Resource] /\ IssuerIndex = {1} /\ store[1] \in Resource
    BY Values, TypesSplit, Zenon DEF StoreOK
  <1>3. seen["ari"] \in Version
    BY Zenon DEF UpkeepTypeOK, Task
  <1>4. /\ r \in Resource
        /\ r.key = store[1].key /\ r.cert = store[1].cert /\ r.meta = seen["ari"]
    BY <1>2, <1>3, Zenon DEF Resource
  <1> HIDE DEF r
  <1> QED BY <1>1, <1>2, <1>4, Zenon

\* ... and an instance deletes the key it has copied.
LEMMA DeleteKeyOne ==
    ASSUME TypeOK, NEW p \in Instance, DeleteKey(p)
    PROVE  /\ store' \in [IssuerIndex -> Resource]
           /\ store'[1].key \in {0, store[1].key} /\ store'[1].cert = store[1].cert
           /\ store'[1].meta = store[1].meta
           /\ store' = store \/ store'[1].key = 0
  <1> DEFINE r == [store[1] EXCEPT !.key = 0]
  <1>1. store' = [store EXCEPT ![1] = r] \/ store' = store
    BY Zenon DEF DeleteKey
  <1>2. store \in [IssuerIndex -> Resource] /\ IssuerIndex = {1} /\ 0 \in Version /\ store[1] \in Resource
    BY Values, TypesSplit, Zenon DEF StoreOK
  <1>3. /\ r \in Resource
        /\ r.key = 0 /\ r.cert = store[1].cert /\ r.meta = store[1].meta
    BY <1>2, Zenon DEF Resource
  <1> HIDE DEF r
  <1> QED BY <1>1, <1>2, <1>3, Zenon

\* Without the lock, keys and certificates are only deleted.
LEMMA AsideStore ==
    ASSUME TypeOK, UpkeepTypeOK, Aside
    PROVE  /\ store' \in [IssuerIndex -> Resource]
           /\ store'[1].key \in {0, store[1].key} /\ store'[1].cert \in {0, store[1].cert}
           /\ store'[1].meta \in {0, store[1].meta} \/ StoreMeta
  <1>1. CASE UNCHANGED store
    BY <1>1, TypesSplit, Zenon DEF StoreOK
  <1>2. ASSUME NEW t \in {"revoke", "clean"}, NEW next, DeleteFile(t, next)
        PROVE  /\ store' \in [IssuerIndex -> Resource]
               /\ store'[1].key \in {0, store[1].key} /\ store'[1].cert \in {0, store[1].cert}
               /\ store'[1].meta \in {0, store[1].meta}
    BY <1>2, DeleteFileOne, Zenon
  <1>3. CASE RevokeFolder \/ CleanFolder
    BY <1>3, DeleteFolderOne, NothingIsResource, Zenon
  <1>4. CASE StoreMeta
    BY <1>4, StoreMetaOne, Zenon
  <1>5. ASSUME NEW p \in Instance, DeleteKey(p)
        PROVE  /\ store' \in [IssuerIndex -> Resource]
               /\ store'[1].key \in {0, store[1].key} /\ store'[1].cert \in {0, store[1].cert}
               /\ store'[1].meta \in {0, store[1].meta}
    BY <1>5, DeleteKeyOne, Zenon
  <1> QED BY <1>1, <1>2, <1>3, <1>4, <1>5, AsideCases, Zenon

-----------------------------------------------------------------------------
(* Types *)

\* An instance issues at most one certificate in a step.
LEMMA MovesIssued ==
    ASSUME TypeOK, NEW p \in Instance, Moves(p)
    PROVE  issued' \in {issued, issued + 1} /\ issued <= issued' /\ due' = due
  <1>1. CASE Calm(p)
    BY <1>1, CalmShared, Values
  <1>2. CASE Issues(p)
    BY <1>2, IssueOne, Values
  <1>3. CASE StoreFile(p) \/ UndoStore(p)
    <2>1. UNCHANGED <<issued, due>>
      BY <1>3, Zenon DEF StoreFile, UndoStore, ca
    <2> QED BY <2>1, Values
  <1> QED BY <1>1, <1>2, <1>3, Zenon DEF Calm

\* The steps of an instance leave the types.
LEMMA MovesTypes ==
    ASSUME TypeOK, UpkeepTypeOK, NEW p \in Instance, Moves(p)
    PROVE  TypeOK' /\ UpkeepTypeOK'
  <1> USE TypesSplit
  <1>1. TypeOK'
    <2>1. CASE Unforced(p)
      BY <2>1, UnforcedNext, TypeStep, Zenon
    <2>2. CASE ForceRenew(p)
      <3>1. StoreOK' /\ SharedOK' /\ CachedOK'
        BY <2>2, UnchangedTypes, Zenon DEF ForceRenew, storage
      <3> QED BY <2>2, <3>1, GoOnTypes, Zenon DEF ForceRenew
    <2>3. CASE ForcedRenewLoaded(p)
      <3>1. StoreOK' /\ SharedOK' /\ CachedOK' /\ StepsOK' /\ ReadOK' /\ NewOK'
        BY <2>3, UnchangedTypes, Zenon DEF ForcedRenewLoaded, storage, local
      <3> QED BY <2>3, <3>1, GotoTypes, Zenon DEF ForcedRenewLoaded
    <2>4. CASE ForcedFails(p)
      <3>1. StoreOK'
        BY <2>4, UnchangedTypes, Zenon DEF ForcedFails
      <3>2. SharedOK'
        BY <2>4, Zenon DEF ForcedFails, SharedOK, ca
      <3>3. CachedOK'
        BY <2>4, NothingIsResource, Zenon DEF ForcedFails, CachedOK
      <3> QED BY <2>4, <3>1, <3>2, <3>3, GoOnTypes, Zenon DEF ForcedFails
    <2> QED BY <2>1, <2>2, <2>3, <2>4, Zenon DEF Moves
  <1>2. UNCHANGED <<task, file, seen, owner, revoked, leaked, expired, moved, due>> /\ 1 .. issued \subseteq 1 .. issued'
    BY MovesShared, MovesIssued, Values
  <1>3. forced' \in [Instance -> BOOLEAN] /\ moving' \in [Instance -> {"no", "copy", "delete"}]
    BY Zenon DEF Moves, Unforced, ForceRenew, ForcedRenewLoaded, ForcedFails, MoveGoto, force,
                 UpkeepTypeOK
  <1> QED BY <1>1, <1>2, <1>3, Zenon DEF UpkeepTypeOK

\* What else the other steps do to the variables of Issuance.
LEMMA AsideMore ==
    ASSUME TypeOK, Aside
    PROVE  /\ due' \in {due, issued}
           /\ faults' = faults \/ Fault("store") \/ Fault("delete")
           /\ ari' \in [Instance -> Version] \/ UpdateCachedARI
  <1>0. ari \in [Instance -> Version] /\ store[1].meta \in Version
    BY TypesSplit, Values, Zenon DEF CachedOK, Resource
  <1>1. CASE TaskStep
    BY <1>0, <1>1, Zenon
       DEF TaskStep, RevokeLoad, RevokeAsk, RevokeDelete, RevokeDeleteFails, RevokeFolder, CleanStart,
           CleanLoad, CleanDelete, CleanDeleteFails, CleanList, CleanFolder, UpdateCachedARI,
           LoadMeta, StoreMeta, CARevokes, DeleteFile, OnlyTask, cached
  <1>2. ASSUME NEW p \in Instance, CopyKey(p) \/ CopyKeyFails(p) \/ DeleteKey(p)
        PROVE  due' = due /\ ari' = ari /\ (faults' = faults \/ Fault("store") \/ Fault("delete"))
    BY <1>2, Zenon DEF CopyKey, CopyKeyFails, DeleteKey, cached, vars
  <1>3. ASSUME NEW p \in Instance, UpdateARI(p)
        PROVE  due' = due /\ faults' = faults /\ ari' \in [Instance -> Version]
    BY <1>0, <1>3, Zenon DEF UpdateARI
  <1>4. CASE TimePasses
    BY <1>0, <1>4, Zenon DEF TimePasses, Expire, BecomeDue, upkeepVars, vars, cached
  <1> QED BY <1>0, <1>1, <1>2, <1>3, <1>4, Zenon DEF Aside

\* They leave the types of these.
LEMMA AsideTypes ==
    ASSUME TypeOK, UpkeepTypeOK, Updating, Aside
    PROVE  TypeOK'
  <1> USE TypesSplit
  <1>1. StoreOK'
    BY AsideStore, Zenon DEF StoreOK
  <1>2. PlacesOK' /\ StepsOK' /\ ReadOK' /\ NewOK'
    BY AsideSame, Zenon DEF PlacesOK, StepsOK, ReadOK, NewOK
  <1>3. SharedOK'
    <2>1. faults' \subseteq FaultKind
      <3>1. faults \subseteq FaultKind /\ (faults' = faults \/ Fault("store") \/ Fault("delete"))
        BY AsideMore, Zenon DEF SharedOK
      <3> QED BY <3>1, Zenon DEF Fault
    <2>2. due' \in 0 .. issued
      BY AsideMore, Values
    <2> QED BY <2>1, <2>2, AsideSame, Zenon DEF SharedOK
  <1>4. CachedOK'
    <2>1. CASE UpdateCachedARI
      BY <2>1, Zenon DEF UpdateCachedARI, CachedOK, Updating
    <2>2. CASE ari' \in [Instance -> Version]
      BY <2>2, AsideSame, Zenon DEF CachedOK
    <2> QED BY <2>1, <2>2, AsideMore, Zenon
  <1> QED BY <1>1, <1>2, <1>3, <1>4, Zenon

\* Where a task goes on to.
LEMMA TaskGotoTypes ==
    ASSUME UpkeepTypeOK, NEW t \in Task,
           \/ UNCHANGED task
           \/ \E l \in {"load", "ask", "fetched", "cached", "write", "delete", "list", "folder", "over",
                        "done"} : TaskGoto(t, l)
    PROVE  task' \in [Task -> {"new", "load", "ask", "fetched", "cached", "write", "delete", "list",
                               "folder", "over", "done"}]
  BY Zenon DEF UpkeepTypeOK, TaskGoto

\* The tasks, time and moveCompromisedPrivateKey leave the types of Upkeep.
LEMMA AsideUpkeepTypes ==
    ASSUME TypeOK, UpkeepTypeOK, FilesInTurn, Revoking, Aside
    PROVE  UpkeepTypeOK'
  <1>0. {"revoke", "clean", "ari", "ca"} = Task
    BY Zenon DEF Task
  <1>1. task' \in [Task -> {"new", "load", "ask", "fetched", "cached", "write", "delete", "list",
                            "folder", "over", "done"}]
    <2>1. CASE RevokeLoad \/ RevokeAsk \/ RevokeDelete \/ RevokeDeleteFails \/ RevokeFolder
      <3>1. \/ UNCHANGED task
            \/ \E l \in {"load", "ask", "fetched", "cached", "write", "delete", "list", "folder", "over",
                        "done"} : TaskGoto("revoke", l)
        BY <2>1, Zenon DEF RevokeLoad, RevokeAsk, RevokeDelete, RevokeDeleteFails, RevokeFolder, DeleteFile
      <3> QED BY <1>0, <3>1, TaskGotoTypes, Zenon
    <2>2. CASE CleanStart \/ CleanLoad \/ CleanDelete \/ CleanDeleteFails \/ CleanList \/ CleanFolder
      <3>1. \/ UNCHANGED task
            \/ \E l \in {"load", "ask", "fetched", "cached", "write", "delete", "list", "folder", "over",
                        "done"} : TaskGoto("clean", l)
        BY <2>2, Zenon DEF CleanStart, CleanLoad, CleanDelete, CleanDeleteFails, CleanList, CleanFolder,
                           DeleteFile
      <3> QED BY <1>0, <3>1, TaskGotoTypes, Zenon
    <2>3. ASSUME NEW p \in Instance, UpdateARI(p) \/ UpdateCachedARI \/ LoadMeta \/ StoreMeta
          PROVE  task' \in [Task -> {"new", "load", "ask", "fetched", "cached", "write", "delete", "list",
                                     "folder", "over", "done"}]
      <3>1. \/ UNCHANGED task
            \/ \E l \in {"load", "ask", "fetched", "cached", "write", "delete", "list", "folder", "over",
                        "done"} : TaskGoto("ari", l)
        BY <2>3, Zenon DEF UpdateARI, UpdateCachedARI, LoadMeta, StoreMeta
      <3> QED BY <1>0, <3>1, TaskGotoTypes, Zenon
    <2>4. CASE UpdateCachedARI \/ LoadMeta \/ StoreMeta \/ CARevokes
      <3>1. \E t \in {"ari", "ca"} :
               \E l \in {"load", "ask", "fetched", "cached", "write", "delete", "list", "folder", "over",
                         "done"} : TaskGoto(t, l)
        BY <2>4, Zenon DEF UpdateCachedARI, LoadMeta, StoreMeta, CARevokes
      <3> QED BY <1>0, <3>1, TaskGotoTypes, Zenon
    <2>5. CASE UNCHANGED task
      BY <2>5, Zenon DEF UpkeepTypeOK
    <2>6. ASSUME NEW p \in Instance, CopyKey(p) \/ CopyKeyFails(p) \/ DeleteKey(p)
          PROVE  UNCHANGED task
      BY <2>6, Zenon DEF CopyKey, CopyKeyFails, DeleteKey, Others, tasks
    <2>7. CASE TimePasses
      BY <2>5, <2>7, Zenon DEF TimePasses, Expire, Unmoved, tasks, upkeepVars
    <2> QED BY <2>1, <2>2, <2>3, <2>4, <2>5, <2>6, <2>7, Zenon DEF Aside, TaskStep
  <1>2. file' \in [Task -> 1 .. 4]
    <2>1. ASSUME NEW t \in {"revoke", "clean"}, file[t] <= 3, file' = [file EXCEPT ![t] = @ + 1]
          PROVE  file' \in [Task -> 1 .. 4]
      BY <1>0, <2>1 DEF UpkeepTypeOK
    <2>2. ASSUME NEW t \in {"revoke", "clean"}, NEW l, DeleteFile(t, l)
          PROVE  file' \in [Task -> 1 .. 4]
      BY <2>1, <2>2, Zenon DEF DeleteFile
    <2>3. CASE CleanDeleteFails
      BY <2>1, <2>3, Zenon DEF CleanDeleteFails, FilesInTurn
    <2>4. CASE TaskStep /\ ~RevokeDelete /\ ~CleanDelete /\ ~CleanDeleteFails
      BY <2>4, Zenon
         DEF TaskStep, RevokeLoad, RevokeAsk, RevokeDeleteFails, RevokeFolder, CleanStart,
             CleanLoad, CleanList, CleanFolder, UpdateCachedARI, LoadMeta, StoreMeta, CARevokes, OnlyTask,
             UpkeepTypeOK
    <2>5. ASSUME NEW p \in Instance, CopyKey(p) \/ CopyKeyFails(p) \/ DeleteKey(p) \/ UpdateARI(p)
          PROVE  UNCHANGED file
      BY <2>5, Zenon DEF CopyKey, CopyKeyFails, DeleteKey, UpdateARI, Others, tasks
    <2>6. CASE TimePasses
      BY <2>6, Zenon DEF TimePasses, Expire, Unmoved, tasks, upkeepVars, UpkeepTypeOK
    <2> QED BY <2>2, <2>3, <2>4, <2>5, <2>6, Zenon DEF Aside, RevokeDelete, CleanDelete, UpkeepTypeOK
  <1>3. seen' \in [Task -> Version] /\ owner' \in Instance \cup {NoInstance}
    <2>1. CASE RevokeLoad
      <3>1. store[1].cert \in Version
        BY Values, Zenon DEF Resource
      <3> QED BY <1>0, <2>1, <3>1, Zenon DEF RevokeLoad, OnlyTask, UpkeepTypeOK
    <2>2. ASSUME NEW p \in Instance, UpdateARI(p)
          PROVE  seen' \in [Task -> Version] /\ owner' \in Instance \cup {NoInstance}
      <3>1. mem[p] \in Version
        BY TypesSplit, Zenon DEF CachedOK
      <3> QED BY <2>2, <3>1, Zenon DEF UpdateARI, UpkeepTypeOK
    <2>3. CASE TaskStep /\ ~RevokeLoad
      BY <2>3, Zenon
         DEF TaskStep, RevokeAsk, RevokeDelete, RevokeDeleteFails, RevokeFolder, CleanStart,
             CleanLoad, CleanDelete, CleanDeleteFails, CleanList, CleanFolder, UpdateCachedARI,
             LoadMeta, StoreMeta, CARevokes, DeleteFile, OnlyTask, UpkeepTypeOK
    <2>4. ASSUME NEW p \in Instance, CopyKey(p) \/ CopyKeyFails(p) \/ DeleteKey(p)
          PROVE  UNCHANGED <<seen, owner>>
      BY <2>4, Zenon DEF CopyKey, CopyKeyFails, DeleteKey, Others, tasks
    <2>5. CASE TimePasses
      BY <2>5, Zenon DEF TimePasses, Expire, Unmoved, tasks, upkeepVars, UpkeepTypeOK
    <2> QED BY <2>1, <2>2, <2>3, <2>4, <2>5, Zenon DEF Aside, UpkeepTypeOK
  <1>4. revoked' \subseteq 1 .. issued' /\ leaked' \subseteq revoked'
    <2>0. issued' = issued
      BY AsideSame, Zenon
    <2>1. ASSUME NEW c \in 1 .. issued, RevokedByCA(c)
          PROVE  revoked' \subseteq 1 .. issued' /\ leaked' \subseteq revoked'
      BY <2>0, <2>1, Zenon DEF RevokedByCA, UpkeepTypeOK
    <2>2. CASE RevokeAsk
      <3>1. seen["revoke"] \in 1 .. issued
        BY <2>2, Zenon DEF RevokeAsk, Revoking
      <3> QED BY <2>0, <2>1, <2>2, <3>1, Zenon DEF RevokeAsk, UpkeepTypeOK
    <2>3. CASE CARevokes
      <3>1. issued \in 1 .. issued
        BY <2>3, Values DEF CARevokes
      <3> QED BY <2>1, <2>3, <3>1, Zenon DEF CARevokes
    <2>4. CASE TaskStep /\ ~RevokeAsk /\ ~CARevokes
      <3>1. UNCHANGED <<revoked, leaked>>
        BY <2>4, Zenon
           DEF TaskStep, RevokeLoad, RevokeDelete, RevokeDeleteFails, RevokeFolder, CleanStart,
               CleanLoad, CleanDelete, CleanDeleteFails, CleanList, CleanFolder, UpdateCachedARI,
               LoadMeta, StoreMeta, DeleteFile
      <3> QED BY <2>0, <3>1, Zenon DEF UpkeepTypeOK
    <2>5. ASSUME NEW p \in Instance, CopyKey(p) \/ CopyKeyFails(p) \/ DeleteKey(p) \/ UpdateARI(p)
          PROVE  UNCHANGED <<revoked, leaked>>
      BY <2>5, Zenon DEF CopyKey, CopyKeyFails, DeleteKey, UpdateARI, Others
    <2>6. CASE TimePasses
      BY <2>0, <2>6, Zenon DEF TimePasses, Expire, upkeepVars, UpkeepTypeOK
    <2> QED BY <2>0, <2>2, <2>3, <2>4, <2>5, <2>6, Zenon DEF Aside, UpkeepTypeOK
  <1>5. expired' \in 0 .. due'
    <2>1. expired \in 0 .. due /\ due \in Nat /\ issued \in Nat /\ due <= issued
      BY Values, Zenon DEF UpkeepTypeOK
    <2>2. CASE TaskStep
      <3>1. UNCHANGED <<expired, due>>
        BY <2>2, Zenon
           DEF TaskStep, RevokeLoad, RevokeAsk, RevokeDelete, RevokeDeleteFails, RevokeFolder, CleanStart,
               CleanLoad, CleanDelete, CleanDeleteFails, CleanList, CleanFolder, UpdateCachedARI,
               LoadMeta, StoreMeta, CARevokes, DeleteFile, OnlyTask
      <3> QED BY <2>1, <3>1, Zenon
    <2>3. ASSUME NEW p \in Instance, CopyKey(p) \/ CopyKeyFails(p) \/ DeleteKey(p) \/ UpdateARI(p)
          PROVE  UNCHANGED <<expired, due>>
      BY <2>3, Zenon DEF CopyKey, CopyKeyFails, DeleteKey, UpdateARI, Others, vars
    <2>4. CASE TimePasses
      BY <2>1, <2>4 DEF TimePasses, Expire, BecomeDue, upkeepVars, vars
    <2> QED BY <2>1, <2>2, <2>3, <2>4, Zenon DEF Aside
  <1>6. moved' \in Version
    <2>1. store[1].key \in Version /\ 0 \in Version /\ moved \in Version
      BY Values, Zenon DEF Resource, UpkeepTypeOK
    <2>2. CASE TaskStep
      BY <2>1, <2>2, Zenon
         DEF TaskStep, RevokeLoad, RevokeAsk, RevokeDelete, RevokeDeleteFails, RevokeFolder, CleanStart,
             CleanLoad, CleanDelete, CleanDeleteFails, CleanList, CleanFolder, UpdateCachedARI,
             LoadMeta, StoreMeta, CARevokes, DeleteFile, DeleteFolder, OnlyTask, force
    <2>3. ASSUME NEW p \in Instance, CopyKey(p) \/ CopyKeyFails(p) \/ DeleteKey(p) \/ UpdateARI(p)
          PROVE  moved' \in Version
      BY <2>1, <2>3, Zenon DEF CopyKey, CopyKeyFails, DeleteKey, UpdateARI, force
    <2>4. CASE TimePasses
      BY <2>1, <2>4, Zenon DEF TimePasses, Expire, Unmoved, force, upkeepVars
    <2> QED BY <2>2, <2>3, <2>4, Zenon DEF Aside
  <1>7. forced' \in [Instance -> BOOLEAN] /\ moving' \in [Instance -> {"no", "copy", "delete"}]
    <2>0. forced' \in [Instance -> BOOLEAN]
      BY AsideSame, Zenon DEF UpkeepTypeOK
    <2>1. CASE TaskStep
      BY <2>0, <2>1, Zenon
         DEF TaskStep, RevokeLoad, RevokeAsk, RevokeDelete, RevokeDeleteFails, RevokeFolder, CleanStart,
             CleanLoad, CleanDelete, CleanDeleteFails, CleanList, CleanFolder, UpdateCachedARI,
             LoadMeta, StoreMeta, CARevokes, DeleteFile, OnlyTask, force, UpkeepTypeOK
    <2>2. ASSUME NEW p \in Instance, CopyKey(p) \/ CopyKeyFails(p) \/ DeleteKey(p) \/ UpdateARI(p)
          PROVE  moving' \in [Instance -> {"no", "copy", "delete"}]
      BY <2>2, Zenon DEF CopyKey, CopyKeyFails, DeleteKey, UpdateARI, MoveGoto, force, UpkeepTypeOK
    <2>3. CASE TimePasses
      BY <2>0, <2>3, Zenon DEF TimePasses, Expire, Unmoved, force, upkeepVars, UpkeepTypeOK
    <2> QED BY <2>0, <2>1, <2>2, <2>3, Zenon DEF Aside
  <1> QED BY <1>1, <1>2, <1>3, <1>4, <1>5, <1>6, <1>7, Zenon DEF UpkeepTypeOK

-----------------------------------------------------------------------------
(* Where the instances are *)

\* A file that cannot be stored: there is nothing to roll back, or there is.
LEMMA StoreFailsOne ==
    ASSUME TypeOK, NEW p \in Instance, StoreFails(p)
    PROVE  /\ pc[p] = "save" /\ new' = new /\ op'[p] = op[p] /\ mem'[p] = mem[p]
           /\ "store" \notin faults /\ faults' = faults \cup {"store"}
           /\ \/ step[p] = 1 /\ pc'[p] = "failed"
              \/ step[p] \in {2, 3} /\ pc'[p] = "undo" /\ step'[p] = step[p] - 1
  <1>1. /\ pc[p] = "save" /\ new' = new /\ op'[p] = op[p] /\ mem'[p] = mem[p]
        /\ "store" \notin faults /\ faults' = faults \cup {"store"}
    BY Zenon DEF StoreFails, Fault, cached
  <1>2. \/ step[p] = 1 /\ pc'[p] = "failed"
        \/ step[p] \in {2, 3} /\ pc'[p] = "undo" /\ step'[p] = step[p] - 1
    BY TypesSplit DEF StoreFails, Goto, PlacesOK, StepsOK
  <1> QED BY <1>1, <1>2, Zenon

\* The roll back goes on to the file stored before, or ends.
LEMMA UndoStep ==
    ASSUME TypeOK, NEW p \in Instance, UndoStore(p)
    PROVE  /\ pc[p] = "undo" /\ UNCHANGED <<issued, keyOf, new>>
           /\ \/ step[p] = 1 /\ pc'[p] = "failed"
              \/ step[p] \in {2, 3} /\ pc'[p] = "undo" /\ step'[p] = step[p] - 1
  <1>1. pc[p] = "undo" /\ UNCHANGED <<issued, keyOf, new>>
    BY Zenon DEF UndoStore, ca
  <1>2. \/ step[p] = 1 /\ pc'[p] = "failed"
        \/ step[p] \in {2, 3} /\ pc'[p] = "undo" /\ step'[p] = step[p] - 1
    BY <1>1, TypesSplit DEF UndoStore, Goto, PlacesOK, StepsOK
  <1> QED BY <1>1, <1>2, Zenon

\* Whose operations forceRenew starts, goes on with and ends.
LEMMA ForcedCases ==
    ASSUME TypeOK, NEW p \in Instance
    PROVE  /\ ForceRenew(p) => /\ pc[p] = "idle" /\ mem'[p] = mem[p] /\ lock' = lock
                               /\ \/ Fresh(p, "obtain", "check")
                                  \/ /\ Fresh(p, "renew", "lock") /\ UNCHANGED moving
                                     /\ mem[p] \in revoked /\ mem[p] \notin leaked
           /\ ForcedRenewLoaded(p) => /\ forced[p] /\ pc[p] = "loaded" /\ op[p] = "renew"
                                      /\ pc'[p] = "failed" \/ (pc'[p] = "issue" /\ best[p].cert # 0)
                                      /\ UNCHANGED <<op, at, step, got, best, new, mem, lock, forced, moving>>
           /\ ForcedFails(p) => /\ pc[p] = "unlock" /\ Fresh(p, "none", "idle") /\ UNCHANGED moving
                                /\ mem'[p] = 0 /\ lock' = NoInstance
  <1> USE TypesSplit
  <1>1. ForceRenew(p) => /\ pc[p] = "idle" /\ mem'[p] = mem[p] /\ lock' = lock
                         /\ \/ Fresh(p, "obtain", "check")
                            \/ /\ Fresh(p, "renew", "lock") /\ UNCHANGED moving
                               /\ mem[p] \in revoked /\ mem[p] \notin leaked
    BY GoOnFresh, Zenon DEF ForceRenew, cached, storage
  <1>2. ForcedRenewLoaded(p) => /\ forced[p] /\ pc[p] = "loaded" /\ op[p] = "renew"
                                /\ pc'[p] = "failed" \/ (pc'[p] = "issue" /\ best[p].cert # 0)
                                /\ UNCHANGED <<op, at, step, got, best, new, mem, lock, forced, moving>>
    BY Zenon DEF ForcedRenewLoaded, Goto, PlacesOK, local, cached, storage, force
  <1>3. ForcedFails(p) => /\ pc[p] = "unlock" /\ Fresh(p, "none", "idle") /\ UNCHANGED moving
                          /\ mem'[p] = 0 /\ lock' = NoInstance
    BY EndFresh, Zenon DEF ForcedFails, CachedOK
  <1> QED BY <1>1, <1>2, <1>3, Zenon

\* Where a step that neither stores, deletes nor issues leads from and to.
LEMMA CalmPlaces ==
    ASSUME TypeOK, NEW p \in Instance, Calm(p)
    PROVE  /\ pc'[p] # "save" /\ pc[p] # "undo"
           /\ (pc[p] = "save" \/ pc'[p] = "undo") => StoreFails(p)
           /\ pc'[p] = "issue" => AttemptObtain(p) \/ RenewLoaded(p) \/ ForcedRenewLoaded(p)
           /\ (op'[p] = "renew" /\ pc'[p] \in {"read", "loaded"}) => AttemptRenew(p) \/ ReadFile(p)
  <1>1. CASE ForceRenew(p) \/ ForcedRenewLoaded(p) \/ ForcedFails(p)
    BY <1>1, ForcedCases, Zenon DEF Fresh
  <1>2. CASE Unforced(p)
    <2>1. CASE StoreFails(p)
      BY <2>1, StoreFailsOne, Zenon
    <2>2. CASE \/ Manage(p) \/ Maintain(p) \/ MaintainLoaded(p) \/ ManageLoaded(p) \/ CacheLoaded(p)
               \/ Unlock(p) \/ ObtainCheck(p) \/ AttemptRenew(p) \/ Retry(p)
      <3>1. pc[p] # "undo" /\ pc[p] # "save"
        BY <2>2, Zenon DEF Manage, Maintain, MaintainLoaded, ManageLoaded, CacheLoaded, Unlock, ObtainCheck,
                           AttemptRenew, Retry
      <3> QED BY <2>2, <3>1, FreshCases, Zenon DEF Fresh
    <2>3. CASE AcquireLock(p) \/ AttemptObtain(p) \/ RenewLoaded(p) \/ IssueFails(p) \/ GiveUp(p)
      BY <2>3, WithinCases, Zenon
    <2>4. CASE ReadFile(p)
      BY <2>4, ReadSame, Zenon
    <2> QED BY <1>2, <2>1, <2>2, <2>3, <2>4, UnforcedNext, Zenon DEF Calm, InstanceStep, OperationStep
  <1> QED BY <1>1, <1>2, Zenon DEF Calm, Moves

\* Only moveCompromisedPrivateKey goes on by itself.
LEMMA AsideMoving ==
    ASSUME UpkeepTypeOK, Aside, NEW q \in Instance, moving'[q] # "no"
    PROVE  moving[q] # "no"
  <1>1. CASE TaskStep
    BY <1>1, Zenon
       DEF TaskStep, RevokeLoad, RevokeAsk, RevokeDelete, RevokeDeleteFails, RevokeFolder, CleanStart,
           CleanLoad, CleanDelete, CleanDeleteFails, CleanList, CleanFolder, UpdateCachedARI,
           LoadMeta, StoreMeta, CARevokes, DeleteFile, OnlyTask, force
  <1>2. ASSUME NEW p \in Instance, CopyKey(p) \/ CopyKeyFails(p) \/ DeleteKey(p) \/ UpdateARI(p)
        PROVE  moving[q] # "no"
    <2>1. \/ UNCHANGED moving
          \/ moving[p] # "no" /\ \E l : moving' = [moving EXCEPT ![p] = l]
      BY <1>2, Zenon DEF CopyKey, CopyKeyFails, DeleteKey, UpdateARI, MoveGoto, force
    <2> QED BY <2>1, Zenon DEF UpkeepTypeOK
  <1>3. CASE TimePasses
    BY <1>3, Zenon DEF TimePasses, Expire, Unmoved, force, upkeepVars
  <1> QED BY <1>1, <1>2, <1>3, Zenon DEF Aside

\* Every step leaves each instance at a place of its operation.
LEMMA AtPlaceStep ==
    ASSUME TypeOK, UpkeepTypeOK, \A q \in Instance : AtPlace(q), [UpkeepNext]_upkeepVars
    PROVE  \A q \in Instance : AtPlace(q)'
  <1> SUFFICES ASSUME NEW q \in Instance PROVE AtPlace(q)'
    BY Zenon
  <1>1. AtPlace(q) /\ faults \subseteq faults'
    BY UpkeepCases, MovesShared, AsideSame, Zenon
  <1>2. ASSUME NEW p \in Instance \ {q}, Moves(p) PROVE AtPlace(q)'
    <2>1. Same(q) /\ forced'[q] = forced[q] /\ moving'[q] = moving[q]
      BY <1>2, MovesSame, Zenon
    <2> QED BY <1>1, <2>1, Zenon DEF Same, AtPlace
  <1>3. CASE Aside
    <2>1. Same(q) /\ forced' = forced /\ (moving'[q] # "no" => moving[q] # "no")
      BY <1>3, AsideSame, AsideMoving, Zenon
    <2> QED BY <1>1, <2>1, Zenon DEF Same, AtPlace
  <1>4. CASE ForceRenew(q)
    BY <1>4, ForcedCases, Zenon DEF Fresh, AtPlace
  <1>5. CASE ForcedRenewLoaded(q)
    BY <1>1, <1>5, ForcedCases, Zenon DEF AtPlace
  <1>6. CASE ForcedFails(q)
    <2>1. forced'[q] = FALSE /\ moving'[q] = "no" /\ Fresh(q, "none", "idle")
      BY <1>1, <1>6, ForcedCases, Zenon DEF ForcedFails, UpkeepTypeOK, AtPlace
    <2> QED BY <2>1, Zenon DEF Fresh, AtPlace
  <1>7. CASE Unforced(q)
    <2>0. moving'[q] = "no" /\ (forced'[q] => forced[q] /\ pc'[q] # "idle")
      BY <1>7, Zenon DEF Unforced, UpkeepTypeOK
    <2>1. CASE \/ Manage(q) \/ Maintain(q) \/ MaintainLoaded(q) \/ ManageLoaded(q) \/ CacheLoaded(q)
               \/ Unlock(q) \/ ObtainCheck(q)
      <3>1. /\ Manage(q) \/ Maintain(q) => pc[q] = "idle"
            /\ MaintainLoaded(q) => op[q] = "maintain"
            /\ ManageLoaded(q) => op[q] = "manage"
            /\ ObtainCheck(q) => pc[q] = "check"
        BY Zenon DEF Manage, Maintain, MaintainLoaded, ManageLoaded, ObtainCheck
      <3> QED BY <1>1, <2>0, <2>1, <3>1, FreshCases, Zenon DEF Fresh, AtPlace
    <2>2. CASE AttemptRenew(q) \/ Retry(q)
      <3>1. pc[q] \in {"attempt", "failed"}
        BY <2>2, Zenon DEF AttemptRenew, Retry
      <3> QED BY <1>1, <2>0, <2>2, <3>1, FreshCases, Zenon DEF Fresh, AtPlace
    <2>3. CASE AcquireLock(q) \/ AttemptObtain(q) \/ RenewLoaded(q) \/ Issues(q) \/ IssueFails(q) \/ GiveUp(q)
      <3>1. RenewLoaded(q) => op[q] = "renew"
        BY Zenon DEF RenewLoaded
      <3> QED BY <1>1, <2>0, <2>3, <3>1, WithinCases, Zenon DEF AtPlace
    <2>4. CASE ReadFile(q)
      BY <1>1, <2>0, <2>4, ReadSame, Zenon DEF AtPlace
    <2>5. CASE StoreFile(q)
      BY <1>1, <2>0, <2>5, WithinCases, Zenon DEF AtPlace
    <2>6. CASE StoreFails(q)
      BY <1>1, <2>0, <2>6, StoreFailsOne DEF AtPlace
    <2>7. CASE UndoStore(q)
      <3>1. op'[q] = op[q]
        BY <2>7, WithinCases, Zenon
      <3> QED BY <1>1, <2>0, <2>7, <3>1, UndoStep DEF AtPlace
    <2> QED BY <1>7, <2>1, <2>2, <2>3, <2>4, <2>5, <2>6, <2>7, UnforcedNext, Zenon
            DEF InstanceStep, OperationStep
  <1> QED BY <1>2, <1>3, <1>4, <1>5, <1>6, <1>7, UpkeepCases, Zenon DEF Moves

-----------------------------------------------------------------------------
(* Nothing comes from the future *)

\* A step that is not one of Issuance brings nothing newer ...
LEMMA NotAheadUpkeep ==
    ASSUME TypeOK, UpkeepTypeOK, NotAhead, [UpkeepNext]_upkeepVars
    PROVE  NotAhead'
  <1>1. ASSUME NEW p \in Instance, Unforced(p) PROVE NotAhead'
    BY <1>1, UnforcedNext, NotAheadStep, Zenon
  <1>2. ASSUME NEW p \in Instance, ForceRenew(p) \/ ForcedRenewLoaded(p) \/ ForcedFails(p)
        PROVE  NotAhead'
    <2>1. UNCHANGED <<store, issued>>
      BY <1>2, Zenon DEF ForceRenew, ForcedRenewLoaded, ForcedFails, storage, ca
    <2>2. ASSUME NEW q \in Instance \ {p} PROVE Same(q)
      BY <1>2, MovesSame, Zenon DEF Moves
    <2>3. mem'[p] \in {0, mem[p]} /\ (UNCHANGED <<got, best, new>> \/ \E o, l : Fresh(p, o, l))
      BY <1>2, ForcedCases, Zenon
    <2>4. ASSUME NEW o, NEW l, Fresh(p, o, l)
          PROVE  got'[p].cert = 0 /\ best'[p].cert = 0 /\ new'[p].files.cert = 0
      BY <2>4, NothingIsResource DEF Fresh, NothingNew
    <2>5. issued \in Nat
      BY Values, Zenon
    <2>6. /\ got'[p].cert <= issued /\ best'[p].cert <= issued /\ mem'[p] <= issued
          /\ new'[p].files.cert <= issued
      BY <2>3, <2>4, <2>5 DEF NotAhead
    <2>7. ASSUME NEW q \in Instance \ {p}
          PROVE  /\ got'[q].cert <= issued /\ best'[q].cert <= issued /\ mem'[q] <= issued
                 /\ new'[q].files.cert <= issued
      BY <2>2, Zenon DEF NotAhead, Same
    <2> QED BY <2>1, <2>6, <2>7, Zenon DEF NotAhead
  <1>3. CASE Aside
    <2>1. issued' = issued /\ UNCHANGED <<got, best, new, mem>>
      BY <1>3, AsideSame, Zenon
    <2>2. ASSUME NEW i \in IssuerIndex PROVE store'[i].cert <= issued
      <3>1. i = 1 /\ store'[1].cert \in {0, store[1].cert} /\ issued \in Nat /\ store[1].cert <= issued
        BY <1>3, AsideStore, Values, Zenon DEF NotAhead
      <3> QED BY <3>1
    <2> QED BY <2>1, <2>2, Zenon DEF NotAhead
  <1> QED BY <1>1, <1>2, <1>3, UpkeepCases, Zenon DEF Moves

\* ... and what is being saved still belongs together.
LEMMA BelongsUpkeep ==
    ASSUME TypeOK, UpkeepTypeOK, NotAhead, Belongs, [UpkeepNext]_upkeepVars
    PROVE  Belongs'
  <1>1. ASSUME NEW p \in Instance, Unforced(p) PROVE Belongs'
    BY <1>1, UnforcedNext, BelongsStep, Zenon
  <1>2. ASSUME NEW p \in Instance, ForceRenew(p) \/ ForcedRenewLoaded(p) \/ ForcedFails(p)
        PROVE  Belongs'
    <2>1. UNCHANGED keyOf
      BY <1>2, Zenon DEF ForceRenew, ForcedRenewLoaded, ForcedFails, ca
    <2>2. ASSUME NEW q \in Instance \ {p} PROVE Same(q)
      BY <1>2, MovesSame, Zenon DEF Moves
    <2>3. pc'[p] # "save"
      BY <1>2, ForcedCases, Zenon DEF Fresh
    <2>4. ASSUME NEW q \in Instance, pc'[q] = "save" PROVE pc[q] = "save" /\ new'[q] = new[q]
      BY <2>2, <2>3, <2>4, Zenon DEF Same
    <2> QED BY <2>1, <2>4, Zenon DEF Belongs, KeyPair
  <1>3. CASE Aside
    BY <1>3, AsideSame, Zenon DEF Belongs, KeyPair
  <1> QED BY <1>1, <1>2, <1>3, UpkeepCases, Zenon DEF Moves

\* The keys of the certificates that have been issued do not change.
LEMMA KeyOfSame ==
    ASSUME TypeOK, [UpkeepNext]_upkeepVars, NEW n \in 1 .. issued
    PROVE  keyOf'[n] = keyOf[n]
  <1>1. ASSUME NEW p \in Instance, Unforced(p) PROVE keyOf'[n] = keyOf[n]
    BY <1>1, UnforcedNext, KeyOfKept, Zenon
  <1>2. ASSUME NEW p \in Instance, ForceRenew(p) \/ ForcedRenewLoaded(p) \/ ForcedFails(p)
        PROVE  keyOf'[n] = keyOf[n]
    BY <1>2, Zenon DEF ForceRenew, ForcedRenewLoaded, ForcedFails, ca
  <1> QED BY <1>1, <1>2, AsideSame, UpkeepCases, Zenon DEF Moves

\* What reading leaves in memory comes from storage.
LEMMA ReadKeys ==
    ASSUME TypeOK, NEW p \in Instance, ReadFile(p)
    PROVE  /\ got'[p].key \in {0, got[p].key, store[1].key}
           /\ best'[p].key \in {best[p].key, got[p].key}
  <1>0. at[p] = 1 /\ best[p] \in Resource /\ got \in [Instance -> Resource] /\ best \in [Instance -> Resource]
    BY Values, TypesSplit, Zenon DEF ReadOK
  <1>1. ASSUME NextIssuer(p) PROVE got'[p].key = 0
    BY <1>0, <1>1, NothingIsResource, Zenon DEF NextIssuer
  <1>2. CASE ReadNothing(p)
    BY <1>1, <1>2, Zenon DEF ReadNothing
  <1>3. CASE ReadMore(p)
    BY <1>0, <1>3, Zenon DEF ReadMore
  <1>4. ASSUME NEW r \in Resource, ReadAll(p, r)
        PROVE  got'[p].key = 0 /\ best'[p].key \in {best[p].key, got[p].key}
    <2>1. best'[p] = Newer(best[p], r) /\ r.key = got[p].key
      BY <1>0, <1>4, Zenon DEF ReadAll
    <2>2. Newer(best[p], r) = best[p] \/ Newer(best[p], r) = r
      BY <1>0, NewerResource, Zenon
    <2> QED BY <1>1, <1>4, <2>1, <2>2, Zenon DEF ReadAll
  <1> QED BY <1>2, <1>3, <1>4, ReadFileCases, TypesSplit, Zenon

\* An obtain has the key that is stored, if it is incomplete.
LEMMA AttemptOne ==
    ASSUME TypeOK, NEW p \in Instance, AttemptObtain(p)
    PROVE  /\ best'[p].key \in {best[p].key, store[1].key}
           /\ pc'[p] = "issue" => ~Complete(store[1]) /\ best'[p].key = store[1].key
  <1>1. best \in [Instance -> Resource] /\ best[p] \in Resource
    BY TypesSplit, Zenon DEF ReadOK
  <1>2. CASE StorageHasCertResourcesAnyIssuer
    BY <1>2, TypesSplit, Zenon DEF AttemptObtain, Goto, PlacesOK
  <1>3. CASE ~StorageHasCertResourcesAnyIssuer
    <2>1. best'[p] = [best[p] EXCEPT !.key = store[1].key]
      BY <1>1, <1>3, OneIssuer, Zenon DEF AttemptObtain
    <2>2. best'[p].key = store[1].key
      BY <1>1, <2>1, Zenon DEF Resource
    <2> QED BY <1>3, <2>2, OneIssuer, Zenon
  <1> QED BY <1>2, <1>3, Zenon

\* The keys an instance has are not from the future.
LEMMA KeysInMemory ==
    ASSUME TypeOK, UpkeepTypeOK, KeysNotAhead, NEW q \in Instance, Moves(q)
    PROVE  got'[q].key <= issued' /\ best'[q].key <= issued' /\ new'[q].files.key <= issued'
  <1>0. /\ issued \in Nat /\ issued' \in Nat /\ issued <= issued'
        /\ got[q].key \in Nat /\ best[q].key \in Nat /\ new[q].files.key \in Nat /\ store[1].key \in Nat
    BY MovesIssued, Values
  <1>1. got[q].key <= issued' /\ best[q].key <= issued' /\ new[q].files.key <= issued' /\ store[1].key <= issued'
    BY <1>0 DEF KeysNotAhead
  <1>2. ASSUME NEW o, NEW l, Fresh(q, o, l)
        PROVE  got'[q].key <= issued' /\ best'[q].key <= issued' /\ new'[q].files.key <= issued'
    <2>1. got'[q].key = 0 /\ best'[q].key = 0 /\ new'[q].files.key = 0
      BY <1>2, NothingIsResource DEF Fresh, NothingNew
    <2> QED BY <1>0, <2>1
  <1>3. CASE ForceRenew(q) \/ ForcedRenewLoaded(q) \/ ForcedFails(q)
    BY <1>1, <1>2, <1>3, ForcedCases, Zenon
  <1>4. CASE \/ Manage(q) \/ Maintain(q) \/ MaintainLoaded(q) \/ ManageLoaded(q) \/ CacheLoaded(q)
             \/ Unlock(q) \/ ObtainCheck(q) \/ AttemptRenew(q) \/ Retry(q)
    BY <1>1, <1>2, <1>4, FreshCases, Zenon
  <1>5. CASE \/ AcquireLock(q) \/ RenewLoaded(q) \/ IssueFails(q) \/ StoreFile(q) \/ StoreFails(q)
             \/ UndoStore(q) \/ GiveUp(q)
    BY <1>1, <1>5, WithinCases, Zenon
  <1>6. CASE AttemptObtain(q)
    BY <1>1, <1>6, AttemptOne, WithinCases, Zenon
  <1>7. CASE Issues(q)
    <2>1. UNCHANGED <<got, best>>
      BY <1>7, WithinCases, Zenon
    <2>2. new'[q].files.key \in {best[q].key, issued'}
      BY <1>7, IssueOne, Zenon
    <2> QED BY <1>0, <1>1, <2>1, <2>2
  <1>8. CASE ReadFile(q)
    <2>1. new' = new
      BY <1>8, ReadSame, Zenon
    <2> QED BY <1>0, <1>1, <1>8, <2>1, ReadKeys
  <1> QED BY <1>3, <1>4, <1>5, <1>6, <1>7, <1>8, UnforcedNext, Zenon DEF Moves, InstanceStep, OperationStep

\* Every step leaves the keys in the past.
LEMMA KeysNotAheadStep ==
    ASSUME TypeOK, UpkeepTypeOK, KeysNotAhead, [UpkeepNext]_upkeepVars
    PROVE  KeysNotAhead'
  <1>1. CASE Aside
    <2>1. UNCHANGED <<issued, keyOf, reuse, got, best, new>> /\ store'[1].key \in {0, store[1].key}
      BY <1>1, AsideSame, AsideStore, Zenon
    <2>2. store'[1].key <= issued
      BY <2>1, Values DEF KeysNotAhead
    <2> QED BY <2>1, <2>2, Zenon DEF KeysNotAhead
  <1>2. ASSUME NEW p \in Instance, Moves(p) PROVE KeysNotAhead'
    <2>0. issued \in Nat /\ issued' \in {issued, issued + 1} /\ reuse' = reuse
      BY <1>2, MovesIssued, MovesShared, Values, Zenon
    <2>1. store'[1].key <= issued'
      <3>1. CASE StoreFile(p)
        BY <1>2, <2>0, <3>1, StoreOne, Values DEF KeysNotAhead
      <3>2. CASE UndoStore(p)
        BY <1>2, <2>0, <3>2, UndoOne, Values DEF KeysNotAhead
      <3>3. CASE Calm(p) \/ Issues(p)
        <4>1. store' = store
          BY <3>3, CalmShared, IssueOne, Zenon
        <4> QED BY <2>0, <4>1, Values DEF KeysNotAhead
      <3> QED BY <1>2, <3>1, <3>2, <3>3, Zenon DEF Calm
    <2>2. ASSUME NEW q \in Instance
          PROVE  got'[q].key <= issued' /\ best'[q].key <= issued' /\ new'[q].files.key <= issued'
      <3>1. CASE q = p
        BY <1>2, <3>1, KeysInMemory, Zenon
      <3>2. CASE q # p
        <4>1. got'[q] = got[q] /\ best'[q] = best[q] /\ new'[q] = new[q]
          BY <1>2, <3>2, MovesSame, Zenon DEF Same
        <4> QED BY <2>0, <4>1, Values DEF KeysNotAhead
      <3> QED BY <3>1, <3>2, Zenon
    <2>3. ASSUME NEW n \in 1 .. issued' PROVE keyOf'[n] <= issued' /\ (~reuse => keyOf'[n] = n)
      <3>1. CASE n \in 1 .. issued
        BY <2>0, <3>1, KeyOfSame, Values DEF KeysNotAhead
      <3>2. CASE n \notin 1 .. issued
        <4>1. n = issued + 1 /\ issued' = issued + 1
          BY <2>0, <3>2
        <4>2. Issues(p)
          <5>1. ~Calm(p)
            BY <2>0, <4>1, CalmShared
          <5>2. ~StoreFile(p) /\ ~UndoStore(p)
            BY <2>0, <4>1, StoreStep, UndoStep
          <5> QED BY <1>2, <5>1, <5>2, Zenon DEF Calm
        <4>3. keyOf'[n] = IF reuse /\ best[p].key # 0 THEN best[p].key ELSE n
          BY <4>1, <4>2, IssueOne, Zenon
        <4> QED BY <2>0, <4>1, <4>3, Values DEF KeysNotAhead
      <3> QED BY <3>1, <3>2, Zenon
    <2> QED BY <2>0, <2>1, <2>2, <2>3, Zenon DEF KeysNotAhead
  <1> QED BY <1>1, <1>2, UpkeepCases, Zenon

-----------------------------------------------------------------------------
(* The lock *)

\* No step takes the lock of a live instance for stale.
LEMMA ReliableStep ==
    ASSUME LockReliable, [UpkeepNext]_upkeepVars
    PROVE  LockReliable'
  BY UpkeepCases, MovesShared, AsideSame, Zenon DEF LockReliable

\* Every step leaves the lock with who works under it.
LEMMA HasLockStep ==
    ASSUME TypeOK, UpkeepTypeOK, HasLock, [UpkeepNext]_upkeepVars
    PROVE  HasLock'
  <1> SUFFICES ASSUME NEW q \in Instance, Locked(q)' PROVE lock' = q
    BY Zenon DEF HasLock
  <1>1. CASE Aside
    <2>1. UNCHANGED <<lock, pc, op>>
      BY <1>1, AsideSame, Zenon
    <2>2. Locked(q)
      BY <2>1, Zenon DEF Locked
    <2> QED BY <2>1, <2>2, Zenon DEF HasLock
  <1>2. CASE Unforced(q)
    <2>1. Step(q)
      BY <1>2, UnforcedNext, Zenon
    <2>2. AcquireLock(q) \/ (Locked(q) /\ ~Unlock(q))
      BY <2>1, LockedSteps, Zenon
    <2> QED BY <2>1, <2>2, LockEffect, Zenon DEF HasLock, AcquireLock
  <1>3. CASE ForceRenew(q) \/ ForcedFails(q)
    BY <1>3, ForcedCases, Zenon DEF Fresh, Locked
  <1>4. CASE ForcedRenewLoaded(q)
    BY <1>4, ForcedCases, Zenon DEF HasLock, Locked
  <1>5. ASSUME NEW p \in Instance \ {q}, Moves(p) PROVE lock' = q
    <2>0. Locked(q)
      BY <1>5, MovesSame, Zenon DEF Same, Locked
    <2>1. lock = q /\ ~Locked(p)
      BY <2>0, Zenon DEF HasLock
    <2>2. CASE Unforced(p)
      <3>1. ~AcquireLock(p) /\ ~Unlock(p)
        BY <2>1, NoInstanceAssumption, Zenon DEF AcquireLock, Unlock, Locked
      <3> QED BY <2>1, <2>2, <3>1, UnforcedNext, LockEffect, Zenon
    <2>3. ~ForcedFails(p)
      BY <2>1, ForcedCases, Zenon DEF Locked
    <2>4. CASE ForceRenew(p) \/ ForcedRenewLoaded(p)
      BY <2>1, <2>4, ForcedCases, Zenon
    <2> QED BY <1>5, <2>2, <2>3, <2>4, Zenon DEF Moves
  <1>6. CASE Moves(q)
    BY <1>2, <1>3, <1>4, <1>6, Zenon DEF Moves
  <1> QED BY <1>1, <1>5, <1>6, UpkeepCases, Zenon

\* Who has the lock is alone in storing, rolling back and issuing.
LEMMA HolderAlone ==
    ASSUME HasLock, NEW q \in Instance, Locked(q), NEW p \in Instance \ {q}, Moves(p)
    PROVE  Calm(p)
  <1>1. ~Locked(p)
    BY Zenon DEF HasLock
  <1>2. ~Issues(p) /\ ~StoreFile(p) /\ ~UndoStore(p)
    BY <1>1, Zenon DEF Issues, Issue, StoreFile, UndoStore, Locked
  <1> QED BY <1>2, Zenon DEF Calm

-----------------------------------------------------------------------------
(* What is being saved *)

\* It is the last certificate, and not stored before its turn.
LEMMA SavingStep ==
    ASSUME TypeOK, UpkeepTypeOK, \A q \in Instance : AtPlace(q), NotAhead, HasLock, Saving,
           [UpkeepNext]_upkeepVars
    PROVE  Saving'
  <1> USE Values
  <1> SUFFICES ASSUME NEW q \in Instance, pc'[q] \in {"save", "undo"}
               PROVE  /\ issued' # 0
                      /\ pc'[q] = "save" =>
                            new'[q].files.cert = issued' /\ (step'[q] <= 2 => store'[1].cert # issued')
                      /\ (pc'[q] = "undo" /\ step'[q] = 1 /\ "delete" \notin faults') =>
                            store'[1].cert # issued'
    BY Zenon DEF Saving
  <1>0. AtPlace(q)
    BY Zenon
  <1>1. CASE Aside
    <2>1. /\ Same(q) /\ issued' = issued /\ faults \subseteq faults'
          /\ store'[1].cert \in {0, store[1].cert}
      BY <1>1, AsideSame, AsideStore, Zenon
    <2> QED BY <2>1, Zenon DEF Same, Saving
  <1>2. ASSUME NEW p \in Instance \ {q}, Moves(p)
        PROVE  Same(q) /\ UNCHANGED <<store, issued>> /\ faults \subseteq faults'
    <2>1. Same(q) /\ faults \subseteq faults'
      BY <1>2, MovesSame, MovesShared, Zenon
    <2>2. Locked(q)
      BY <2>1, Zenon DEF Same, Locked
    <2> QED BY <1>2, <2>1, <2>2, HolderAlone, CalmShared, Zenon
  <1>3. CASE Same(q) /\ UNCHANGED <<store, issued>> /\ faults \subseteq faults'
    BY <1>3, Zenon DEF Same, Saving
  <1>4. CASE Calm(q)
    <2>1. StoreFails(q) /\ UNCHANGED <<store, issued>>
      BY <1>4, CalmPlaces, CalmShared, Zenon
    <2> QED BY <2>1, StoreFailsOne DEF Saving
  <1>5. CASE Issues(q)
    <2>1. pc[q] = "issue" /\ step' = step /\ pc'[q] = "save"
      BY <1>5, WithinCases, Zenon
    <2>2. store[1].cert <= issued
      BY Zenon DEF NotAhead
    <2> QED BY <1>5, <2>1, <2>2, IssueOne
  <1>6. CASE StoreFile(q)
    BY <1>6, StoreStep, StoreOne DEF Saving
  <1>7. CASE UndoStore(q)
    BY <1>0, <1>7, UndoStep, UndoOne DEF Saving, AtPlace
  <1> QED BY <1>1, <1>2, <1>3, <1>4, <1>5, <1>6, <1>7, UpkeepCases, Zenon DEF Calm

-----------------------------------------------------------------------------
(* No mixed pair *)

\* While one instance works under the lock, no other one is saving.
LEMMA NoOtherSaves ==
    ASSUME HasLock, NEW p \in Instance, Locked(p), NEW q \in Instance \ {p}
    PROVE  ~Locked(q) /\ pc[q] \notin {"attempt", "issue", "save", "undo", "failed", "unlock"}
  BY Zenon DEF HasLock, Locked

\* No step that is calm ends a save or a roll back.
LEMMA CalmBetween ==
    ASSUME TypeOK, UpkeepTypeOK, NEW p \in Instance, Calm(p), NobodyBetween'
    PROVE  NobodyBetween
  <1> SUFFICES ASSUME NEW q \in Instance PROVE pc[q] # "undo" /\ (pc[q] = "save" => step[q] = 1)
    BY Zenon DEF NobodyBetween
  <1>1. CASE q # p
    <2>1. Same(q)
      BY <1>1, MovesSame, Zenon DEF Calm
    <2> QED BY <2>1, Zenon DEF Same, NobodyBetween
  <1>2. CASE q = p
    BY <1>2, CalmPlaces, StoreFailsOne, Zenon DEF NobodyBetween
  <1> QED BY <1>1, <1>2, Zenon

\* Whoever issues, nobody is in the middle of a save.
LEMMA IssueBetween ==
    ASSUME HasLock, NEW p \in Instance, pc[p] = "issue"
    PROVE  NobodyBetween /\ \A q \in Instance : pc[q] # "save"
  <1>1. Locked(p)
    BY Zenon DEF Locked
  <1> QED BY <1>1, NoOtherSaves, Zenon DEF NobodyBetween

\* Nothing that is stored, rolled back or deleted leaves a mixed pair.
LEMMA UnmixedStep ==
    ASSUME TypeOK, UpkeepTypeOK, \A q \in Instance : AtPlace(q), NotAhead, Belongs, HasLock, Saving,
           Unmixed, [UpkeepNext]_upkeepVars
    PROVE  Unmixed'
  <1> USE Values
  <1> DEFINE k == store[1].key
             c == store[1].cert
  <1> SUFFICES ASSUME ~RollbackFailed'
               PROVE  /\ NobodyBetween' => \/ store'[1].key = 0 \/ store'[1].cert = 0
                                           \/ store'[1].key = keyOf'[store'[1].cert]
                      /\ \A q \in Instance : pc'[q] = "save" =>
                            /\ step'[q] > 1 => store'[1].key \in {0, new'[q].files.key}
                            /\ step'[q] > 2 => store'[1].cert \in {0, new'[q].files.cert}
    BY Zenon DEF Unmixed, KeyPair
  <1>1. faults \subseteq faults'
    BY UpkeepCases, MovesShared, AsideSame, Zenon
  <1>2. /\ NobodyBetween => k = 0 \/ c = 0 \/ k = keyOf[c]
        /\ \A q \in Instance : pc[q] = "save" =>
              /\ step[q] > 1 => k \in {0, new[q].files.key}
              /\ step[q] > 2 => c \in {0, new[q].files.cert}
    BY <1>1, Zenon DEF Unmixed, KeyPair, RollbackFailed
  <1>3. c # 0 => keyOf'[c] = keyOf[c]
    <2>1. c # 0 => c \in 1 .. issued
      BY DEF NotAhead
    <2> QED BY <2>1, KeyOfSame, Zenon
  <1>4. CASE Aside
    <2>1. /\ UNCHANGED <<pc, step, new, keyOf>>
          /\ store'[1].key \in {0, k} /\ store'[1].cert \in {0, c}
      BY <1>4, AsideSame, AsideStore, Zenon
    <2>2. NobodyBetween' => NobodyBetween
      BY <2>1, Zenon DEF NobodyBetween
    <2> QED BY <1>2, <2>1, <2>2, Zenon
  <1>5. ASSUME NEW p \in Instance, Calm(p)
        PROVE  /\ NobodyBetween' => NobodyBetween
               /\ \A q \in Instance : pc'[q] = "save" => Same(q)
               /\ store' = store
    <2>1. NobodyBetween' => NobodyBetween
      BY <1>5, CalmBetween, Zenon
    <2>2. pc'[p] # "save" /\ \A q \in Instance \ {p} : Same(q)
      BY <1>5, CalmPlaces, MovesSame, Zenon DEF Calm
    <2> QED BY <1>5, <2>1, <2>2, CalmShared, Zenon
  <1>6. ASSUME NEW p \in Instance, Calm(p)
        PROVE  /\ NobodyBetween' => k = 0 \/ c = 0 \/ k = keyOf'[c]
               /\ \A q \in Instance : pc'[q] = "save" =>
                     /\ step'[q] > 1 => k \in {0, new'[q].files.key}
                     /\ step'[q] > 2 => c \in {0, new'[q].files.cert}
               /\ store' = store
    BY <1>2, <1>3, <1>5, <1>6, Zenon DEF Same
  <1>7. ASSUME NEW p \in Instance, Issues(p), Moves(p)
        PROVE  /\ k = 0 \/ c = 0 \/ k = keyOf'[c]
               /\ \A q \in Instance : pc'[q] = "save" => step'[q] = 1
               /\ store' = store
    <2>1. pc[p] = "issue" /\ step' = step
      BY <1>7, WithinCases, Zenon
    <2>2. NobodyBetween /\ \A q \in Instance : pc[q] # "save"
      BY <2>1, IssueBetween, Zenon
    <2>3. step[p] = 1 /\ \A q \in Instance \ {p} : Same(q)
      BY <1>7, <2>1, MovesSame, Zenon DEF AtPlace
    <2>4. store' = store
      BY <1>7, IssueOne, Zenon
    <2> QED BY <1>2, <1>3, <2>1, <2>2, <2>3, <2>4, Zenon DEF Same
  <1>8. ASSUME NEW p \in Instance, StoreFile(p) \/ UndoStore(p), Moves(p), NEW q \in Instance, pc'[q] = "save"
        PROVE  q = p /\ StoreFile(p)
    <2>1. Locked(p)
      BY <1>8, StoreStep, UndoStep, Zenon DEF Locked
    <2>2. q # p => Same(q) /\ pc[q] # "save"
      BY <1>8, <2>1, MovesSame, NoOtherSaves, Zenon
    <2> QED BY <1>8, <2>2, UndoStep, Zenon DEF Same
  <1>9. ASSUME NEW p \in Instance, StoreFile(p), Moves(p)
        PROVE  /\ NobodyBetween' => \/ store'[1].key = 0 \/ store'[1].cert = 0
                                    \/ store'[1].key = keyOf'[store'[1].cert]
               /\ pc'[p] = "save" =>
                     /\ step'[p] > 1 => store'[1].key \in {0, new'[p].files.key}
                     /\ step'[p] > 2 => store'[1].cert \in {0, new'[p].files.cert}
    <2>1. /\ pc[p] = "save" /\ keyOf' = keyOf /\ new' = new
          /\ \/ step[p] = 3 /\ pc'[p] = "unlock"
             \/ step[p] \in {1, 2} /\ pc'[p] = "save" /\ step'[p] = step[p] + 1
      BY <1>9, StoreStep, Zenon
    <2>2. new[p].files.key = keyOf[new[p].files.cert]
      BY <2>1, Zenon DEF Belongs, KeyPair
    <2>3. NobodyBetween' => step[p] = 3
      BY <2>1 DEF NobodyBetween
    <2> QED BY <1>2, <1>9, <2>1, <2>2, <2>3, StoreOne
  <1>10. ASSUME NEW p \in Instance, UndoStore(p), Moves(p), NobodyBetween'
         PROVE  store'[1].key = 0
    <2>1. step[p] = 1 /\ "store" \in faults
      BY <1>10, UndoStep, Zenon DEF NobodyBetween, AtPlace
    <2> QED BY <1>1, <1>10, <2>1, UndoOne, Zenon DEF RollbackFailed
  <1>11. ASSUME NEW p \in Instance, Moves(p)
         PROVE  Calm(p) \/ Issues(p) \/ StoreFile(p) \/ UndoStore(p)
    BY <1>11, Zenon DEF Calm
  <1>12. CASE \E p \in Instance : Moves(p) /\ Calm(p)
    BY <1>6, <1>12, Zenon
  <1>13. CASE \E p \in Instance : Moves(p) /\ Issues(p)
    BY <1>7, <1>13
  <1>14. CASE \E p \in Instance : Moves(p) /\ StoreFile(p)
    BY <1>8, <1>9, <1>14, Zenon
  <1>15. CASE \E p \in Instance : Moves(p) /\ UndoStore(p)
    <2> PICK p \in Instance : Moves(p) /\ UndoStore(p)
      BY <1>15, Zenon
    <2>1. ~StoreFile(p)
      BY UndoStep, StoreStep, Zenon
    <2> QED BY <1>8, <1>10, <2>1, Zenon
  <1> QED BY <1>4, <1>11, <1>12, <1>13, <1>14, <1>15, UpkeepCases, Zenon

-----------------------------------------------------------------------------
(* The steps of the tasks *)

\* The step is none of task t.
TaskSame(t) == task'[t] = task[t] /\ file'[t] = file[t] /\ seen'[t] = seen[t]

RevokeStep == RevokeLoad \/ RevokeAsk \/ RevokeDelete \/ RevokeDeleteFails \/ RevokeFolder

CleanStep == CleanStart \/ CleanLoad \/ CleanDelete \/ CleanDeleteFails \/ CleanList \/ CleanFolder

ARIStep == (\E p \in Instance : UpdateARI(p)) \/ UpdateCachedARI \/ LoadMeta \/ StoreMeta

\* Each task goes on by itself.
LEMMA TaskVars ==
    ASSUME UpkeepTypeOK, Aside
    PROVE  /\ RevokeStep \/ TaskSame("revoke")
           /\ CleanStep \/ TaskSame("clean")
           /\ ARIStep \/ (TaskSame("ari") /\ owner' = owner)
           /\ CARevokes \/ TaskSame("ca")
  <1>0. task \in [Task -> {"new", "load", "ask", "fetched", "cached", "write", "delete", "list",
                           "folder", "over", "done"}] /\ file \in [Task -> 1 .. 4] /\ seen \in [Task -> Version]
    BY Zenon DEF UpkeepTypeOK
  <1>1. ASSUME NEW t \in Task, NEW l, TaskGoto(t, l), NEW u \in Task, u # t
        PROVE  task'[u] = task[u]
    BY <1>0, <1>1, Zenon DEF TaskGoto
  <1>2. ASSUME NEW t \in Task, NEW l, DeleteFile(t, l), NEW u \in Task, u # t
        PROVE  TaskSame(u) /\ owner' = owner
    <2>1. task'[u] = task[u]
      BY <1>1, <1>2, Zenon DEF DeleteFile
    <2> QED BY <1>0, <1>2, <2>1, Zenon DEF DeleteFile, TaskSame
  <1>3. ASSUME RevokeStep, NEW u \in Task, u # "revoke"
        PROVE  TaskSame(u) /\ owner' = owner
    <2>0. "revoke" \in Task
      BY Zenon DEF Task
    <2>1. CASE RevokeDelete
      BY <1>2, <1>3, <2>0, <2>1, Zenon DEF RevokeDelete
    <2>2. CASE RevokeLoad
      BY <1>0, <1>1, <1>3, <2>0, <2>2, Zenon DEF RevokeLoad, OnlyTask, TaskSame
    <2>3. CASE RevokeAsk \/ RevokeDeleteFails \/ RevokeFolder
      BY <1>1, <1>3, <2>0, <2>3, Zenon DEF RevokeAsk, RevokeDeleteFails, RevokeFolder, OnlyTask, TaskSame
    <2> QED BY <1>3, <2>1, <2>2, <2>3, Zenon DEF RevokeStep
  <1>4. ASSUME CleanStep, NEW u \in Task, u # "clean"
        PROVE  TaskSame(u) /\ owner' = owner
    <2>0. "clean" \in Task
      BY Zenon DEF Task
    <2>1. CASE CleanDelete
      BY <1>2, <1>4, <2>0, <2>1, Zenon DEF CleanDelete
    <2>2. CASE CleanDeleteFails
      <3>1. task'[u] = task[u]
        BY <1>1, <1>4, <2>0, <2>2, Zenon DEF CleanDeleteFails
      <3> QED BY <1>0, <1>4, <2>2, <3>1, Zenon DEF CleanDeleteFails, TaskSame
    <2>3. CASE CleanStart \/ CleanLoad \/ CleanList \/ CleanFolder
      BY <1>1, <1>4, <2>0, <2>3, Zenon DEF CleanStart, CleanLoad, CleanList, CleanFolder, OnlyTask, TaskSame
    <2> QED BY <1>4, <2>1, <2>2, <2>3, Zenon DEF CleanStep
  <1>5. ASSUME ARIStep, NEW u \in Task, u # "ari"
        PROVE  TaskSame(u)
    <2>0. "ari" \in Task
      BY Zenon DEF Task
    <2>1. ASSUME NEW p \in Instance, UpdateARI(p)
          PROVE  TaskSame(u)
      <3>1. task'[u] = task[u]
        BY <1>1, <1>5, <2>0, <2>1, Zenon DEF UpdateARI
      <3> QED BY <1>0, <1>5, <2>1, <3>1, Zenon DEF UpdateARI, TaskSame
    <2>2. CASE UpdateCachedARI \/ LoadMeta \/ StoreMeta
      <3>1. task'[u] = task[u]
        BY <1>1, <1>5, <2>0, <2>2, Zenon DEF UpdateCachedARI, LoadMeta, StoreMeta
      <3> QED BY <2>2, <3>1, Zenon DEF UpdateCachedARI, LoadMeta, StoreMeta, OnlyTask, TaskSame
    <2> QED BY <1>5, <2>1, <2>2, Zenon DEF ARIStep
  <1>6. ASSUME CARevokes, NEW u \in Task, u # "ca"
        PROVE  TaskSame(u) /\ owner' = owner
    BY <1>1, <1>6, Zenon DEF CARevokes, OnlyTask, TaskSame, Task
  <1>7. ASSUME NEW u \in Task,
               TimePasses \/ \E p \in Instance : CopyKey(p) \/ CopyKeyFails(p) \/ DeleteKey(p)
        PROVE  TaskSame(u) /\ owner' = owner
    BY <1>7, Zenon DEF TimePasses, Expire, Unmoved, CopyKey, CopyKeyFails, DeleteKey, Others, tasks,
                       upkeepVars, TaskSame
  <1>8. "revoke" \in Task /\ "clean" \in Task /\ "ari" \in Task /\ "ca" \in Task
    BY Zenon DEF Task
  <1>9. \/ RevokeStep \/ CleanStep \/ ARIStep \/ CARevokes \/ TimePasses
        \/ \E p \in Instance : CopyKey(p) \/ CopyKeyFails(p) \/ DeleteKey(p)
    BY Zenon DEF Aside, TaskStep, RevokeStep, CleanStep, ARIStep
  <1> QED BY <1>3, <1>4, <1>5, <1>6, <1>7, <1>8, <1>9, Zenon

\* What RevokeCert does, ...
LEMMA RevokeEffect ==
    ASSUME TypeOK, UpkeepTypeOK, RevokeStep
    PROVE  \/ /\ RevokeLoad /\ task["revoke"] = "new" /\ UNCHANGED <<store, file>>
              /\ task'["revoke"] = "over" \/ (task'["revoke"] = "ask" /\ Complete(store[1]))
              /\ seen'["revoke"] = store[1].cert
           \/ /\ RevokeAsk /\ task["revoke"] = "ask" /\ task'["revoke"] \in {"delete", "over"}
              /\ UNCHANGED <<store, file, seen>>
           \/ /\ RevokeDelete /\ task["revoke"] = "delete" /\ seen' = seen
              /\ task'["revoke"] = IF file["revoke"] = 3 THEN "folder" ELSE "delete"
           \/ RevokeDeleteFails /\ task'["revoke"] = "over" /\ UNCHANGED <<store, file, seen>>
           \/ /\ RevokeFolder /\ task["revoke"] = "folder" /\ task'["revoke"] = "done"
              /\ UNCHANGED <<file, seen>>
  <1>0. "revoke" \in Task
    BY Zenon DEF Task
  <1>1. ASSUME NEW l, TaskGoto("revoke", l)
        PROVE  task'["revoke"] = l
    BY <1>0, <1>1, Zenon DEF TaskGoto, UpkeepTypeOK
  <1>2. CASE RevokeLoad
    BY <1>0, <1>1, <1>2, Zenon DEF RevokeLoad, OnlyTask, storage, UpkeepTypeOK
  <1>3. CASE RevokeAsk
    BY <1>1, <1>3, Zenon DEF RevokeAsk, OnlyTask, storage
  <1>4. CASE RevokeDelete
    BY <1>1, <1>4, Zenon DEF RevokeDelete, DeleteFile
  <1>5. CASE RevokeDeleteFails
    BY <1>1, <1>5, Zenon DEF RevokeDeleteFails, OnlyTask, storage
  <1>6. CASE RevokeFolder
    BY <1>1, <1>6, Zenon DEF RevokeFolder
  <1> QED BY <1>2, <1>3, <1>4, <1>5, <1>6, Zenon DEF RevokeStep

\* ... CleanStorage ...
LEMMA CleanEffect ==
    ASSUME TypeOK, UpkeepTypeOK, CleanStep
    PROVE  \/ CleanStart /\ task'["clean"] \in {"load", "list"} /\ file' = file /\ task["clean"] = "new"
           \/ CleanLoad /\ task'["clean"] \in {"over", "delete", "list"} /\ file' = file /\ task["clean"] = "load"
           \/ /\ CleanDelete \/ CleanDeleteFails
              /\ task["clean"] = "delete" /\ file'["clean"] = file["clean"] + 1
              /\ task'["clean"] = IF file["clean"] = 3 THEN "list" ELSE "delete"
           \/ CleanList /\ task'["clean"] \in {"folder", "over"} /\ file' = file /\ task["clean"] = "list"
           \/ CleanFolder /\ task'["clean"] = "over" /\ file' = file /\ task["clean"] = "folder"
  <1>0. "clean" \in Task
    BY Zenon DEF Task
  <1>1. ASSUME NEW l, TaskGoto("clean", l)
        PROVE  task'["clean"] = l
    BY <1>0, <1>1, Zenon DEF TaskGoto, UpkeepTypeOK
  <1>2. CASE CleanStart
    BY <1>1, <1>2, Zenon DEF CleanStart, OnlyTask
  <1>3. CASE CleanLoad
    BY <1>1, <1>3, Zenon DEF CleanLoad, OnlyTask
  <1>4. CASE CleanDelete
    BY <1>0, <1>1, <1>4, Zenon DEF CleanDelete, DeleteFile, UpkeepTypeOK
  <1>5. CASE CleanDeleteFails
    BY <1>0, <1>1, <1>5, Zenon DEF CleanDeleteFails, UpkeepTypeOK
  <1>6. CASE CleanList
    BY <1>1, <1>6, Zenon DEF CleanList, OnlyTask
  <1>7. CASE CleanFolder
    BY <1>1, <1>7, Zenon DEF CleanFolder
  <1> QED BY <1>2, <1>3, <1>4, <1>5, <1>6, <1>7, Zenon DEF CleanStep

\* ... and updateARI.
LEMMA ARIEffect ==
    ASSUME TypeOK, UpkeepTypeOK, ARIStep
    PROVE  \/ /\ task["ari"] = "new" /\ task'["ari"] \in {"over", "fetched"} /\ UNCHANGED store
              /\ seen'["ari"] # 0 /\ owner' \in Instance
           \/ /\ task["ari"] = "fetched" /\ task'["ari"] \in {"over", "cached"}
              /\ UNCHANGED <<store, seen, owner>>
           \/ /\ task["ari"] = "cached" /\ task'["ari"] \in {"over", "write"}
              /\ UNCHANGED <<store, seen, owner>>
           \/ StoreMeta /\ task["ari"] = "write" /\ task'["ari"] = "over" /\ UNCHANGED <<seen, owner>>
  <1>0. "ari" \in Task
    BY Zenon DEF Task
  <1>1. ASSUME NEW l, TaskGoto("ari", l)
        PROVE  task'["ari"] = l
    BY <1>0, <1>1, Zenon DEF TaskGoto, UpkeepTypeOK
  <1>2. ASSUME NEW p \in Instance, UpdateARI(p)
        PROVE  /\ task["ari"] = "new" /\ task'["ari"] \in {"over", "fetched"} /\ UNCHANGED store
               /\ seen'["ari"] # 0 /\ owner' \in Instance
    <2>1. task'["ari"] \in {"over", "fetched"}
      BY <1>1, <1>2, Zenon DEF UpdateARI
    <2>2. seen'["ari"] # 0
      BY <1>0, <1>2, Zenon DEF UpdateARI, UpkeepTypeOK
    <2> QED BY <1>2, <2>1, <2>2, Zenon DEF UpdateARI, storage
  <1>3. CASE UpdateCachedARI
    BY <1>1, <1>3, Zenon DEF UpdateCachedARI, storage
  <1>4. CASE LoadMeta
    BY <1>1, <1>4, Zenon DEF LoadMeta, OnlyTask, storage
  <1>5. CASE StoreMeta
    BY <1>1, <1>5, Zenon DEF StoreMeta
  <1> QED BY <1>2, <1>3, <1>4, <1>5, Zenon DEF ARIStep
=============================================================================
