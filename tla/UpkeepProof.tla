---------------------------- MODULE UpkeepProof ----------------------------
(***************************************************************************)
(* Proofs about Upkeep, for any set of instances, any number of            *)
(* certificates and faults, any choice of the tasks that run together, and *)
(* with and without the reuse of keys.                                     *)
(*                                                                         *)
(* To the invariant of the instances (UpkeepSteps) comes what relates them *)
(* to the tasks: what has been deleted, why an instance is about to issue, *)
(* and when a key is stored without the rest of its resource.              *)
(***************************************************************************)
EXTENDS UpkeepSteps

-----------------------------------------------------------------------------
(* The inductive invariant *)

\* updateARI has been at work, and is over.
Updated == task["ari"] = "over" /\ owner # NoInstance

\* The metadata of the last certificate is its own, unless a task has deleted
\* or rewritten it, or it is about to be stored or to be useless.
FreshMeta ==
    (store[1].key # 0 /\ store[1].cert = issued /\ issued # 0) =>
        \/ store[1].meta = issued
        \/ store[1].meta = 0 /\ \E t \in {"revoke", "clean"} : file[t] = 4
        \/ store[1].meta # 0 /\ Updated
        \/ \E p \in Instance : pc[p] = "save" /\ step[p] = 3
        \/ \E p \in Instance : pc[p] = "undo" /\ (step[p] = 2 \/ "delete" \in faults)

\* What a renewal has read under the lock.
ReadUnderLock(p) ==
    /\ pc[p] = "read" =>
          /\ best[p].cert = 0
          /\ step[p] = 3 => got[p].cert # 0 /\ store[1].cert \in {0, got[p].cert}
    /\ (best[p].cert # 0 /\ store[1].key # 0 /\ store[1].cert = issued) =>
          /\ best[p].cert = issued
          /\ \/ best[p].meta = issued
             \/ Updated /\ store[1].meta \in {0, best[p].meta}

\* Why an instance is about to issue.
Reason(p) ==
    /\ op[p] = "obtain" =>
          store[1].key = 0 \/ store[1].cert # issued \/ store[1].meta = 0 \/ MetaRestored
    /\ op[p] = "renew" =>
          best[p].cert # 0 /\ (forced[p] \/ NeedsRenewal(best[p].cert, best[p].meta))

Reasons ==
    \A p \in Instance :
        /\ (op[p] = "renew" /\ pc[p] \in {"read", "loaded", "issue"}) => ReadUnderLock(p)
        /\ pc[p] = "issue" => Reason(p)

\* Single files may have been left behind.
LeftBehind == SetToDelete \/ RollbackFailed

\* Otherwise a key is stored with the rest of its resource, and an obtain that
\* finds it incomplete finds no key.
KeyNotAlone ==
    LeftBehind \/
        /\ NobodyBetween => store[1].key = 0 \/ Complete(store[1])
        /\ \A p \in Instance :
              /\ (pc[p] = "save" /\ step[p] = 3 /\ store[1].key # 0) => store[1].cert # 0
              /\ (pc[p] = "issue" /\ op[p] = "obtain") => best[p].key = 0

\* A certificate is renewed by force if its key was not known for compromised,
\* and nobody revokes it again.
RenewedByForce ==
    /\ revoked # {} => task["ca"] # "new" \/ SetToDelete
    /\ \A p \in Instance : (forced[p] /\ op[p] = "renew") =>
          (mem[p] \in revoked /\ mem[p] \notin leaked) \/ SetToDelete

UpkeepIInv ==
    /\ TypeOK /\ UpkeepTypeOK /\ LockReliable
    /\ \A p \in Instance : AtPlace(p)
    /\ NotAhead /\ KeysNotAhead /\ Belongs /\ HasLock /\ Saving
    /\ Unmixed /\ FilesInTurn /\ Revoking /\ Updating /\ FreshMeta /\ Reasons /\ KeyNotAlone /\ RenewedByForce

-----------------------------------------------------------------------------
(* The tasks *)

\* Every step leaves the order of the files ...
LEMMA FilesInTurnStep ==
    ASSUME TypeOK, UpkeepTypeOK, FilesInTurn, [UpkeepNext]_upkeepVars
    PROVE  FilesInTurn'
  <1>0. file["revoke"] \in 1 .. 4 /\ file["clean"] \in 1 .. 4
    BY Zenon DEF UpkeepTypeOK, Task
  <1>1. CASE \E p \in Instance : Moves(p)
    BY <1>1, MovesShared, Zenon DEF FilesInTurn
  <1>2. CASE Aside
    <2>1. /\ task'["revoke"] = "new" => seen'["revoke"] = 0
          /\ task'["revoke"] \in {"new", "ask"} => file'["revoke"] = 1
          /\ task'["revoke"] \in {"folder", "done"} => file'["revoke"] = 4
          /\ task'["revoke"] = "delete" => file'["revoke"] <= 3
      <3>1. CASE TaskSame("revoke")
        BY <3>1, Zenon DEF TaskSame, FilesInTurn
      <3>2. CASE RevokeStep
        <4>1. RevokeDelete => file["revoke"] \in 1 .. 3 /\ file'["revoke"] = file["revoke"] + 1
          BY DeleteFileOne, Zenon DEF RevokeDelete
        <4> QED BY <1>0, <3>2, <4>1, RevokeEffect DEF FilesInTurn
      <3> QED BY <1>2, <3>1, <3>2, TaskVars, Zenon
    <2>2. /\ task'["clean"] \in {"new", "load"} => file'["clean"] = 1
          /\ task'["clean"] = "delete" => file'["clean"] <= 3
      <3>1. CASE TaskSame("clean")
        BY <3>1, Zenon DEF TaskSame, FilesInTurn
      <3>2. CASE CleanStep
        BY <1>0, <3>2, CleanEffect DEF FilesInTurn
      <3> QED BY <1>2, <3>1, <3>2, TaskVars, Zenon
    <2> QED BY <2>1, <2>2, Zenon DEF FilesInTurn
  <1> QED BY <1>1, <1>2, UpkeepCases, Zenon

\* ... and what updateARI has loaded.
LEMMA UpdatingStep ==
    ASSUME TypeOK, UpkeepTypeOK, Updating, [UpkeepNext]_upkeepVars
    PROVE  Updating'
  <1>1. CASE \E p \in Instance : Moves(p)
    BY <1>1, MovesShared, Zenon DEF Updating
  <1>2. CASE Aside
    BY <1>2, TaskVars, ARIEffect, Zenon DEF TaskSame, Updating
  <1> QED BY <1>1, <1>2, UpkeepCases, Zenon

\* What has been deleted, restored or gone wrong remains so.
LEMMA Remains ==
    ASSUME TypeOK, UpkeepTypeOK, FilesInTurn, [UpkeepNext]_upkeepVars
    PROVE  /\ RollbackFailed => RollbackFailed'
           /\ SetToDelete => SetToDelete'
           /\ \A t \in {"revoke", "clean"} : file[t] = 4 => file'[t] = 4
           /\ MetaRestored => MetaRestored'
           /\ Updated => Updated'
  <1>0. file["revoke"] \in 1 .. 4 /\ file["clean"] \in 1 .. 4
    BY Zenon DEF UpkeepTypeOK, Task
  <1>1. CASE \E p \in Instance : Moves(p)
    <2>1. UNCHANGED <<task, file, seen, owner>> /\ faults \subseteq faults'
      BY <1>1, MovesShared, Zenon
    <2>2. RollbackFailed => RollbackFailed'
      BY <2>1, Zenon DEF RollbackFailed
    <2>3. (SetToDelete => SetToDelete') /\ (MetaRestored => MetaRestored') /\ (Updated => Updated')
      BY <2>1, Zenon DEF SetToDelete, MetaRestored, Updated
    <2> QED BY <2>1, <2>2, <2>3, Zenon
  <1>2. CASE Aside
    <2>1. RollbackFailed => RollbackFailed'
      BY <1>2, AsideSame, Zenon DEF RollbackFailed
    <2>2. /\ seen["revoke"] # 0 => seen'["revoke"] # 0
          /\ file["revoke"] = 4 => file'["revoke"] = 4
      <3>1. CASE TaskSame("revoke")
        BY <3>1, Zenon DEF TaskSame
      <3>2. CASE RevokeStep
        BY <3>2, RevokeEffect DEF FilesInTurn
      <3> QED BY <1>2, <3>1, <3>2, TaskVars, Zenon
    <2>3. /\ (task["clean"] = "delete" \/ file["clean"] > 1) => (task'["clean"] = "delete" \/ file'["clean"] > 1)
          /\ file["clean"] = 4 => file'["clean"] = 4
      <3>1. CASE TaskSame("clean")
        BY <3>1, Zenon DEF TaskSame
      <3>2. CASE CleanStep
        BY <1>0, <3>2, CleanEffect DEF FilesInTurn
      <3> QED BY <1>2, <3>1, <3>2, TaskVars, Zenon
    <2>4. owner # NoInstance => owner' # NoInstance
      BY <1>2, TaskVars, ARIEffect, NoInstanceAssumption, Zenon
    <2>5. task["ari"] = "over" => task'["ari"] = "over"
      BY <1>2, TaskVars, ARIEffect, Zenon DEF TaskSame
    <2>6. /\ SetToDelete => SetToDelete'
          /\ \A t \in {"revoke", "clean"} : file[t] = 4 => file'[t] = 4
      BY <2>2, <2>3, Zenon DEF SetToDelete
    <2> QED BY <2>1, <2>4, <2>5, <2>6, Zenon DEF MetaRestored, Updated
  <1> QED BY <1>1, <1>2, UpkeepCases, Zenon

\* What RevokeCert has deleted stays deleted: what is stored later is newer.
LEMMA RevokingStep ==
    ASSUME TypeOK, UpkeepTypeOK, NotAhead, KeysNotAhead, Belongs, HasLock, Saving, FilesInTurn, Revoking,
           [UpkeepNext]_upkeepVars
    PROVE  Revoking'
  <1> USE Values
  <1> DEFINE c == seen["revoke"]
             R == task["revoke"] \in {"ask", "delete", "folder", "done"}
  <1> SUFFICES ASSUME task'["revoke"] \in {"ask", "delete", "folder", "done"}
               PROVE  /\ seen'["revoke"] \in 1 .. issued'
                      /\ \A q \in Instance : (pc'[q] = "save" /\ step'[q] <= 2) =>
                            new'[q].files.cert # seen'["revoke"]
                      /\ file'["revoke"] > 1 => store'[1].cert # seen'["revoke"]
                      /\ file'["revoke"] > 2 => (store'[1].key # keyOf'[seen'["revoke"]] \/ reuse')
    BY Zenon DEF Revoking
  <1>0. R => /\ c \in 1 .. issued /\ keyOf'[c] = keyOf[c] /\ (~reuse => keyOf[c] = c)
             /\ \A q \in Instance : (pc[q] = "save" /\ step[q] <= 2) => new[q].files.cert # c
             /\ file["revoke"] > 1 => store[1].cert # c
             /\ file["revoke"] > 2 => (store[1].key # keyOf[c] \/ reuse)
    BY KeyOfSame, Zenon DEF Revoking, KeysNotAhead
  <1>1. CASE Aside
    <2>0. /\ UNCHANGED <<issued, keyOf, reuse, pc, step, new>>
          /\ store'[1].key \in {0, store[1].key} /\ store'[1].cert \in {0, store[1].cert}
      BY <1>1, AsideSame, AsideStore, Zenon
    <2>1. CASE TaskSame("revoke")
      BY <1>0, <2>0, <2>1 DEF TaskSame
    <2>2. CASE RevokeLoad /\ RevokeStep
      <3>1. /\ Complete(store[1]) /\ seen'["revoke"] = store[1].cert
            /\ file'["revoke"] = 1
        BY <2>2, RevokeEffect, Zenon DEF FilesInTurn, RevokeAsk, RevokeDelete, RevokeDeleteFails, RevokeFolder,
                                         RevokeLoad, DeleteFile
      <3>2. store[1].cert \in 1 .. issued
        BY <3>1 DEF Complete, NotAhead
      <3>3. \A q \in Instance : (pc[q] = "save" /\ step[q] <= 2) => new[q].files.cert # store[1].cert
        BY Zenon DEF Saving
      <3> QED BY <2>0, <3>1, <3>2, <3>3
    <2>3. CASE RevokeStep /\ ~RevokeLoad
      <3>1. R /\ seen'["revoke"] = c
        BY <2>3, RevokeEffect, Zenon
      <3>2. RevokeDelete => /\ file["revoke"] \in 1 .. 3 /\ file'["revoke"] = file["revoke"] + 1
                            /\ store'[1].cert = IF file["revoke"] = 1 THEN 0 ELSE store[1].cert
                            /\ store'[1].key = IF file["revoke"] = 2 THEN 0 ELSE store[1].key
        BY DeleteFileOne, Zenon DEF RevokeDelete
      <3>3. CASE RevokeDelete
        BY <1>0, <2>0, <3>1, <3>2, <3>3
      <3>4. CASE ~RevokeDelete
        <4>1. file' = file
          BY <2>3, <3>4, RevokeEffect, Zenon
        <4> QED BY <1>0, <2>0, <3>1, <4>1
      <3> QED BY <3>3, <3>4, Zenon
    <2> QED BY <1>1, <2>1, <2>2, <2>3, TaskVars, Zenon
  <1>2. ASSUME NEW p \in Instance, Moves(p)
        PROVE  /\ R /\ seen'["revoke"] = c /\ file'["revoke"] = file["revoke"] /\ reuse' = reuse
               /\ issued <= issued' /\ issued' \in Nat
               /\ \A q \in Instance \ {p} : Same(q)
    <2>1. UNCHANGED <<task, seen, file, reuse>>
      BY <1>2, MovesShared, Zenon
    <2>2. \A q \in Instance \ {p} : Same(q)
      BY <1>2, MovesSame, Zenon
    <2>3. issued <= issued' /\ issued' \in Nat
      BY <1>2, MovesIssued
    <2> QED BY <2>1, <2>2, <2>3, Zenon
  <1>3. ASSUME NEW p \in Instance, Moves(p), pc'[p] = "save", step'[p] <= 2
        PROVE  new'[p].files.cert # c
    <2>1. CASE Issues(p)
      BY <1>0, <1>2, <1>3, <2>1, IssueOne
    <2>2. CASE StoreFile(p)
      <3>1. pc[p] = "save" /\ new' = new /\ step[p] <= 2
        BY <1>3, <2>2, StoreStep
      <3> QED BY <1>0, <1>2, <1>3, <3>1, Zenon
    <2>3. CASE UndoStore(p)
      BY <1>3, <2>3, UndoStep, Zenon
    <2> QED BY <1>3, <2>1, <2>2, <2>3, CalmPlaces, Zenon DEF Calm
  <1>4. ASSUME NEW p \in Instance, Moves(p)
        PROVE  /\ file["revoke"] > 1 => store'[1].cert # c
               /\ file["revoke"] > 2 => (store'[1].key # keyOf[c] \/ reuse)
    <2>0. R
      BY <1>2, <1>4, Zenon
    <2>1. CASE Calm(p) \/ Issues(p)
      <3>1. store' = store
        BY <2>1, CalmShared, IssueOne, Zenon
      <3> QED BY <1>0, <2>0, <3>1, Zenon
    <2>2. CASE StoreFile(p)
      <3>1. pc[p] = "save"
        BY <2>2, StoreStep, Zenon
      <3>2. new[p].files.cert # 0 /\ new[p].files.key = keyOf[new[p].files.cert]
        BY <3>1, Zenon DEF Belongs, KeyPair
      <3>3. new[p].files.cert \in 1 .. issued
        BY <3>2 DEF NotAhead
      <3>4. ~reuse => new[p].files.key = new[p].files.cert
        BY <3>2, <3>3, Zenon DEF KeysNotAhead
      <3> QED BY <1>0, <2>0, <2>2, <3>1, <3>4, StoreOne
    <2>3. CASE UndoStore(p)
      <3>1. store'[1].key \in {0, store[1].key} /\ store'[1].cert \in {0, store[1].cert}
        BY <2>3, UndoOne, Zenon
      <3> QED BY <1>0, <2>0, <3>1
    <2> QED BY <1>4, <2>1, <2>2, <2>3, Zenon DEF Calm
  <1>5. ASSUME NEW p \in Instance, Moves(p)
        PROVE  /\ c \in 1 .. issued'
               /\ \A q \in Instance : (pc'[q] = "save" /\ step'[q] <= 2) => new'[q].files.cert # c
               /\ file["revoke"] > 1 => store'[1].cert # c
               /\ file["revoke"] > 2 => (store'[1].key # keyOf'[c] \/ reuse)
    <2>1. c \in 1 .. issued'
      BY <1>0, <1>2, <1>5
    <2>2. ASSUME NEW q \in Instance, pc'[q] = "save", step'[q] <= 2
          PROVE  new'[q].files.cert # c
      <3>1. CASE q # p
        BY <1>0, <1>2, <1>5, <2>2, <3>1, Zenon DEF Same
      <3> QED BY <1>3, <1>5, <2>2, <3>1, Zenon
    <2> QED BY <1>0, <1>2, <1>4, <1>5, <2>1, <2>2, Zenon
  <1>6. CASE \E p \in Instance : Moves(p)
    BY <1>2, <1>5, <1>6, Zenon
  <1> QED BY <1>1, <1>6, UpkeepCases, Zenon

-----------------------------------------------------------------------------
(* The metadata of the last certificate *)

\* What the tasks do to the metadata of a certificate with a key.
LEMMA AsideMeta ==
    ASSUME TypeOK, UpkeepTypeOK, Aside, store'[1].key # 0
    PROVE  \/ store'[1].meta = store[1].meta
           \/ store'[1].meta = 0 /\ \E t \in {"revoke", "clean"} : file'[t] = 4
           \/ StoreMeta /\ store'[1].meta = seen["ari"]
  <1>1. ASSUME NEW t \in {"revoke", "clean"}, NEW next, DeleteFile(t, next)
        PROVE  store'[1].meta = store[1].meta \/ (store'[1].meta = 0 /\ file'[t] = 4)
    BY <1>1, DeleteFileOne
  <1>2. ~(RevokeFolder \/ CleanFolder)
    BY DeleteFolderOne, NothingIsResource, Zenon
  <1>3. StoreMeta => store'[1].meta = seen["ari"]
    BY StoreMetaOne, Zenon
  <1>4. \A p \in Instance : DeleteKey(p) => store'[1].meta = store[1].meta
    BY DeleteKeyOne, Zenon
  <1> QED BY <1>1, <1>2, <1>3, <1>4, AsideCases, Zenon

\* Every step leaves the metadata its own or for a reason not.
LEMMA FreshMetaStep ==
    ASSUME TypeOK, UpkeepTypeOK, \A q \in Instance : AtPlace(q), NotAhead, Belongs, Saving, FilesInTurn,
           Updating, FreshMeta, [UpkeepNext]_upkeepVars
    PROVE  FreshMeta'
  <1> USE Values
  <1> DEFINE Deleted == \E t \in {"revoke", "clean"} : file[t] = 4
  <1> SUFFICES ASSUME store'[1].key # 0, store'[1].cert = issued', issued' # 0
               PROVE  \/ store'[1].meta = issued'
                      \/ store'[1].meta = 0 /\ Deleted'
                      \/ store'[1].meta # 0 /\ Updated'
                      \/ \E q \in Instance : pc'[q] = "save" /\ step'[q] = 3
                      \/ \E q \in Instance : pc'[q] = "undo" /\ (step'[q] = 2 \/ "delete" \in faults')
    BY Zenon DEF FreshMeta
  <1>0. (Deleted => Deleted') /\ (Updated => Updated') /\ faults \subseteq faults'
    <2>1. faults \subseteq faults'
      BY UpkeepCases, MovesShared, AsideSame, Zenon
    <2> QED BY <2>1, Remains, Zenon
  <1>1. (store[1].key # 0 /\ store[1].cert = issued /\ issued # 0) =>
            \/ store[1].meta = issued
            \/ store[1].meta = 0 /\ Deleted
            \/ store[1].meta # 0 /\ Updated
            \/ \E q \in Instance : pc[q] = "save" /\ step[q] = 3
            \/ \E q \in Instance : pc[q] = "undo" /\ (step[q] = 2 \/ "delete" \in faults)
    BY Zenon DEF FreshMeta
  <1>2. CASE Aside
    <2>1. /\ UNCHANGED <<issued, pc, step>>
          /\ store'[1].key \in {0, store[1].key} /\ store'[1].cert \in {0, store[1].cert}
      BY <1>2, AsideSame, AsideStore, Zenon
    <2>2. store[1].key # 0 /\ store[1].cert = issued /\ issued # 0
      BY <2>1, Zenon
    <2>3. CASE StoreMeta /\ store'[1].meta = seen["ari"]
      <3>1. seen["ari"] # 0 /\ owner \in Instance
        BY <2>3, Zenon DEF StoreMeta, Updating
      <3>2. task'["ari"] = "over" /\ owner' = owner
        BY <2>3, Zenon DEF StoreMeta, TaskGoto, UpkeepTypeOK, Task
      <3>3. Updated'
        BY <3>1, <3>2, NoInstanceAssumption, Zenon DEF Updated
      <3> QED BY <2>3, <3>1, <3>3, Zenon
    <2>4. CASE store'[1].meta = store[1].meta
      BY <1>0, <1>1, <2>1, <2>2, <2>4, Zenon
    <2> QED BY <1>2, <2>3, <2>4, AsideMeta, Zenon
  <1>3. ASSUME NEW p \in Instance, Calm(p)
        PROVE  \/ store'[1].meta = issued'
               \/ store'[1].meta = 0 /\ Deleted'
               \/ store'[1].meta # 0 /\ Updated'
               \/ \E q \in Instance : pc'[q] = "save" /\ step'[q] = 3
               \/ \E q \in Instance : pc'[q] = "undo" /\ (step'[q] = 2 \/ "delete" \in faults')
    <2>1. UNCHANGED <<store, issued>> /\ pc[p] # "undo" /\ (pc[p] = "save" => StoreFails(p))
      BY <1>3, CalmShared, CalmPlaces, Zenon
    <2>2. \A q \in Instance \ {p} : pc'[q] = pc[q] /\ step'[q] = step[q]
      BY <1>3, MovesSame, Zenon DEF Calm, Same
    <2>3. (pc[p] = "save" /\ step[p] = 3) => (pc'[p] = "undo" /\ step'[p] = 2)
      BY <2>1, StoreFailsOne
    <2>4. CASE \E q \in Instance : pc[q] = "save" /\ step[q] = 3
      BY <2>2, <2>3, <2>4, Zenon
    <2>5. CASE \E q \in Instance : pc[q] = "undo" /\ (step[q] = 2 \/ "delete" \in faults)
      BY <1>0, <2>1, <2>2, <2>5, Zenon
    <2> QED BY <1>0, <1>1, <2>1, <2>4, <2>5, Zenon
  <1>4. ASSUME NEW p \in Instance
        PROVE  ~Issues(p)
    <2>1. store[1].cert <= issued
      BY Zenon DEF NotAhead
    <2> QED BY <2>1, IssueOne
  <1>5. ASSUME NEW p \in Instance, StoreFile(p)
        PROVE  \/ store'[1].meta = issued'
               \/ \E q \in Instance : pc'[q] = "save" /\ step'[q] = 3
    <2>1. /\ pc[p] = "save" /\ issued' = issued
          /\ \/ step[p] = 3 /\ pc'[p] = "unlock"
             \/ step[p] \in {1, 2} /\ pc'[p] = "save" /\ step'[p] = step[p] + 1
      BY <1>5, StoreStep, Zenon
    <2>2. new[p].files.cert = issued /\ new[p].files.meta = issued /\ (step[p] <= 2 => store[1].cert # issued)
      BY <2>1, Zenon DEF Saving, Belongs
    <2>3. CASE step[p] = 1
      BY <1>5, <2>1, <2>2, <2>3, StoreOne
    <2>4. CASE step[p] = 2
      BY <2>1, <2>4
    <2>5. CASE step[p] = 3
      BY <1>5, <2>1, <2>2, <2>5, StoreOne, Zenon
    <2> QED BY <2>1, <2>3, <2>4, <2>5, Zenon
  <1>6. ASSUME NEW p \in Instance, UndoStore(p)
        PROVE  \E q \in Instance : pc'[q] = "undo" /\ (step'[q] = 2 \/ "delete" \in faults')
    <2>1. /\ pc[p] = "undo" /\ issued' = issued
          /\ \/ step[p] = 1
             \/ step[p] \in {2, 3} /\ pc'[p] = "undo"
      BY <1>6, UndoStep, Zenon
    <2>2. step[p] < 3 /\ (step[p] = 1 /\ "delete" \notin faults => store[1].cert # issued)
      BY <2>1, Zenon DEF AtPlace, Saving
    <2>3. CASE step[p] = 1
      BY <1>6, <2>1, <2>2, <2>3, UndoOne
    <2>4. CASE step[p] = 2
      <3>1. "delete" \in faults'
        BY <1>6, <2>1, <2>4, UndoOne, Zenon
      <3> QED BY <2>1, <2>4, <3>1
    <2> QED BY <2>1, <2>2, <2>3, <2>4
  <1>7. CASE \E p \in Instance : Moves(p)
    BY <1>3, <1>4, <1>5, <1>6, <1>7, Zenon DEF Calm
  <1> QED BY <1>2, <1>7, UpkeepCases, Zenon

-----------------------------------------------------------------------------
(* Why a certificate is issued *)

\* Under the lock, and while nothing is saved, the metadata is its own, unless
\* a task has deleted or rewritten it.
LEMMA OwnMeta ==
    ASSUME HasLock, FreshMeta, NEW q \in Instance, Locked(q), pc[q] \notin {"save", "undo"},
           store[1].key # 0, store[1].cert = issued, issued # 0
    PROVE  \/ store[1].meta = issued
           \/ store[1].meta = 0 /\ \E t \in {"revoke", "clean"} : file[t] = 4
           \/ store[1].meta # 0 /\ Updated
  <1>1. \A p \in Instance : pc[p] \notin {"save", "undo"}
    BY NoOtherSaves, Zenon
  <1> QED BY <1>1, Zenon DEF FreshMeta

\* One file more is read, of the one issuer.
LEMMA ReadOne ==
    ASSUME TypeOK, NEW p \in Instance, ReadFile(p)
    PROVE  /\ UNCHANGED <<store, issued>>
           /\ \/ pc'[p] = "loaded" /\ best'[p] = best[p]
              \/ /\ pc'[p] = "read" /\ best'[p] = best[p] /\ step[p] \in {1, 2} /\ step'[p] = step[p] + 1
                 /\ step[p] = 2 => got'[p].cert = store[1].cert /\ store[1].cert # 0
              \/ /\ pc'[p] = "loaded" /\ step[p] = 3 /\ store[1].meta # 0
                 /\ \E r \in Resource :
                       r.cert = got[p].cert /\ r.meta = store[1].meta /\ best'[p] = Newer(best[p], r)
  <1>0. /\ at[p] = 1 /\ IssuerCount = 1 /\ pc \in [Instance -> {"idle", "read", "loaded", "check", "lock",
                            "attempt", "issue", "save", "undo", "failed", "unlock"}]
        /\ best \in [Instance -> Resource] /\ step \in [Instance -> 1 .. 3]
    BY Values, OneIssuerAssumption, Zenon DEF TypeOK
  <1>1. pc[p] = "read" /\ UNCHANGED <<store, issued>>
    BY Zenon DEF ReadFile, storage, ca
  <1>2. NextIssuer(p) => pc'[p] = "loaded"
    BY <1>0, Zenon DEF NextIssuer, Goto
  <1>3. CASE ReadNothing(p)
    BY <1>1, <1>2, <1>3, Zenon DEF ReadNothing
  <1>4. CASE ReadMore(p)
    <2>1. step'[p] = step[p] + 1
      BY <1>0, <1>4, Zenon DEF ReadMore
    <2>2. step[p] = 2 => got'[p].cert = store[1].cert /\ store[1].cert # 0
      BY <1>0, <1>4 DEF ReadMore
    <2> QED BY <1>1, <1>4, <2>1, <2>2, Zenon DEF ReadMore
  <1>5. ASSUME NEW r \in Resource, ReadAll(p, r)
        PROVE  /\ pc'[p] = "loaded" /\ step[p] = 3 /\ store[1].meta # 0
               /\ r.cert = got[p].cert /\ r.meta = store[1].meta /\ best'[p] = Newer(best[p], r)
    BY <1>0, <1>2, <1>5, Zenon DEF ReadAll
  <1> QED BY <1>1, <1>3, <1>4, <1>5, ReadFileCases, TypesSplit, Zenon

\* A renewal that reads under the lock gets what is stored.
LEMMA ReadUnderLockRead ==
    ASSUME TypeOK, NotAhead, HasLock, FreshMeta, NEW q \in Instance, ReadFile(q), Moves(q),
           op[q] = "renew", ReadUnderLock(q)
    PROVE  ReadUnderLock(q)'
  <1> USE Values
  <1>0. pc[q] = "read" /\ best[q].cert = 0
    BY ReadSame, Zenon DEF ReadUnderLock
  <1>1. UNCHANGED <<task, owner, store, issued>>
    BY MovesShared, ReadOne, Zenon
  <1>2. CASE /\ best'[q] = best[q]
             /\ (pc'[q] = "read" /\ step'[q] = 3) => (got'[q].cert = store[1].cert /\ store[1].cert # 0)
    BY <1>0, <1>1, <1>2, Zenon DEF ReadUnderLock
  <1>3. ASSUME NEW r \in Resource, pc'[q] = "loaded", step[q] = 3, store[1].meta # 0,
               r.cert = got[q].cert, r.meta = store[1].meta, best'[q] = Newer(best[q], r)
        PROVE  ReadUnderLock(q)'
    <2>1. got[q].cert # 0 /\ store[1].cert \in {0, got[q].cert}
      BY <1>0, <1>3, Zenon DEF ReadUnderLock
    <2>2. best'[q] = r
      BY <1>0, <1>3, <2>1 DEF Newer
    <2>3. got[q].cert <= issued
      BY Zenon DEF NotAhead
    <2>4. Updated' <=> Updated
      BY <1>1, Zenon DEF Updated
    <2>5. CASE store[1].key # 0 /\ store[1].cert = issued
      <3>1. issued # 0 /\ got[q].cert = issued
        BY <2>1, <2>3, <2>5
      <3>2. Locked(q)
        BY <1>0, Zenon DEF Locked
      <3>3. store[1].meta = issued \/ Updated
        BY <1>0, <1>3, <2>5, <3>1, <3>2, OwnMeta, Zenon
      <3> QED BY <1>1, <1>3, <2>2, <2>4, <3>1, <3>3, Zenon DEF ReadUnderLock
    <2> QED BY <1>1, <1>3, <2>5, Zenon DEF ReadUnderLock
  <1>4. pc'[q] = "read" /\ step[q] \in {1, 2} /\ step'[q] = step[q] + 1 /\ step'[q] = 3 => step[q] = 2
    OBVIOUS
  <1> QED BY <1>2, <1>3, <1>4, ReadOne, Zenon

\* Every step of others leaves what a renewal has read, ...
LEMMA ReadUnderLockSame ==
    ASSUME TypeOK, UpkeepTypeOK, NotAhead, FilesInTurn, NEW q \in Instance, ReadUnderLock(q), Same(q),
           issued' = issued, Updated => Updated',
           store'[1].key \in {0, store[1].key}, store'[1].cert \in {0, store[1].cert},
           store'[1].meta \in {0, store[1].meta} \/ ~Updated
    PROVE  ReadUnderLock(q)'
  <1> USE Values
  <1>1. pc'[q] = pc[q] /\ best'[q] = best[q] /\ step'[q] = step[q] /\ got'[q] = got[q]
    BY Zenon DEF Same
  <1>2. pc'[q] = "read" =>
          /\ best'[q].cert = 0
          /\ step'[q] = 3 => got'[q].cert # 0 /\ store'[1].cert \in {0, got'[q].cert}
    BY <1>1, Zenon DEF ReadUnderLock
  <1>3. ASSUME best'[q].cert # 0, store'[1].key # 0, store'[1].cert = issued'
        PROVE  /\ best'[q].cert = issued'
               /\ \/ best'[q].meta = issued'
                  \/ Updated' /\ store'[1].meta \in {0, best'[q].meta}
    <2>1. best[q].cert <= issued
      BY Zenon DEF NotAhead
    <2>2. best[q].cert # 0 /\ store[1].key # 0 /\ store[1].cert = issued
      BY <1>1, <1>3, <2>1
    <2> QED BY <1>1, <2>2, Zenon DEF ReadUnderLock
  <1> QED BY <1>2, <1>3, Zenon DEF ReadUnderLock

\* ... and the reason of an order: metadata that is restored had been deleted.
LEMMA ReasonAside ==
    ASSUME TypeOK, UpkeepTypeOK, NotAhead, KeysNotAhead, HasLock, FilesInTurn, Updating, FreshMeta,
           Aside, [UpkeepNext]_upkeepVars, NEW q \in Instance, pc[q] = "issue", Reason(q)
    PROVE  Reason(q)'
  <1> USE Values
  <1>1. /\ issued' = issued /\ op'[q] = op[q] /\ best'[q] = best[q] /\ forced' = forced
        /\ store'[1].key \in {0, store[1].key} /\ store'[1].cert \in {0, store[1].cert}
        /\ store'[1].meta \in {0, store[1].meta} \/ StoreMeta
    BY AsideSame, AsideStore, Zenon
  <1>2. CASE op[q] = "renew"
    <2>1. NeedsRenewal(best[q].cert, best[q].meta) => NeedsRenewal(best[q].cert, best[q].meta)'
      BY <1>1, AsideMore DEF NeedsRenewal
    <2> QED BY <1>1, <1>2, <2>1, Zenon DEF Reason
  <1>3. CASE op[q] = "obtain"
    <2>1. store[1].key = 0 \/ store[1].cert # issued \/ store[1].meta = 0 \/ MetaRestored
      BY <1>3, Zenon DEF Reason
    <2>2. CASE store[1].key = 0 \/ store[1].cert # issued
      <3>1. store[1].cert <= issued
        BY Zenon DEF NotAhead
      <3>2. store'[1].key = 0 \/ store'[1].cert # issued'
        BY <1>1, <2>2, <3>1
      <3> QED BY <1>1, <1>3, <3>2, Zenon DEF Reason
    <2>3. CASE MetaRestored
      BY <1>1, <1>3, <2>3, Remains, Zenon DEF Reason
    <2>4. CASE StoreMeta /\ store[1].meta = 0 /\ store[1].key # 0 /\ store[1].cert = issued
      <3>1. issued # 0
        BY <2>4 DEF KeysNotAhead
      <3>2. Locked(q)
        BY Zenon DEF Locked
      <3>3. \E t \in {"revoke", "clean"} : file[t] = 4
        BY <2>4, <3>1, <3>2, OwnMeta, Zenon
      <3>4. owner # NoInstance
        BY <2>4, NoInstanceAssumption, Zenon DEF StoreMeta, Updating
      <3>5. MetaRestored
        BY <3>3, <3>4, Zenon DEF MetaRestored
      <3> QED BY <2>3, <3>5, Zenon
    <2>5. CASE store[1].meta = 0 /\ store'[1].meta \in {0, store[1].meta}
      BY <1>1, <1>3, <2>5, Zenon DEF Reason
    <2> QED BY <1>1, <2>1, <2>2, <2>3, <2>4, <2>5, Zenon
  <1> QED BY <1>1, <1>2, <1>3, Zenon DEF Reason

\* An instance decides to issue for a reason.
LEMMA ReasonDecides ==
    ASSUME TypeOK, UpkeepTypeOK, KeysNotAhead, NEW q \in Instance, Moves(q),
           AttemptObtain(q) \/ RenewLoaded(q) \/ ForcedRenewLoaded(q), pc'[q] = "issue"
    PROVE  /\ Reason(q)' /\ op'[q] = op[q]
           /\ op[q] = "renew" => best'[q] = best[q] /\ UNCHANGED <<store, issued>> /\ pc[q] = "loaded"
  <1> USE Values
  <1>0. pc \in [Instance -> {"idle", "read", "loaded", "check", "lock", "attempt", "issue",
                             "save", "undo", "failed", "unlock"}]
    BY Zenon DEF TypeOK
  <1>1. CASE AttemptObtain(q)
    <2>1. op[q] = "obtain" /\ op'[q] = op[q] /\ UNCHANGED <<store, issued>>
      BY <1>1, Zenon DEF AttemptObtain, storage, ca
    <2>2. store[1].key = 0 \/ store[1].cert = 0 \/ store[1].meta = 0
      BY <1>1, AttemptOne, Zenon DEF Complete
    <2>3. store[1].key = 0 \/ store[1].cert # issued \/ store[1].meta = 0
      BY <2>2 DEF KeysNotAhead
    <2> QED BY <2>1, <2>3, Zenon DEF Reason
  <1>2. CASE RenewLoaded(q)
    <2>1. /\ op[q] = "renew" /\ op'[q] = op[q] /\ pc[q] = "loaded"
          /\ UNCHANGED <<store, issued, best, due>>
      BY <1>2, Zenon DEF RenewLoaded, storage, ca
    <2>2. best[q].cert # 0 /\ NeedsRenewal(best[q].cert, best[q].meta)
      BY <1>0, <1>2, Zenon DEF RenewLoaded, Goto
    <2>3. NeedsRenewal(best[q].cert, best[q].meta)'
      BY <2>1, <2>2, Zenon DEF NeedsRenewal
    <2> QED BY <2>1, <2>2, <2>3, Zenon DEF Reason
  <1>3. CASE ForcedRenewLoaded(q)
    <2>1. /\ forced[q] /\ op[q] = "renew" /\ op' = op /\ best' = best /\ forced' = forced
          /\ best[q].cert # 0 /\ pc[q] = "loaded" /\ UNCHANGED <<store, issued>>
      BY <1>3, ForcedCases, Zenon DEF ForcedRenewLoaded, storage, ca
    <2> QED BY <2>1, Zenon DEF Reason
  <1> QED BY <1>1, <1>2, <1>3, Zenon

\* Every step leaves each order with its reason.
LEMMA ReasonsStep ==
    ASSUME TypeOK, UpkeepTypeOK, \A q \in Instance : AtPlace(q), NotAhead, KeysNotAhead, HasLock,
           FilesInTurn, Updating, FreshMeta, Reasons, [UpkeepNext]_upkeepVars
    PROVE  Reasons'
  <1> SUFFICES ASSUME NEW q \in Instance
               PROVE  /\ (op'[q] = "renew" /\ pc'[q] \in {"read", "loaded", "issue"}) => ReadUnderLock(q)'
                      /\ pc'[q] = "issue" => Reason(q)'
    BY Zenon DEF Reasons
  <1>0. /\ (op[q] = "renew" /\ pc[q] \in {"read", "loaded", "issue"}) => ReadUnderLock(q)
        /\ pc[q] = "issue" => Reason(q)
    BY Zenon DEF Reasons
  <1>1. CASE Aside
    <2>1. Same(q) /\ issued' = issued
      BY <1>1, AsideSame, Zenon
    <2>2. (op[q] = "renew" /\ pc[q] \in {"read", "loaded", "issue"}) => ReadUnderLock(q)'
      <3>1. StoreMeta => ~Updated
        BY Zenon DEF StoreMeta, Updated
      <3>2. /\ store'[1].key \in {0, store[1].key} /\ store'[1].cert \in {0, store[1].cert}
            /\ store'[1].meta \in {0, store[1].meta} \/ ~Updated
        BY <1>1, <3>1, AsideStore, Zenon
      <3> QED BY <1>0, <2>1, <3>2, ReadUnderLockSame, Remains, Zenon
    <2>3. pc[q] = "issue" => Reason(q)'
      BY <1>0, <1>1, ReasonAside, Zenon
    <2> QED BY <2>1, <2>2, <2>3, Zenon DEF Same
  <1>2. ASSUME NEW p \in Instance \ {q}, Moves(p), Locked(q)'
        PROVE  /\ Same(q) /\ forced'[q] = forced[q]
               /\ UNCHANGED <<store, issued, due, task, owner, file>>
    <2>1. Same(q) /\ forced'[q] = forced[q]
      BY <1>2, MovesSame, Zenon
    <2>2. Locked(q)
      BY <1>2, <2>1, Zenon DEF Same, Locked
    <2>3. Calm(p)
      BY <1>2, <2>2, HolderAlone, Zenon
    <2> QED BY <1>2, <2>1, <2>3, CalmShared, MovesShared, Zenon
  <1>3. CASE /\ Same(q) /\ forced'[q] = forced[q]
             /\ UNCHANGED <<store, issued, due, task, owner, file>>
    <2>1. Updated => Updated'
      BY <1>3, Zenon DEF Updated
    <2>2. (op[q] = "renew" /\ pc[q] \in {"read", "loaded", "issue"}) => ReadUnderLock(q)'
      BY <1>0, <1>3, <2>1, ReadUnderLockSame, Zenon
    <2>3. MetaRestored => MetaRestored'
      BY <1>3, Zenon DEF MetaRestored
    <2>4. Reason(q) => Reason(q)'
      BY <1>3, <2>3, Zenon DEF Reason, Same, NeedsRenewal
    <2> QED BY <1>0, <1>3, <2>2, <2>4, Zenon DEF Same
  <1>4. CASE ~Locked(q)'
    BY <1>4, Zenon DEF Locked
  <1>5. CASE Calm(q)
    <2>0. Moves(q)
      BY <1>5, Zenon DEF Calm
    <2>1. CASE pc'[q] = "issue"
      <3>1. AttemptObtain(q) \/ RenewLoaded(q) \/ ForcedRenewLoaded(q)
        BY <1>5, <2>1, CalmPlaces, Zenon
      <3>2. /\ Reason(q)' /\ op'[q] = op[q]
            /\ op[q] = "renew" => best'[q] = best[q] /\ UNCHANGED <<store, issued>> /\ pc[q] = "loaded"
        BY <2>0, <2>1, <3>1, ReasonDecides, Zenon
      <3>3. Updated' <=> Updated
        BY <2>0, MovesShared, Zenon DEF Updated
      <3>4. op[q] = "renew" => ReadUnderLock(q)'
        BY <1>0, <2>1, <3>2, <3>3, Zenon DEF ReadUnderLock
      <3> QED BY <3>2, <3>4, Zenon
    <2>2. CASE op'[q] = "renew" /\ pc'[q] \in {"read", "loaded"}
      <3>1. AttemptRenew(q) \/ ReadFile(q)
        BY <1>5, <2>2, CalmPlaces, Zenon
      <3>2. CASE AttemptRenew(q)
        <4>1. step'[q] = 1 /\ best'[q].cert = 0
          BY <3>2, FreshCases, NothingIsResource, Zenon DEF Fresh
        <4> QED BY <2>2, <4>1 DEF ReadUnderLock
      <3>3. CASE ReadFile(q)
        <4>1. op[q] = "renew" /\ pc[q] = "read"
          BY <2>2, <3>3, ReadSame, Zenon
        <4> QED BY <1>0, <2>0, <2>2, <3>3, <4>1, ReadUnderLockRead, Zenon
      <3> QED BY <3>1, <3>2, <3>3, Zenon
    <2> QED BY <2>1, <2>2, Zenon
  <1>6. CASE Issues(q) \/ StoreFile(q) \/ UndoStore(q)
    BY <1>6, WithinCases, Zenon
  <1> QED BY <1>1, <1>2, <1>3, <1>4, <1>5, <1>6, UpkeepCases, Zenon DEF Calm

-----------------------------------------------------------------------------
(* No key is left alone *)

\* A task that is deleting files is set to delete.
LEMMA DeletesSet ==
    ASSUME UpkeepTypeOK, Revoking, NEW t \in {"revoke", "clean"}, task[t] = "delete"
    PROVE  SetToDelete
  <1>1. CASE t = "revoke"
    <2>1. seen["revoke"] \in 1 .. issued
      BY <1>1, Zenon DEF Revoking
    <2> QED BY <2>1 DEF SetToDelete
  <1> QED BY <1>1, Zenon DEF SetToDelete

\* Otherwise the tasks, and who moves a key, leave no single file.
LEMMA AsideWhole ==
    ASSUME TypeOK, UpkeepTypeOK, Revoking, Updating, Aside, ~SetToDelete
    PROVE  \/ store'[1].key = 0
           \/ /\ store'[1].key = store[1].key /\ store'[1].cert = store[1].cert
              /\ store[1].meta # 0 => store'[1].meta # 0
  <1>1. ASSUME NEW t \in {"revoke", "clean"}, NEW next
        PROVE  ~DeleteFile(t, next)
    BY DeletesSet, Zenon DEF DeleteFile
  <1>2. (RevokeFolder \/ CleanFolder) => store'[1].key = 0
    BY DeleteFolderOne, NothingIsResource, Zenon
  <1>3. StoreMeta => /\ store'[1].key = store[1].key /\ store'[1].cert = store[1].cert
                     /\ store'[1].meta # 0
    <2>1. StoreMeta => seen["ari"] # 0
      BY Zenon DEF StoreMeta, Updating
    <2> QED BY <2>1, StoreMetaOne, Zenon
  <1>4. \A p \in Instance : DeleteKey(p) => store' = store \/ store'[1].key = 0
    BY DeleteKeyOne, Zenon
  <1> QED BY <1>1, <1>2, <1>3, <1>4, AsideCases, Zenon

\* Every step leaves a key with the rest, and an obtain without the key.
LEMMA KeyNotAloneStep ==
    ASSUME TypeOK, UpkeepTypeOK, \A q \in Instance : AtPlace(q), Belongs, HasLock, FilesInTurn, Revoking,
           Updating, KeyNotAlone, [UpkeepNext]_upkeepVars
    PROVE  KeyNotAlone'
  <1> USE Values
  <1> DEFINE k == store[1].key
             c == store[1].cert
             m == store[1].meta
  <1> SUFFICES ASSUME ~LeftBehind'
               PROVE  /\ NobodyBetween' => k' = 0 \/ (c' # 0 /\ m' # 0)
                      /\ \A q \in Instance : (pc'[q] = "save" /\ step'[q] = 3 /\ k' # 0) => c' # 0
                      /\ \A q \in Instance : (pc'[q] = "issue" /\ op'[q] = "obtain") => best'[q].key = 0
    BY Zenon DEF KeyNotAlone, Complete
  <1>0. ~SetToDelete /\ ~RollbackFailed /\ ~RollbackFailed'
    BY Remains, Zenon DEF LeftBehind
  <1>1. /\ NobodyBetween => k = 0 \/ (c # 0 /\ m # 0)
        /\ \A q \in Instance : (pc[q] = "save" /\ step[q] = 3 /\ k # 0) => c # 0
        /\ \A q \in Instance : (pc[q] = "issue" /\ op[q] = "obtain") => best[q].key = 0
    BY <1>0, Zenon DEF KeyNotAlone, Complete, LeftBehind
  <1>2. CASE Aside
    <2>1. UNCHANGED <<pc, step, op, best>>
      BY <1>2, AsideSame, Zenon
    <2>2. k' = 0 \/ (k' = k /\ c' = c /\ (m # 0 => m' # 0))
      BY <1>0, <1>2, AsideWhole, Zenon
    <2>3. NobodyBetween' => NobodyBetween
      BY <2>1, Zenon DEF NobodyBetween
    <2> QED BY <1>1, <2>1, <2>2, <2>3, Zenon
  <1>3. ASSUME NEW p \in Instance, Moves(p), NEW q \in Instance, pc'[q] = "issue", op'[q] = "obtain"
        PROVE  best'[q].key = 0
    <2>1. CASE q # p
      <3>1. Same(q)
        BY <1>3, <2>1, MovesSame, Zenon
      <3> QED BY <1>1, <1>3, <3>1, Zenon DEF Same
    <2>2. CASE q = p
      <3>1. ~(Issues(p) \/ StoreFile(p) \/ UndoStore(p))
        BY <1>3, <2>2, WithinCases, Zenon
      <3>2. AttemptObtain(p) \/ RenewLoaded(p) \/ ForcedRenewLoaded(p)
        BY <1>3, <2>2, <3>1, CalmPlaces, Zenon DEF Calm
      <3>3. AttemptObtain(p)
        BY <1>3, <2>2, <3>2, Zenon DEF RenewLoaded, ForcedRenewLoaded
      <3>4. Locked(p) /\ pc[p] = "attempt"
        BY <3>3, Zenon DEF AttemptObtain, Locked
      <3>5. NobodyBetween
        BY <3>4, NoOtherSaves, Zenon DEF NobodyBetween
      <3> QED BY <1>1, <1>3, <2>2, <3>3, <3>5, AttemptOne, Zenon DEF Complete
    <2> QED BY <2>1, <2>2, Zenon
  <1>4. ASSUME NEW p \in Instance, Calm(p)
        PROVE  /\ NobodyBetween' => k' = 0 \/ (c' # 0 /\ m' # 0)
               /\ \A q \in Instance : (pc'[q] = "save" /\ step'[q] = 3 /\ k' # 0) => c' # 0
    <2>1. store' = store /\ pc'[p] # "save" /\ (NobodyBetween' => NobodyBetween)
      BY <1>4, CalmShared, CalmPlaces, CalmBetween, Zenon
    <2>2. \A q \in Instance \ {p} : Same(q)
      BY <1>4, MovesSame, Zenon DEF Calm
    <2> QED BY <1>1, <2>1, <2>2, Zenon DEF Same
  <1>5. ASSUME NEW p \in Instance, Issues(p), Moves(p)
        PROVE  /\ NobodyBetween' => k' = 0 \/ (c' # 0 /\ m' # 0)
               /\ \A q \in Instance : (pc'[q] = "save" /\ step'[q] = 3 /\ k' # 0) => c' # 0
    <2>1. pc[p] = "issue" /\ step' = step /\ store' = store
      BY <1>5, WithinCases, IssueOne, Zenon
    <2>2. NobodyBetween /\ \A q \in Instance : pc[q] # "save"
      BY <2>1, IssueBetween, Zenon
    <2>3. step'[p] # 3
      BY <2>1 DEF AtPlace
    <2>4. \A q \in Instance \ {p} : Same(q)
      BY <1>5, MovesSame, Zenon
    <2> QED BY <1>1, <2>1, <2>2, <2>3, <2>4, Zenon DEF Same
  <1>6. ASSUME NEW p \in Instance, StoreFile(p) \/ UndoStore(p), Moves(p), NEW q \in Instance \ {p}
        PROVE  pc'[q] # "save"
    <2>1. Locked(p)
      BY <1>6, StoreStep, UndoStep, Zenon DEF Locked
    <2> QED BY <1>6, <2>1, MovesSame, NoOtherSaves, Zenon DEF Same
  <1>7. ASSUME NEW p \in Instance, StoreFile(p), Moves(p)
        PROVE  /\ NobodyBetween' => k' = 0 \/ (c' # 0 /\ m' # 0)
               /\ (pc'[p] = "save" /\ step'[p] = 3) => c' # 0
    <2>1. /\ pc[p] = "save"
          /\ \/ step[p] = 3 /\ pc'[p] = "unlock"
             \/ step[p] \in {1, 2} /\ pc'[p] = "save" /\ step'[p] = step[p] + 1
      BY <1>7, StoreStep, Zenon
    <2>2. new[p].files.cert # 0 /\ new[p].files.meta # 0
      BY <2>1, Zenon DEF Belongs, KeyPair
    <2>3. NobodyBetween' => step[p] = 3
      BY <2>1 DEF NobodyBetween
    <2> QED BY <1>1, <1>7, <2>1, <2>2, <2>3, StoreOne
  <1>8. ASSUME NEW p \in Instance, UndoStore(p), Moves(p)
        PROVE  /\ NobodyBetween' => k' = 0
               /\ pc'[p] # "save"
    <2>1. /\ pc[p] = "undo" /\ pc'[p] # "save"
          /\ NobodyBetween' => step[p] = 1
      BY <1>8, UndoStep, Zenon DEF NobodyBetween
    <2>2. "store" \in faults /\ faults \subseteq faults'
      BY <1>8, <2>1, MovesShared, Zenon DEF AtPlace
    <2> QED BY <1>0, <1>8, <2>1, <2>2, UndoOne, Zenon DEF RollbackFailed
  <1>9. ASSUME NEW p \in Instance, Moves(p)
        PROVE  /\ NobodyBetween' => k' = 0 \/ (c' # 0 /\ m' # 0)
               /\ \A q \in Instance : (pc'[q] = "save" /\ step'[q] = 3 /\ k' # 0) => c' # 0
    <2>1. Calm(p) \/ Issues(p) \/ StoreFile(p) \/ UndoStore(p)
      BY <1>9, Zenon DEF Calm
    <2>2. CASE StoreFile(p)
      BY <1>6, <1>7, <1>9, <2>2, Zenon
    <2>3. CASE UndoStore(p)
      BY <1>6, <1>8, <1>9, <2>3, Zenon
    <2> QED BY <1>4, <1>5, <1>9, <2>1, <2>2, <2>3, Zenon
  <1>10. CASE \E p \in Instance : Moves(p)
    BY <1>3, <1>9, <1>10, Zenon
  <1> QED BY <1>2, <1>10, UpkeepCases, Zenon

-----------------------------------------------------------------------------
(* Forced renewals *)

\* A forced renewal has been one since it started, and of the same certificate.
LEMMA ForcedRenewal ==
    ASSUME TypeOK, UpkeepTypeOK, NEW q \in Instance, AtPlace(q), Unforced(q), forced'[q], op'[q] = "renew"
    PROVE  forced[q] /\ op[q] = "renew" /\ mem'[q] = mem[q]
  <1>0. forced[q]
    BY Zenon DEF Unforced, UpkeepTypeOK
  <1>1. op[q] \in {"obtain", "renew", "cache", "reload"}
    BY <1>0, Zenon DEF AtPlace
  <1>2. CASE Manage(q) \/ Maintain(q) \/ CacheLoaded(q) \/ Unlock(q)
    BY <1>2, FreshCases, Zenon DEF Fresh
  <1>3. CASE ManageLoaded(q) \/ MaintainLoaded(q)
    BY <1>1, <1>3, Zenon DEF ManageLoaded, MaintainLoaded
  <1>4. CASE ObtainCheck(q) \/ Retry(q)
    BY <1>0, <1>4, FreshCases, Zenon DEF Fresh
  <1>5. CASE AttemptRenew(q)
    BY <1>0, <1>5, FreshCases, Zenon DEF AttemptRenew
  <1>6. CASE \/ AcquireLock(q) \/ AttemptObtain(q) \/ RenewLoaded(q) \/ Issues(q) \/ IssueFails(q)
             \/ StoreFile(q) \/ StoreFails(q) \/ UndoStore(q) \/ GiveUp(q)
    BY <1>0, <1>6, WithinCases, Zenon
  <1>7. CASE ReadFile(q)
    BY <1>0, <1>7, ReadSame, Zenon
  <1> QED BY <1>2, <1>3, <1>4, <1>5, <1>6, <1>7, UnforcedNext, Zenon DEF InstanceStep, OperationStep

\* The CA revokes once by itself, or what RevokeCert is about to delete.
LEMMA AsideRevoked ==
    ASSUME TypeOK, UpkeepTypeOK, Revoking, Aside, ~SetToDelete
    PROVE  UNCHANGED <<revoked, leaked>> \/ (CARevokes /\ task["ca"] = "new" /\ task'["ca"] = "over")
  <1>1. CASE RevokeAsk
    <2>1. seen["revoke"] \in 1 .. issued
      BY <1>1, Zenon DEF RevokeAsk, Revoking
    <2>2. SetToDelete
      BY <2>1 DEF SetToDelete
    <2> QED BY <2>2, Zenon
  <1>2. CASE CARevokes
    BY <1>2, Zenon DEF CARevokes, TaskGoto, UpkeepTypeOK, Task
  <1>3. CASE TaskStep /\ ~RevokeAsk /\ ~CARevokes
    BY <1>3, Zenon
       DEF TaskStep, RevokeLoad, RevokeDelete, RevokeDeleteFails, RevokeFolder, CleanStart,
           CleanLoad, CleanDelete, CleanDeleteFails, CleanList, CleanFolder, UpdateCachedARI,
           LoadMeta, StoreMeta, DeleteFile
  <1>4. ASSUME NEW p \in Instance, CopyKey(p) \/ CopyKeyFails(p) \/ DeleteKey(p) \/ UpdateARI(p)
        PROVE  UNCHANGED <<revoked, leaked>>
    BY <1>4, Zenon DEF CopyKey, CopyKeyFails, DeleteKey, UpdateARI, Others
  <1>5. CASE TimePasses
    BY <1>5, Zenon DEF TimePasses, Expire, upkeepVars
  <1> QED BY <1>1, <1>2, <1>3, <1>4, <1>5, Zenon DEF Aside

\* Every step leaves the renewals by force to keys that are not compromised.
LEMMA RenewedByForceStep ==
    ASSUME TypeOK, UpkeepTypeOK, \A q \in Instance : AtPlace(q), FilesInTurn, Revoking, RenewedByForce,
           [UpkeepNext]_upkeepVars
    PROVE  RenewedByForce'
  <1> SUFFICES ASSUME ~SetToDelete'
               PROVE  /\ revoked' # {} => task'["ca"] # "new"
                      /\ \A q \in Instance : (forced'[q] /\ op'[q] = "renew") =>
                            mem'[q] \in revoked' /\ mem'[q] \notin leaked'
    BY Zenon DEF RenewedByForce
  <1>0. ~SetToDelete
    BY Remains, Zenon
  <1>1. /\ revoked # {} => task["ca"] # "new"
        /\ \A q \in Instance : (forced[q] /\ op[q] = "renew") => mem[q] \in revoked /\ mem[q] \notin leaked
    BY <1>0, Zenon DEF RenewedByForce
  <1>2. CASE Aside
    <2>1. UNCHANGED <<op, mem, forced>>
      BY <1>2, AsideSame, Zenon
    <2>2. CASE UNCHANGED <<revoked, leaked>>
      <3>1. task'["ca"] = task["ca"] \/ task'["ca"] # "new"
        BY <1>2, TaskVars, Zenon DEF TaskSame, CARevokes, TaskGoto, UpkeepTypeOK, Task
      <3> QED BY <1>1, <2>1, <2>2, <3>1, Zenon
    <2>3. CASE task["ca"] = "new" /\ task'["ca"] = "over"
      BY <1>1, <2>1, <2>3, Zenon
    <2> QED BY <1>0, <1>2, <2>2, <2>3, AsideRevoked, Zenon
  <1>3. ASSUME NEW p \in Instance, Moves(p)
        PROVE  /\ UNCHANGED <<task, revoked, leaked>>
               /\ \A q \in Instance : (forced'[q] /\ op'[q] = "renew") => mem'[q] \in revoked /\ mem'[q] \notin leaked
    <2>1. UNCHANGED <<task, revoked, leaked>>
      BY <1>3, MovesShared, Zenon
    <2>2. ASSUME NEW q \in Instance \ {p}, forced'[q], op'[q] = "renew"
          PROVE  mem'[q] \in revoked /\ mem'[q] \notin leaked
      <3>1. Same(q) /\ forced'[q] = forced[q]
        BY <1>3, <2>2, MovesSame, Zenon
      <3> QED BY <1>1, <2>2, <3>1, Zenon DEF Same
    <2>3. ASSUME forced'[p], op'[p] = "renew"
          PROVE  mem'[p] \in revoked /\ mem'[p] \notin leaked
      <3>1. CASE Unforced(p)
        BY <1>1, <2>3, <3>1, ForcedRenewal, Zenon
      <3>2. CASE ForceRenew(p)
        BY <2>3, <3>2, ForcedCases, Zenon DEF Fresh
      <3>3. CASE ForcedRenewLoaded(p)
        BY <1>1, <2>3, <3>3, ForcedCases, Zenon
      <3>4. CASE ForcedFails(p)
        BY <2>3, <3>4, ForcedCases, Zenon DEF Fresh
      <3> QED BY <1>3, <3>1, <3>2, <3>3, <3>4, Zenon DEF Moves
    <2> QED BY <2>1, <2>2, <2>3, Zenon
  <1>4. CASE \E p \in Instance : Moves(p)
    BY <1>1, <1>3, <1>4, Zenon
  <1> QED BY <1>2, <1>4, UpkeepCases, Zenon

-----------------------------------------------------------------------------
(* The theorems *)

\* The invariant holds at first ...
LEMMA UpkeepInitInvariant == UpkeepInit => UpkeepIInv
  <1> SUFFICES ASSUME UpkeepInit PROVE UpkeepIInv
    BY Zenon
  <1>0. Init
    BY Zenon DEF UpkeepInit
  <1>1. TypeOK
    BY <1>0, InitTypes, Zenon
  <1> USE NothingIsResource
  <1>2. /\ IssuerIndex = {1} /\ store[1] = NoResource /\ issued = 0 /\ due = 0 /\ faults = {}
        /\ \A p \in Instance : /\ pc[p] = "idle" /\ op[p] = "none" /\ step[p] = 1
                               /\ got[p] = NoResource /\ best[p] = NoResource
                               /\ new[p].files = NoResource /\ mem[p] = 0
    BY <1>0, <1>1, Values DEF Init, NothingNew
  <1>3. /\ file = [t \in Task |-> 1] /\ seen = [t \in Task |-> 0] /\ owner = NoInstance
        /\ revoked = {} /\ leaked = {} /\ expired = 0 /\ moved = 0
        /\ \A p \in Instance : forced[p] = FALSE /\ moving[p] = "no"
        /\ \A t \in Task : task[t] \in {"new", "over"} /\ file[t] = 1 /\ seen[t] = 0
    BY Zenon DEF UpkeepInit
  <1>4. UpkeepTypeOK
    <2>1. 0 \in Version /\ 1 \in 1 .. 4 /\ expired \in 0 .. due
      BY <1>1, <1>2, <1>3, Values
    <2>2. task \in [Task -> {"new", "load", "ask", "fetched", "cached", "write", "delete", "list",
                             "folder", "over", "done"}]
      BY Zenon DEF UpkeepInit
    <2>3. forced \in [Instance -> BOOLEAN] /\ moving \in [Instance -> {"no", "copy", "delete"}]
      BY Zenon DEF UpkeepInit
    <2> QED BY <1>3, <2>1, <2>2, <2>3, Zenon DEF UpkeepTypeOK
  <1>5. LockReliable /\ (\A p \in Instance : AtPlace(p)) /\ HasLock /\ Belongs
    BY <1>2, <1>3, Zenon DEF LockReliable, AtPlace, HasLock, Locked, Belongs
  <1>6. NotAhead /\ KeysNotAhead
    BY <1>2 DEF NotAhead, KeysNotAhead
  <1>7. Saving /\ Unmixed /\ FreshMeta /\ Reasons
    BY <1>2, Zenon DEF Saving, Unmixed, FreshMeta, Reasons
  <1>8. "revoke" \in Task /\ "clean" \in Task /\ "ari" \in Task
    BY Zenon DEF Task
  <1>9. FilesInTurn
    BY <1>3, <1>8, Zenon DEF FilesInTurn
  <1>10. Revoking /\ Updating
    BY <1>3, <1>8, Zenon DEF Revoking, Updating
  <1>11. KeyNotAlone /\ RenewedByForce
    BY <1>2, <1>3, Zenon DEF KeyNotAlone, RenewedByForce
  <1> QED BY <1>1, <1>4, <1>5, <1>6, <1>7, <1>9, <1>10, <1>11, Zenon DEF UpkeepIInv

\* ... every step keeps it ...
LEMMA UpkeepInvariantStep == UpkeepIInv /\ [UpkeepNext]_upkeepVars => UpkeepIInv'
  <1> SUFFICES ASSUME UpkeepIInv, [UpkeepNext]_upkeepVars PROVE UpkeepIInv'
    BY Zenon
  <1> USE DEF UpkeepIInv
  <1>1. TypeOK' /\ UpkeepTypeOK'
    BY UpkeepCases, MovesTypes, AsideTypes, AsideUpkeepTypes, Zenon
  <1>2. LockReliable' /\ (\A p \in Instance : AtPlace(p))'
    BY ReliableStep, AtPlaceStep, Zenon
  <1>3. NotAhead' /\ KeysNotAhead' /\ Belongs'
    BY NotAheadUpkeep, KeysNotAheadStep, BelongsUpkeep, Zenon
  <1>4. HasLock' /\ Saving' /\ Unmixed'
    BY HasLockStep, SavingStep, UnmixedStep, Zenon
  <1>5. FilesInTurn' /\ Revoking' /\ Updating' /\ FreshMeta'
    BY FilesInTurnStep, RevokingStep, UpdatingStep, FreshMetaStep, Zenon
  <1>6. Reasons' /\ KeyNotAlone' /\ RenewedByForce'
    BY ReasonsStep, KeyNotAloneStep, RenewedByForceStep, Zenon
  <1> QED BY <1>1, <1>2, <1>3, <1>4, <1>5, <1>6, Zenon

\* ... and so it always holds.
LEMMA UpkeepInvariantHolds == UpkeepSpec => []UpkeepIInv
  BY UpkeepInitInvariant, UpkeepInvariantStep, PTL DEF UpkeepSpec

\* Types: storage, the operations and the tasks stay within the values that
\* config.go and maintain.go give them, and only what was issued is revoked.
THEOREM UpkeepTypes == UpkeepSpec => [](TypeOK /\ UpkeepTypeOK)
  <1>1. UpkeepIInv => TypeOK /\ UpkeepTypeOK
    BY Zenon DEF UpkeepIInv
  <1> QED BY <1>1, UpkeepInvariantHolds, PTL

\* While nobody saves, what is stored is never a certificate with the key of
\* another one, whatever RevokeCert, CleanStorage, updateARI and forceRenew
\* delete and rewrite, unless the roll back of storeTx failed.
THEOREM UpkeepNeverMixed == UpkeepSpec => []NeverMixed
  <1>1. ASSUME UpkeepIInv PROVE NeverMixed
    <2>1. (\A p \in Instance : pc[p] \notin {"save", "undo"}) => NobodyBetween
      BY Zenon DEF NobodyBetween
    <2>2. Unmixed
      BY <1>1, Zenon DEF UpkeepIInv
    <2> QED BY <2>1, <2>2, Zenon DEF NeverMixed, Unmixed, RollbackFailed
  <1> QED BY <1>1, UpkeepInvariantHolds, PTL

\* What RevokeCert has deleted never comes back into storage, though it takes
\* no lock.
THEOREM UpkeepRevokedGone == UpkeepSpec => []RevokedGone
  <1>1. ASSUME UpkeepIInv, task["revoke"] = "done"
        PROVE  store[1].cert # seen["revoke"] /\ (store[1].key # keyOf[seen["revoke"]] \/ reuse)
    BY <1>1 DEF UpkeepIInv, FilesInTurn, Revoking
  <1>2. UpkeepIInv => RevokedGone
    BY <1>1, Zenon DEF RevokedGone
  <1> QED BY <1>2, UpkeepInvariantHolds, PTL

\* Who issues.
LEMMA WhoIssues ==
    ASSUME TypeOK, UpkeepTypeOK, [UpkeepNext]_upkeepVars, issued' > issued
    PROVE  \E p \in Instance : Moves(p) /\ Issues(p)
  <1>0. issued' # issued
    BY Values
  <1>1. ~Aside
    BY <1>0, AsideSame, Zenon
  <1>2. PICK p \in Instance : Moves(p)
    BY <1>1, UpkeepCases, Zenon
  <1>3. ~Calm(p)
    BY <1>0, CalmShared, Zenon
  <1> QED BY <1>0, <1>2, <1>3, StoreStep, UndoStep, Zenon DEF Calm

\* Nothing is issued without need, though the tasks delete and rewrite files
\* without the lock: what obtainCert and renewCert find under it is still so,
\* or for a reason not, when they issue.
THEOREM UpkeepIssued == UpkeepSpec => IssuedUnderUpkeep
  <1>1. ASSUME UpkeepIInv, [UpkeepNext]_upkeepVars, issued' > issued, issued # due, LastIsKept, ~MetaRestored
        PROVE  \E p \in Instance : forced[p] /\ pc[p] = "issue" /\ pc'[p] = "save"
    <2> USE <1>1, Values DEF UpkeepIInv
    <2>1. PICK p \in Instance : Issues(p)
      BY WhoIssues, Zenon
    <2>2. pc[p] = "issue" /\ pc'[p] = "save" /\ op[p] \in {"obtain", "renew"}
      BY <2>1, WithinCases, Zenon DEF AtPlace
    <2>3. \A q \in Instance : pc[q] # "save"
      BY <2>2, IssueBetween, Zenon
    <2>4. store[1].cert = issued /\ store[1].key # 0 /\ store[1].meta # 0 /\ store[1].meta = issued
      BY <2>3, Zenon DEF LastIsKept, Complete
    <2>5. Reason(p) /\ (op[p] = "renew" => ReadUnderLock(p))
      BY <2>2, Zenon DEF Reasons
    <2>6. op[p] = "renew" /\ ReadUnderLock(p)
      BY <2>2, <2>4, <2>5, Zenon DEF Reason
    <2>7. best[p].cert # 0 /\ (forced[p] \/ NeedsRenewal(best[p].cert, best[p].meta))
      BY <2>5, <2>6, Zenon DEF Reason
    <2>8. best[p].cert = issued /\ best[p].meta = issued
      BY <2>4, <2>6, <2>7, Zenon DEF ReadUnderLock
    <2>9. ~NeedsRenewal(best[p].cert, best[p].meta)
      BY <2>8 DEF NeedsRenewal
    <2> QED BY <2>2, <2>7, <2>9, Zenon
  <1>2. UpkeepIInv /\ [UpkeepNext]_upkeepVars =>
            [issued' > issued =>
                \/ issued = due \/ ~LastIsKept \/ MetaRestored
                \/ \E p \in Instance : forced[p] /\ pc[p] = "issue" /\ pc'[p] = "save"]_upkeepVars
    BY <1>1, Zenon
  <1> QED BY <1>2, UpkeepInvariantHolds, PTL DEF UpkeepSpec, IssuedUnderUpkeep

\* A certificate with a compromised key is replaced by one with another key:
\* the obtain of forceRenew finds no key to reuse.
THEOREM UpkeepLeaked == UpkeepSpec => LeakedKeyReplaced
  <1>1. ASSUME UpkeepIInv, [UpkeepNext]_upkeepVars, NEW p \in Instance, forced[p], mem[p] \in leaked,
               pc[p] = "issue", pc'[p] = "save", ~SetToDelete, ~RollbackFailed
        PROVE  new'[p].files.key # keyOf[mem[p]]
    <2> USE <1>1, Values DEF UpkeepIInv
    <2>1. ~Same(p)
      BY Zenon DEF Same
    <2>2. Moves(p)
      BY <2>1, UpkeepCases, AsideSame, MovesSame, Zenon
    <2>3. Issues(p)
      BY <2>2, CalmPlaces, StoreStep, UndoStep, Zenon DEF Calm
    <2>4. op[p] = "obtain"
      BY Zenon DEF AtPlace, RenewedByForce
    <2>5. best[p].key = 0
      BY <2>4, Zenon DEF KeyNotAlone, LeftBehind
    <2>6. new'[p].files.key = issued + 1
      BY <2>3, <2>5, IssueOne
    <2>7. mem[p] \in 1 .. issued
      BY Zenon DEF UpkeepTypeOK
    <2>8. keyOf[mem[p]] <= issued /\ keyOf[mem[p]] \in Nat
      BY <2>7, Zenon DEF KeysNotAhead
    <2> QED BY <2>6, <2>8
  <1>2. UpkeepIInv /\ [UpkeepNext]_upkeepVars =>
            [\A p \in Instance :
                (forced[p] /\ mem[p] \in leaked /\ pc[p] = "issue" /\ pc'[p] = "save") =>
                    \/ new'[p].files.key # keyOf[mem[p]]
                    \/ SetToDelete
                    \/ {"store", "delete"} \subseteq faults]_upkeepVars
    BY <1>1, Zenon DEF RollbackFailed
  <1> QED BY <1>2, UpkeepInvariantHolds, PTL DEF UpkeepSpec, LeakedKeyReplaced
=============================================================================
