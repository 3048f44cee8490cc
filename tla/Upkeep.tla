------------------------------- MODULE Upkeep -------------------------------
(***************************************************************************)
(* What else changes the stored certificate of a name, or replaces it out  *)
(* of turn, while instances obtain and renew it (config.go, maintain.go):  *)
(* RevokeCert, CleanStorage's deleteExpiredCerts and updateARI, none of    *)
(* which takes the lock of the name, and the forced renewal of a revoked   *)
(* certificate, for which a compromised key is moved away first.           *)
(*                                                                         *)
(* Each of the three tasks runs at most once, in an instance of its own or *)
(* (updateARI) in one of those of Issuance; so does a fourth one, a CA     *)
(* that revokes a certificate unasked.  There is one issuer.               *)
(***************************************************************************)
EXTENDS Issuance

CONSTANT
    TaskSets    \* the tasks that run together

Task == {"revoke", "clean", "ari", "ca"}

ASSUME TasksAssumption == TaskSets \subseteq SUBSET Task
ASSUME OneIssuerAssumption == IssuerCount = 1

VARIABLES
    task,       \* where each task is
    file,       \* the file it is about to delete
    seen,       \* the certificate it has loaded
    owner,      \* the instance that updates its ARI
    revoked,    \* the certificates the CA has revoked,
    leaked,     \* and those of them revoked for key compromise
    expired,    \* the certificates up to this one expired long ago
    moved,      \* the private key in the .compromised file
    forced,     \* whether the instance is in forceRenew,
    moving      \* and where it is in moveCompromisedPrivateKey

tasks == <<task, file, seen, owner>>
force == <<moved, forced, moving>>
upkeepVars == <<tasks, revoked, leaked, expired, force, vars>>

\* The types of the variables; only what was issued is revoked, and only what
\* was revoked is known for a compromised key (RevokeCert, forceRenew).
UpkeepTypeOK ==
    /\ task \in [Task -> {"new", "load", "ask", "fetched", "cached", "write", "delete", "list",
                          "folder", "over", "done"}]
    /\ file \in [Task -> 1 .. 4]
    /\ seen \in [Task -> Version]
    /\ owner \in Instance \cup {NoInstance}
    /\ revoked \subseteq 1 .. issued /\ leaked \subseteq revoked
    /\ expired \in 0 .. due
    /\ moved \in Version
    /\ forced \in [Instance -> BOOLEAN]
    /\ moving \in [Instance -> {"no", "copy", "delete"}]

UpkeepInit ==
    /\ Init
    /\ \E tasksToRun \in TaskSets :
          task = [t \in Task |-> IF t \in tasksToRun THEN "new" ELSE "over"]
    /\ file = [t \in Task |-> 1]
    /\ seen = [t \in Task |-> 0]
    /\ owner = NoInstance
    /\ revoked = {} /\ leaked = {} /\ expired = 0 /\ moved = 0
    /\ forced = [p \in Instance |-> FALSE] /\ moving = [p \in Instance |-> "no"]

TaskGoto(t, l) == task' = [task EXCEPT ![t] = l]

-----------------------------------------------------------------------------
(* Deleting *)

DeleteOrder == <<"cert", "key", "meta">>
ASSUME DeletesAll == Len(DeleteOrder) = Len(Files)

\* The folder of the name is removed with all that is in it.
DeleteFolder == store' = [store EXCEPT ![1] = NoResource] /\ moved' = 0

\* The task deletes the next file, and is at next after the last one.
DeleteFile(t, next) ==
    /\ task[t] = "delete" /\ file[t] <= 3
    /\ store' = [store EXCEPT ![1][DeleteOrder[file[t]]] = 0]
    /\ file' = [file EXCEPT ![t] = @ + 1]
    /\ IF file[t] = 3 THEN TaskGoto(t, next) ELSE UNCHANGED task
    /\ UNCHANGED <<lock, faults, seen, owner, revoked, leaked, expired, force>>
    /\ UNCHANGED <<ca, due, pc, op, local, cached>>

\* A step of a task that leaves storage and the instances alone.
OnlyTask ==
    /\ UNCHANGED <<file, owner, expired, force>>
    /\ UNCHANGED <<storage, ca, due, pc, op, local, cached>>

-----------------------------------------------------------------------------
(* RevokeCert *)

\* The resource is loaded, or RevokeCert ends with an error.
RevokeLoad ==
    /\ task["revoke"] = "new"
    /\ TaskGoto("revoke", IF Complete(store[1]) THEN "ask" ELSE "over")
    /\ seen' = [seen EXCEPT !["revoke"] = store[1].cert]
    /\ OnlyTask /\ UNCHANGED <<revoked, leaked, faults>>

\* For key compromise, or for another reason.
RevokedByCA(c) ==
    /\ revoked' = revoked \cup {c}
    /\ \/ leaked' = leaked \cup {c}
       \/ UNCHANGED leaked

\* The CA revokes the certificate that was loaded, if there still is a key.
RevokeAsk ==
    /\ task["revoke"] = "ask"
    /\ \/ /\ store[1].key # 0
          /\ RevokedByCA(seen["revoke"])
          /\ TaskGoto("revoke", "delete")
       \/ /\ TaskGoto("revoke", "over")
          /\ UNCHANGED <<revoked, leaked>>
    /\ OnlyTask /\ UNCHANGED <<seen, faults>>

RevokeDelete == DeleteFile("revoke", "folder")

\* Mutant of RevokeDeleteFails: the error is not returned.
IgnoreDeleteError ==
    /\ Fault("delete")
    /\ task["revoke"] \in {"delete", "folder"}
    /\ TaskGoto("revoke", "done")
    /\ OnlyTask /\ UNCHANGED <<seen, revoked, leaked>>

\* A file cannot be deleted: RevokeCert ends with an error.
RevokeDeleteFails ==
    /\ Fault("delete")
    /\ task["revoke"] \in {"delete", "folder"}
    /\ TaskGoto("revoke", "over")
    /\ OnlyTask /\ UNCHANGED <<seen, revoked, leaked>>

RevokeFolder ==
    /\ task["revoke"] = "folder"
    /\ DeleteFolder
    /\ TaskGoto("revoke", "done")
    /\ UNCHANGED <<lock, faults, file, seen, owner, revoked, leaked, expired, forced, moving>>
    /\ UNCHANGED <<ca, due, pc, op, local, cached>>

-----------------------------------------------------------------------------
(* CleanStorage: deleteExpiredCerts *)

\* The folder is listed: is there a certificate?
CleanStart ==
    /\ task["clean"] = "new"
    /\ TaskGoto("clean", IF store[1].cert # 0 THEN "load" ELSE "list")
    /\ OnlyTask /\ UNCHANGED <<seen, revoked, leaked, faults>>

\* It is loaded: an error if it is gone by now.
CleanLoad ==
    /\ task["clean"] = "load"
    /\ TaskGoto("clean", IF store[1].cert = 0 THEN "over"
                         ELSE IF store[1].cert <= expired THEN "delete" ELSE "list")
    /\ OnlyTask /\ UNCHANGED <<seen, revoked, leaked, faults>>

CleanDelete == DeleteFile("clean", "list")

\* A file that cannot be deleted is left.
CleanDeleteFails ==
    /\ Fault("delete")
    /\ task["clean"] = "delete"
    /\ file' = [file EXCEPT !["clean"] = @ + 1]
    /\ IF file["clean"] = 3 THEN TaskGoto("clean", "list") ELSE UNCHANGED task
    /\ UNCHANGED <<seen, owner, revoked, leaked, expired, force>>
    /\ UNCHANGED <<storage, ca, due, pc, op, local, cached>>

\* Listed again, the folder may be empty, ...
CleanList ==
    /\ task["clean"] = "list"
    /\ TaskGoto("clean", IF store[1] = NoResource /\ moved = 0 THEN "folder" ELSE "over")
    /\ OnlyTask /\ UNCHANGED <<seen, revoked, leaked, faults>>

\* ... and is removed with what is in it by now.
CleanFolder ==
    /\ task["clean"] = "folder"
    /\ DeleteFolder
    /\ TaskGoto("clean", "over")
    /\ UNCHANGED <<lock, faults, file, seen, owner, revoked, leaked, expired, forced, moving>>
    /\ UNCHANGED <<ca, due, pc, op, local, cached>>

-----------------------------------------------------------------------------
(* updateARI *)

\* The maintenance of instance p refreshes the renewal info of the cached
\* certificate: with that in storage if it is newer, ...
UpdateARI(p) ==
    /\ task["ari"] = "new"
    /\ mem[p] # 0
    /\ IF store[1].meta > ari[p]
          THEN ari' = [ari EXCEPT ![p] = store[1].meta] /\ TaskGoto("ari", "over")
          ELSE TaskGoto("ari", "fetched") /\ UNCHANGED ari
    /\ owner' = p
    /\ seen' = [seen EXCEPT !["ari"] = mem[p]]
    /\ UNCHANGED <<file, revoked, leaked, expired, force, mem, faults>>
    /\ UNCHANGED <<storage, ca, due, pc, op, local>>

\* ... or else with what the CA says, if it is still cached.  The metadata is
\* then loaded from storage, ...
UpdateCachedARI ==
    /\ task["ari"] = "fetched"
    /\ IF mem[owner] = seen["ari"]
          THEN ari' = [ari EXCEPT ![owner] = mem[owner]] /\ TaskGoto("ari", "cached")
          ELSE TaskGoto("ari", "over") /\ UNCHANGED ari
    /\ UNCHANGED <<file, seen, owner, revoked, leaked, expired, force, mem, faults>>
    /\ UNCHANGED <<storage, ca, due, pc, op, local>>

LoadMeta ==
    /\ task["ari"] = "cached"
    /\ TaskGoto("ari", IF store[1].meta = 0 THEN "over" ELSE "write")
    /\ OnlyTask /\ UNCHANGED <<seen, revoked, leaked, faults>>

\* Mutant of StoreMeta: the resource is written back as it was loaded.
StoreWhole ==
    /\ task["ari"] = "write"
    /\ store' = [store EXCEPT ![1].meta = seen["ari"], ![1].cert = seen["ari"]]
    /\ TaskGoto("ari", "over")
    /\ UNCHANGED <<lock, faults, file, seen, owner, revoked, leaked, expired, force>>
    /\ UNCHANGED <<ca, due, pc, op, local, cached>>

\* ... and stored with the new renewal info, whatever is there by now.
StoreMeta ==
    /\ task["ari"] = "write"
    /\ store' = [store EXCEPT ![1].meta = seen["ari"]]
    /\ TaskGoto("ari", "over")
    /\ UNCHANGED <<lock, faults, file, seen, owner, revoked, leaked, expired, force>>
    /\ UNCHANGED <<ca, due, pc, op, local, cached>>

-----------------------------------------------------------------------------
(* forceRenew and moveCompromisedPrivateKey *)

Others == UNCHANGED <<tasks, revoked, leaked, expired>>

MoveGoto(p, l) == moving' = [moving EXCEPT ![p] = l]

\* Mutant of ForceRenew: a compromised key is no reason for another key.
ForceRenewAnyway(p) ==
    /\ pc[p] = "idle"
    /\ mem[p] \in revoked
    /\ forced' = [forced EXCEPT ![p] = TRUE]
    /\ GoOn(p, "renew", "lock")
    /\ UNCHANGED <<moved, moving>> /\ Others
    /\ UNCHANGED <<storage, ca, due, cached, faults>>

\* OCSP says that the cached certificate is revoked: it is renewed, or its key
\* moved away and a certificate obtained.
ForceRenew(p) ==
    /\ pc[p] = "idle"
    /\ mem[p] \in revoked
    /\ forced' = [forced EXCEPT ![p] = TRUE]
    /\ IF mem[p] \in leaked THEN GoOn(p, "obtain", "check") /\ MoveGoto(p, "copy")
                            ELSE GoOn(p, "renew", "lock") /\ UNCHANGED moving
    /\ UNCHANGED moved /\ Others
    /\ UNCHANGED <<storage, ca, due, cached, faults>>

\* The key is copied, if there is one.
CopyKey(p) ==
    /\ moving[p] = "copy"
    /\ IF store[1].key = 0 THEN MoveGoto(p, "no") /\ UNCHANGED moved
                           ELSE MoveGoto(p, "delete") /\ moved' = store[1].key
    /\ UNCHANGED forced /\ Others
    /\ UNCHANGED vars

\* The copy cannot be written: the key is deleted all the same.
CopyKeyFails(p) ==
    /\ Fault("store")
    /\ moving[p] = "copy" /\ store[1].key # 0
    /\ MoveGoto(p, "delete")
    /\ UNCHANGED <<moved, forced>> /\ Others
    /\ UNCHANGED <<storage, ca, due, pc, op, local, cached>>

\* The key is deleted, or an error is logged.  A certificate is obtained, not
\* renewed.
DeleteKey(p) ==
    /\ moving[p] = "delete"
    /\ \/ store' = [store EXCEPT ![1].key = 0] /\ UNCHANGED faults
       \/ Fault("delete") /\ UNCHANGED store
    /\ MoveGoto(p, "no")
    /\ UNCHANGED <<moved, forced>> /\ Others
    /\ UNCHANGED <<lock, ca, due, pc, op, local, cached>>

\* renewCert with force: it does not matter whether the certificate is due.
ForcedRenewLoaded(p) ==
    /\ forced[p] /\ pc[p] = "loaded" /\ op[p] = "renew"
    /\ Goto(p, IF best[p].cert = 0 THEN "failed" ELSE "issue")
    /\ UNCHANGED force /\ Others
    /\ UNCHANGED <<storage, ca, due, op, local, cached, faults>>

\* The forced renewal failed: the revoked certificate is no longer served.
ForcedFails(p) ==
    /\ forced[p] /\ pc[p] = "unlock" /\ ~ok[p]
    /\ lock' = NoInstance
    /\ mem' = [mem EXCEPT ![p] = 0] /\ ari' = [ari EXCEPT ![p] = 0]
    /\ End(p)
    /\ forced' = [forced EXCEPT ![p] = FALSE]
    /\ UNCHANGED <<moved, moving>> /\ Others
    /\ UNCHANGED <<store, ca, due, faults>>

\* Everything else an instance does is as in Issuance, where it may also crash
\* or fail to load a file.
Unforced(p) ==
    /\ moving[p] = "no"
    /\ InstanceStep(p) \/ GiveUp(p) \/ StoreFails(p)
    /\ ~(forced[p] /\ pc[p] = "loaded" /\ op[p] = "renew")
    /\ ~(forced[p] /\ pc[p] = "unlock" /\ ~ok[p])
    /\ forced' = [forced EXCEPT ![p] = @ /\ pc'[p] # "idle"]
    /\ UNCHANGED <<moved, moving>> /\ Others

-----------------------------------------------------------------------------
(* The environment *)

Unmoved == UNCHANGED <<tasks, force>>

\* The CA revokes a certificate by itself.
CARevokes ==
    /\ task["ca"] = "new" /\ issued > 0
    /\ RevokedByCA(issued)
    /\ TaskGoto("ca", "over")
    /\ OnlyTask /\ UNCHANGED <<seen, faults>>

\* The certificates that are due have not been renewed for long (it matters
\* to CleanStorage only).
Expire ==
    /\ expired < due /\ task["clean"] # "over"
    /\ expired' = due
    /\ Unmoved /\ UNCHANGED <<revoked, leaked, vars>>

TaskStep ==
    \/ RevokeLoad \/ RevokeAsk \/ RevokeDelete \/ RevokeDeleteFails \/ RevokeFolder
    \/ CleanStart \/ CleanLoad \/ CleanDelete \/ CleanDeleteFails \/ CleanList \/ CleanFolder
    \/ UpdateCachedARI \/ LoadMeta \/ StoreMeta \/ CARevokes

UpkeepNext ==
    \/ TaskStep
    \/ \E p \in Instance :
          \/ Unforced(p) \/ ForceRenew(p) \/ CopyKey(p) \/ CopyKeyFails(p) \/ DeleteKey(p)
          \/ ForcedRenewLoaded(p) \/ ForcedFails(p) \/ UpdateARI(p)
    \/ Expire
    \/ BecomeDue /\ Unmoved /\ UNCHANGED <<revoked, leaked, expired>>

UpkeepSpec == UpkeepInit /\ [][UpkeepNext]_upkeepVars

-----------------------------------------------------------------------------
(* Properties *)

\* While nobody saves, what is stored never pairs a certificate with the key
\* of another one: what the tasks delete and rewrite without the lock leaves a
\* file missing at worst, which a call of obtainCert repairs, and not a pair
\* that can be neither loaded nor obtained again.  (A roll back that fails does
\* leave such a pair, and so does a crash in the middle of a save.)
NeverMixed ==
    \/ \E p \in Instance : pc[p] \in {"save", "undo"}
    \/ {"store", "delete"} \subseteq faults
    \/ store[1].key = 0 \/ store[1].cert = 0
    \/ KeyPair(store[1])

\* RevokeCert's comment: "The certificate assets are deleted from storage
\* after successful revocation to prevent reuse".  Neither the certificate nor,
\* unless keys are reused, its key come back, whoever was loading, saving or
\* updating it at the time.
RevokedGone ==
    task["revoke"] = "done" =>
        /\ store[1].cert # seen["revoke"]
        /\ store[1].key # keyOf[seen["revoke"]] \/ reuse

\* updateARI has put metadata back that RevokeCert or CleanStorage deleted.
MetaRestored == owner # NoInstance /\ \E t \in {"revoke", "clean"} : file[t] = 4

\* The idempotency of issuing survives the upkeep: except for a forced
\* renewal, a certificate is issued only if the last one is due, was lost on
\* its way into storage or deleted from it, or has metadata that is not its own
\* or had been deleted.
IssuedUnderUpkeep ==
    [][issued' > issued =>
          \/ issued = due \/ ~LastIsKept \/ MetaRestored
          \/ \E p \in Instance : forced[p] /\ pc[p] = "issue" /\ pc'[p] = "save"]_upkeepVars

\* RevokeCert or CleanStorage has loaded a certificate it deletes.
SetToDelete == seen["revoke"] # 0 \/ task["clean"] = "delete" \/ file["clean"] > 1

\* forceRenew's comment: "we KNOW the old key is not safe", "so we'll have to
\* do an obtain instead".  The certificate an instance gets itself to replace
\* one with a compromised key has another key, even if keys are reused and
\* other instances renew meanwhile, unless single files are left behind by a
\* task that deletes the others or by a roll back that failed.
LeakedKeyReplaced ==
    [][\A p \in Instance :
          (forced[p] /\ mem[p] \in leaked /\ pc[p] = "issue" /\ pc'[p] = "save") =>
              \/ new'[p].files.key # keyOf[mem[p]]
              \/ SetToDelete
              \/ {"store", "delete"} \subseteq faults]_upkeepVars
=============================================================================
