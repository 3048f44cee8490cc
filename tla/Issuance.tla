------------------------------ MODULE Issuance ------------------------------
(***************************************************************************)
(* Obtaining and renewing the certificate of one name by several instances *)
(* that share a storage (config.go, crypto.go, maintain.go): manageOne and *)
(* the maintenance of a cached certificate, obtainCert and renewCert under *)
(* the storage lock, the three files of a certificate resource written one *)
(* by one (storeTx), and readers that take no lock.                        *)
(*                                                                         *)
(* The n-th certificate issued for the name is n, and so are its metadata  *)
(* and the private key generated for it; 0 is a file that does not exist   *)
(* and a certificate that is not there.  A certificate is newer than       *)
(* another when it was issued later (NotBefore).  Storage keeps every      *)
(* single file intact (atomicfile).  The storage lock is FileStorage's: it *)
(* is released by name, becomes free some time after its holder died, and  *)
(* may be lost (see FileLock).                                             *)
(***************************************************************************)
EXTENDS Integers, Sequences, FiniteSets

CONSTANTS
    Instance,
    IssuerCount,        \* len(cfg.Issuers)
    ReusePrivateKeys,   \* the values of cfg.ReusePrivateKeys to look at
    MaxIssued,          \* bound on the certificates issued in a behaviour
    FaultKind,          \* the faults that happen, each at most once
    MaxFaults,          \* bound on the faults in a behaviour
    NoInstance

ASSUME IssuersAssumption == IssuerCount \in Nat \ {0}
ASSUME ReuseAssumption == ReusePrivateKeys \subseteq BOOLEAN
ASSUME BoundAssumption == MaxIssued \in Nat /\ MaxFaults \in Nat
ASSUME FaultAssumption == FaultKind \subseteq {"crash", "load", "store", "delete", "lock"}
ASSUME NoInstanceAssumption == NoInstance \notin Instance

Files == <<"key", "cert", "meta">>
Version == 0 .. MaxIssued
Resource == [key : Version, cert : Version, meta : Version]
NoResource == [key |-> 0, cert |-> 0, meta |-> 0]
IssuerIndex == 1 .. IssuerCount

VARIABLES
    store,      \* the resource stored for each issuer
    lock,       \* the holder of the storage lock issue_cert_<name>
    issued,     \* how many certificates have been issued
    keyOf,      \* the private key of each of them
    reuse,      \* cfg.ReusePrivateKeys
    due,        \* the certificates up to this one are due for renewal
    pc, op,     \* where each instance is, and in which operation
    at, step,   \* the issuer and the file it is at
    got,        \* the files it has read for that issuer
    best,       \* the newest resource it has read
    new,        \* the resource it saves, with its issuer
    ok,         \* whether obtainCert or renewCert returns nil
    mem, ari,   \* the certificate in its cache, and whose renewal info it has
    faults      \* the faults so far (history)

storage == <<store, lock>>
ca == <<issued, keyOf, reuse>>
local == <<at, step, got, best, new, ok>>
cached == <<mem, ari>>
vars == <<store, lock, issued, keyOf, reuse, due, pc, op, at, step, got, best, new, ok, mem, ari,
          faults>>

\* The types of the variables (storage, CA and the operations of Config).
TypeOK ==
    /\ store \in [IssuerIndex -> Resource]
    /\ lock \in Instance \cup {NoInstance}
    /\ issued \in Version
    /\ keyOf \in [1 .. MaxIssued -> Version]
    /\ reuse \in BOOLEAN
    /\ due \in 0 .. issued
    /\ pc \in [Instance -> {"idle", "read", "loaded", "check", "lock", "attempt", "issue",
                            "save", "undo", "failed", "unlock"}]
    /\ op \in [Instance -> {"none", "manage", "obtain", "cache", "maintain", "renew", "reload"}]
    /\ at \in [Instance -> IssuerIndex]
    /\ step \in [Instance -> 1 .. 3]
    /\ got \in [Instance -> Resource]
    /\ best \in [Instance -> Resource]
    /\ new \in [Instance -> [issuer : IssuerIndex, files : Resource]]
    /\ ok \in [Instance -> BOOLEAN]
    /\ mem \in [Instance -> Version] /\ ari \in [Instance -> Version]
    /\ faults \subseteq FaultKind

NothingNew == [issuer |-> 1, files |-> NoResource]

Init ==
    /\ store = [i \in IssuerIndex |-> NoResource]
    /\ lock = NoInstance
    /\ issued = 0 /\ due = 0
    /\ keyOf = [n \in 1 .. MaxIssued |-> 0]
    /\ reuse \in ReusePrivateKeys
    /\ pc = [p \in Instance |-> "idle"] /\ op = [p \in Instance |-> "none"]
    /\ at = [p \in Instance |-> 1] /\ step = [p \in Instance |-> 1]
    /\ got = [p \in Instance |-> NoResource] /\ best = [p \in Instance |-> NoResource]
    /\ new = [p \in Instance |-> NothingNew]
    /\ ok = [p \in Instance |-> FALSE]
    /\ mem = [p \in Instance |-> 0] /\ ari = [p \in Instance |-> 0]
    /\ faults = {}

Goto(p, l) == pc' = [pc EXCEPT ![p] = l]
Become(p, o) == op' = [op EXCEPT ![p] = o]

\* The local variables at the start of an operation.
Clear(p) ==
    /\ at' = [at EXCEPT ![p] = 1] /\ step' = [step EXCEPT ![p] = 1]
    /\ got' = [got EXCEPT ![p] = NoResource] /\ best' = [best EXCEPT ![p] = NoResource]
    /\ new' = [new EXCEPT ![p] = NothingNew]
    /\ ok' = [ok EXCEPT ![p] = FALSE]

Fault(kind) ==
    /\ kind \in FaultKind \ faults
    /\ Cardinality(faults) < MaxFaults
    /\ faults' = faults \cup {kind}

\* The certificate is due, or the renewal info in the metadata says so: that
\* may be the metadata of another certificate.
NeedsRenewal(c, m) == c <= due \/ m <= due
Complete(r) == r.key # 0 /\ r.cert # 0 /\ r.meta # 0

\* tls.X509KeyPair accepts the certificate and the key.
KeyPair(r) == r.cert # 0 /\ r.key = keyOf[r.cert]

\* A resource that has been loaded gets into the cache, or cannot be used.
Cache(p, r) ==
    /\ mem' = [mem EXCEPT ![p] = IF KeyPair(r) THEN r.cert ELSE @]
    /\ ari' = [ari EXCEPT ![p] = IF KeyPair(r) THEN r.meta ELSE @]

-----------------------------------------------------------------------------
(* loadCertResourceAnyIssuer: file by file, without a lock *)

\* The resource with the later NotBefore.
Newer(r, s) == IF s.cert > r.cert THEN s ELSE r

\* The next file of the issuer at hand is loaded.  A missing one ends the
\* loading for this issuer, a complete resource is compared with the others.
ReadFile(p) ==
    /\ pc[p] = "read"
    /\ LET v == store[at[p]][Files[step[p]]]
           r == [got[p] EXCEPT ![Files[step[p]]] = v]
           last == v = 0 \/ step[p] = 3
       IN /\ best' = [best EXCEPT ![p] = IF v # 0 /\ last THEN Newer(@, r) ELSE @]
          /\ got' = [got EXCEPT ![p] = IF last THEN NoResource ELSE r]
          /\ step' = [step EXCEPT ![p] = IF last THEN 1 ELSE @ + 1]
          /\ IF last /\ at[p] = IssuerCount
                THEN at' = [at EXCEPT ![p] = 1] /\ Goto(p, "loaded")
                ELSE at' = [at EXCEPT ![p] = IF last THEN @ + 1 ELSE @] /\ UNCHANGED pc
    /\ UNCHANGED <<storage, ca, due, op, new, ok, cached, faults>>

\* The operation is over, or goes on as operation o from l.
End(p) == Goto(p, "idle") /\ Become(p, "none") /\ Clear(p)
GoOn(p, o, l) == Goto(p, l) /\ Become(p, o) /\ Clear(p)

\* Storage fails to load a file: the operation ends with that error, which
\* inside an obtain or renew is a failed attempt.  A failed check of storage
\* by the maintenance does not keep it from renewing.
ReadFails(p) ==
    /\ Fault("load")
    /\ pc[p] = "read"
    /\ CASE op[p] = "renew" -> Goto(p, "failed") /\ UNCHANGED op /\ Clear(p)
         [] op[p] = "maintain" -> GoOn(p, "renew", "lock")
         [] OTHER -> End(p)
    /\ UNCHANGED <<storage, ca, due, cached>>

-----------------------------------------------------------------------------
(* manageOne and RenewManagedCertificates *)

\* manageOne starts: the certificate is not in the cache.
Manage(p) ==
    /\ pc[p] = "idle"
    /\ mem[p] = 0
    /\ GoOn(p, "manage", "read")
    /\ UNCHANGED <<storage, ca, due, cached, faults>>

\* manageOne has tried to load the certificate: it obtains one if there is
\* none, and renews the one it has loaded if it is due.
ManageLoaded(p) ==
    /\ pc[p] = "loaded" /\ op[p] = "manage"
    /\ \/ /\ best[p].cert = 0
          /\ GoOn(p, "obtain", "check")
          /\ UNCHANGED cached
       \/ /\ best[p].cert # 0 /\ ~KeyPair(best[p])
          /\ End(p)
          /\ UNCHANGED cached
       \/ /\ KeyPair(best[p])
          /\ Cache(p, best[p])
          /\ IF NeedsRenewal(best[p].cert, best[p].meta) THEN GoOn(p, "renew", "lock") ELSE End(p)
    /\ UNCHANGED <<storage, ca, due, faults>>

\* RenewManagedCertificates finds the cached certificate due and looks what
\* storage has.
Maintain(p) ==
    /\ pc[p] = "idle"
    /\ mem[p] # 0 /\ NeedsRenewal(mem[p], ari[p])
    /\ GoOn(p, "maintain", "read")
    /\ UNCHANGED <<storage, ca, due, cached, faults>>

\* Mutant of MaintainLoaded: whatever storage has is reloaded.
ReloadAlways(p) ==
    /\ pc[p] = "loaded" /\ op[p] = "maintain"
    /\ IF best[p].cert # 0 THEN GoOn(p, "reload", "read") ELSE GoOn(p, "renew", "lock")
    /\ UNCHANGED <<storage, ca, due, cached, faults>>

\* A stored certificate that is not due is reloaded; otherwise, or if there
\* was none, the certificate is renewed.
MaintainLoaded(p) ==
    /\ pc[p] = "loaded" /\ op[p] = "maintain"
    /\ IF best[p].cert # 0 /\ ~NeedsRenewal(best[p].cert, best[p].meta)
          THEN GoOn(p, "reload", "read")
          ELSE GoOn(p, "renew", "lock")
    /\ UNCHANGED <<storage, ca, due, cached, faults>>

\* Mutant of CacheLoaded: the first issuer's certificate is preferred.
CacheFirstIssuer(p) ==
    /\ pc[p] = "loaded" /\ op[p] \in {"cache", "reload"}
    /\ Cache(p, IF KeyPair(store[1]) THEN store[1] ELSE best[p])
    /\ End(p)
    /\ UNCHANGED <<storage, ca, due, faults>>

\* CacheManagedCertificate after an obtain, and reloadManagedCertificate.
CacheLoaded(p) ==
    /\ pc[p] = "loaded" /\ op[p] \in {"cache", "reload"}
    /\ Cache(p, best[p])
    /\ End(p)
    /\ UNCHANGED <<storage, ca, due, faults>>

-----------------------------------------------------------------------------
(* obtainCert and renewCert *)

StorageHasCertResources(i) == Complete(store[i])
StorageHasCertResourcesAnyIssuer == \E i \in IssuerIndex : StorageHasCertResources(i)

\* obtainCert is a no-op if storage has the resource.
ObtainCheck(p) ==
    /\ pc[p] = "check"
    /\ IF StorageHasCertResourcesAnyIssuer THEN GoOn(p, "cache", "read")
                                           ELSE Goto(p, "lock") /\ UNCHANGED <<op, local>>
    /\ UNCHANGED <<storage, ca, due, cached, faults>>

AcquireLock(p) ==
    /\ pc[p] = "lock"
    /\ lock = NoInstance
    /\ lock' = p
    /\ Goto(p, "attempt")
    /\ UNCHANGED <<store, ca, due, op, local, cached, faults>>

\* The key reusePrivateKey finds: the first issuer's that has one.
ReusableKey ==
    IF \E i \in IssuerIndex : store[i].key # 0
       THEN store[CHOOSE i \in IssuerIndex :
                     /\ store[i].key # 0
                     /\ \A j \in 1 .. i - 1 : store[j].key = 0].key
       ELSE 0

\* Mutant of AttemptObtain: storage is not looked at again under the lock.
ObtainWithoutRecheck(p) ==
    /\ pc[p] = "attempt" /\ op[p] = "obtain"
    /\ Goto(p, "issue")
    /\ best' = [best EXCEPT ![p].key = ReusableKey]
    /\ UNCHANGED <<storage, ca, due, op, at, step, got, new, ok, cached, faults>>

\* An attempt to obtain: the resource may be there by now.
AttemptObtain(p) ==
    /\ pc[p] = "attempt" /\ op[p] = "obtain"
    /\ IF StorageHasCertResourcesAnyIssuer
          THEN Goto(p, "unlock") /\ ok' = [ok EXCEPT ![p] = TRUE] /\ UNCHANGED best
          ELSE /\ Goto(p, "issue")
               /\ best' = [best EXCEPT ![p].key = ReusableKey]
               /\ UNCHANGED ok
    /\ UNCHANGED <<storage, ca, due, op, at, step, got, new, cached, faults>>

\* An attempt to renew starts by loading the resource ...
AttemptRenew(p) ==
    /\ pc[p] = "attempt" /\ op[p] = "renew"
    /\ Goto(p, "read")
    /\ Clear(p)
    /\ UNCHANGED <<storage, ca, due, op, cached, faults>>

\* Mutant of RenewLoaded: it is not asked whether a renewal is still needed.
RenewWithoutRecheck(p) ==
    /\ pc[p] = "loaded" /\ op[p] = "renew"
    /\ IF best[p].cert = 0 THEN Goto(p, "failed") ELSE Goto(p, "issue")
    /\ UNCHANGED <<storage, ca, due, op, local, cached, faults>>

\* ... and does nothing more if it has been renewed already.
RenewLoaded(p) ==
    /\ pc[p] = "loaded" /\ op[p] = "renew"
    /\ \/ /\ best[p].cert = 0
          /\ Goto(p, "failed")
          /\ UNCHANGED ok
       \/ /\ best[p].cert # 0 /\ ~NeedsRenewal(best[p].cert, best[p].meta)
          /\ Goto(p, "unlock")
          /\ ok' = [ok EXCEPT ![p] = TRUE]
       \/ /\ best[p].cert # 0 /\ NeedsRenewal(best[p].cert, best[p].meta)
          /\ Goto(p, "issue")
          /\ UNCHANGED ok
    /\ UNCHANGED <<storage, ca, due, op, at, step, got, best, new, cached, faults>>

\* One of the issuers issues a certificate, for the reused key or a new one.
Issue(p, i) ==
    /\ pc[p] = "issue"
    /\ issued < MaxIssued
    /\ issued' = issued + 1
    /\ LET k == IF reuse /\ best[p].key # 0 THEN best[p].key ELSE issued' IN
          /\ keyOf' = [keyOf EXCEPT ![issued'] = k]
          /\ new' = [new EXCEPT ![p] =
                [issuer |-> i, files |-> [key |-> k, cert |-> issued', meta |-> issued']]]
    /\ Goto(p, "save")
    /\ UNCHANGED <<storage, reuse, due, op, at, step, got, best, ok, cached, faults>>

\* An event handler objects, or every issuer fails.
IssueFails(p) ==
    /\ pc[p] = "issue"
    /\ Goto(p, "failed")
    /\ UNCHANGED <<storage, ca, due, op, local, cached, faults>>

\* Mutant of StoreFile: the metadata is left out.
SaveWithoutMeta(p) ==
    /\ pc[p] = "save"
    /\ LET f == Files[step[p]] IN
          store' = [store EXCEPT ![new[p].issuer][f] = new[p].files[f]]
    /\ IF step[p] = 2
          THEN Goto(p, "unlock") /\ ok' = [ok EXCEPT ![p] = TRUE] /\ UNCHANGED step
          ELSE step' = [step EXCEPT ![p] = @ + 1] /\ UNCHANGED <<pc, ok>>
    /\ UNCHANGED <<lock, ca, due, op, at, got, best, new, cached, faults>>

\* storeTx stores the next file.
StoreFile(p) ==
    /\ pc[p] = "save"
    /\ LET f == Files[step[p]] IN
          store' = [store EXCEPT ![new[p].issuer][f] = new[p].files[f]]
    /\ IF step[p] = 3
          THEN Goto(p, "unlock") /\ ok' = [ok EXCEPT ![p] = TRUE] /\ UNCHANGED step
          ELSE step' = [step EXCEPT ![p] = @ + 1] /\ UNCHANGED <<pc, ok>>
    /\ UNCHANGED <<lock, ca, due, op, at, got, best, new, cached, faults>>

\* Storing a file fails.  The ones before it are deleted, last one first.
StoreFails(p) ==
    /\ Fault("store")
    /\ pc[p] = "save"
    /\ IF step[p] = 1
          THEN Goto(p, "failed") /\ UNCHANGED step
          ELSE Goto(p, "undo") /\ step' = [step EXCEPT ![p] = @ - 1]
    /\ UNCHANGED <<storage, ca, due, op, at, got, best, new, ok, cached>>

\* The result of a deletion is ignored.
UndoStore(p) ==
    /\ pc[p] = "undo"
    /\ \/ /\ store' = [store EXCEPT ![new[p].issuer][Files[step[p]]] = 0]
          /\ UNCHANGED faults
       \/ /\ Fault("delete")
          /\ UNCHANGED store
    /\ IF step[p] = 1
          THEN Goto(p, "failed") /\ UNCHANGED step
          ELSE step' = [step EXCEPT ![p] = @ - 1] /\ UNCHANGED pc
    /\ UNCHANGED <<lock, ca, due, op, at, got, best, new, ok, cached>>

\* doWithRetry tries again ...
Retry(p) ==
    /\ pc[p] = "failed"
    /\ Goto(p, "attempt")
    /\ Clear(p)
    /\ UNCHANGED <<storage, ca, due, op, cached, faults>>

\* ... unless the call is interactive, is cancelled or must not be retried;
\* after maxRetryDuration it gives up and returns nil.
GiveUp(p) ==
    /\ pc[p] = "failed"
    /\ \E result \in BOOLEAN : ok' = [ok EXCEPT ![p] = result]
    /\ Goto(p, "unlock")
    /\ UNCHANGED <<storage, ca, due, op, at, step, got, best, new, cached, faults>>

\* The deferred releaseLock, which frees the lock whoever has it, and what
\* the caller does: it loads the certificate if there was no error.
Unlock(p) ==
    /\ pc[p] = "unlock"
    /\ lock' = NoInstance
    /\ IF ok[p] THEN GoOn(p, IF op[p] = "obtain" THEN "cache" ELSE "reload", "read")
                ELSE End(p)
    /\ UNCHANGED <<store, ca, due, cached, faults>>

-----------------------------------------------------------------------------
(* The environment *)

\* The certificates issued so far come into their renewal window.
BecomeDue ==
    /\ due < issued
    /\ due' = issued
    /\ UNCHANGED <<storage, ca, pc, op, local, cached, faults>>

\* An instance is killed at any point, and started again.
Crash(p) ==
    /\ Fault("crash")
    /\ pc[p] # "idle"
    /\ End(p)
    /\ mem' = [mem EXCEPT ![p] = 0] /\ ari' = [ari EXCEPT ![p] = 0]
    /\ UNCHANGED <<storage, ca, due>>

\* The instance is between acquireLock and releaseLock.
Locked(p) ==
    \/ pc[p] \in {"attempt", "issue", "save", "undo", "failed", "unlock"}
    \/ pc[p] \in {"read", "loaded"} /\ op[p] = "renew"

\* Mutant of LockExpires: a stale lock is waited for like any other.
LockNeverStale ==
    /\ lock # NoInstance
    /\ ~Locked(lock)
    /\ UNCHANGED vars

\* The lock of an instance that died becomes stale.
LockExpires ==
    /\ lock # NoInstance
    /\ ~Locked(lock)
    /\ lock' = NoInstance
    /\ UNCHANGED <<store, ca, due, pc, op, local, cached, faults>>

\* The lock of a live instance is taken for stale and removed.
LockIsLost ==
    /\ Fault("lock")
    /\ lock # NoInstance
    /\ lock' = NoInstance
    /\ UNCHANGED <<store, ca, due, pc, op, local, cached>>

\* The steps an operation takes by itself.
OperationStep(p) ==
    \/ ReadFile(p) \/ ManageLoaded(p) \/ MaintainLoaded(p) \/ CacheLoaded(p)
    \/ ObtainCheck(p) \/ AcquireLock(p) \/ AttemptObtain(p) \/ AttemptRenew(p)
    \/ RenewLoaded(p) \/ StoreFile(p) \/ UndoStore(p) \/ Retry(p) \/ Unlock(p)

Issues(p) == \E i \in IssuerIndex : Issue(p, i)

InstanceStep(p) ==
    Manage(p) \/ Maintain(p) \/ OperationStep(p) \/ Issues(p) \/ IssueFails(p)

Next ==
    \/ \E p \in Instance :
          \/ InstanceStep(p) \/ GiveUp(p)
          \/ ReadFails(p) \/ StoreFails(p) \/ Crash(p)
    \/ BecomeDue \/ LockExpires \/ LockIsLost

Spec == Init /\ [][Next]_vars

\* Instances run, an idle one goes on trying to manage its certificate, and
\* an issuer answers.  Instances get the lock in some fair order, stale locks
\* are removed, issuers that are asked again and again, by whichever instance,
\* issue in the end, and retries are given up in the end.
Fairness ==
    /\ \A p \in Instance :
          /\ WF_vars(InstanceStep(p))
          /\ SF_vars(AcquireLock(p)) /\ SF_vars(GiveUp(p))
    /\ SF_vars(\E p \in Instance : Issues(p))
    /\ WF_vars(LockExpires)

FairSpec == Spec /\ Fairness

-----------------------------------------------------------------------------
(* Properties *)

\* No lock of a live instance has been removed.
LockReliable == "lock" \notin faults

\* The last certificate issued is in storage, with its own metadata, or on
\* its way there.
LastIsKept ==
    \/ \E i \in IssuerIndex : store[i].cert = issued /\ Complete(store[i]) /\ store[i].meta = issued
    \/ \E p \in Instance : pc[p] = "save" /\ new[p].files.cert = issued

\* "ensure idempotency" (the comment at the lock): a certificate is issued
\* only if the last one is due or was lost on its way into storage.  Two
\* instances that find the certificate missing or due at the same time do not
\* both get a new one, whichever issuers answer them and whatever crashes.
IssuedOnlyIfNeeded ==
    [][(issued' > issued /\ LockReliable) => (issued = due \/ ~LastIsKept)]_vars

\* While nobody is saving, every stored resource is a whole one: three files
\* of the same issuance.
StoredResourcesWhole ==
    (faults \subseteq {"load"} /\ \A p \in Instance : pc[p] # "save") =>
        \A i \in IssuerIndex :
            \/ store[i] = NoResource
            \/ KeyPair(store[i]) /\ store[i].meta = store[i].cert

\* An instance never replaces its certificate by an older one, although it
\* reads three files per issuer while other instances write or abandon them:
\* a reader gets a newer certificate than the one it had, the same one, or an
\* error.  (With several issuers, a rolled back renewal may leave an older
\* certificate of another issuer as the newest complete one.)
NeverOlder ==
    [][(LockReliable /\ (IssuerCount > 1 => "store" \notin faults)) =>
          \A p \in Instance : mem'[p] < mem[p] => mem'[p] = 0]_vars

\* Every operation comes to an end, and with it the wait for the lock: no
\* instance waits for ever for another one, dead or alive.
OperationsEnd ==
    \A p \in Instance : pc[p] # "idle" ~> pc[p] = "idle"

\* Somebody wants a certificate that the bound does not allow.
AtBound == issued = MaxIssued /\ \E p \in Instance : pc[p] = "issue"

\* A save that was cut off has left a certificate with the key of another
\* one: it cannot be loaded, and is taken for a complete resource.
CutOff == \E i \in IssuerIndex : Complete(store[i]) /\ ~KeyPair(store[i])

\* ManageAsync's comment: "If there are failures loading, obtaining, or
\* renewing a certificate, it will be retried".  An instance stays neither
\* without a certificate nor with one that is due for ever (up to the bound on
\* certificates), whatever crashes, cannot be read or loses its lock, unless a
\* save was cut off for good or a file could not be stored.
CertificateIsServed ==
    \A p \in Instance :
        \/ <>[]CutOff
        \/ []<>(\/ mem[p] # 0 /\ ~NeedsRenewal(mem[p], ari[p])
                \/ AtBound \/ "store" \in faults)
=============================================================================
