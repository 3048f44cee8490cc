--------------------------- MODULE IssuanceProof ---------------------------
(***************************************************************************)
(* Proofs about Issuance, for any set of instances, any number of issuers, *)
(* certificates and faults: nothing is issued without need, what is stored *)
(* is whole, and no instance goes back to an older certificate.            *)
(*                                                                         *)
(* The first two rest on the storage lock (Exclusive): whoever is between  *)
(* acquireLock and releaseLock is the one the lock names, as long as no    *)
(* lock of a live instance is taken for stale, whatever crashes.  So what  *)
(* a renewal has read under the lock is still what storage has when it     *)
(* decides (LookedAt), and a save is alone in writing (Saved).  The third  *)
(* one is about readers without a lock: what they have read so far is no   *)
(* newer than what storage will have from now on (Kept, HighWater).        *)
(***************************************************************************)
EXTENDS Issuance, WellFoundedInduction, TLAPS

-----------------------------------------------------------------------------
(* The inductive invariant *)

\* What the operation of an instance can be where it is.
InOperation(p) ==
    /\ pc[p] \in {"lock", "attempt", "issue", "save", "undo", "failed", "unlock"} =>
          op[p] \in {"obtain", "renew"}
    /\ pc[p] = "check" => op[p] = "obtain"
    /\ pc[p] \in {"lock", "check", "attempt", "issue"} => step[p] = 1
    /\ pc[p] = "loaded" => step[p] = 1
    /\ pc[p] = "idle" => op[p] = "none"
    /\ pc[p] \in {"read", "loaded"} => op[p] \in {"manage", "cache", "maintain", "renew", "reload"}
    /\ op[p] \in {"manage", "obtain", "cache"} => mem[p] = 0
    /\ pc[p] = "undo" => "store" \in faults

\* Nothing comes from the future ...
NotAhead ==
    /\ \A i \in IssuerIndex : store[i].cert <= issued
    /\ \A p \in Instance :
          /\ got[p].cert <= issued /\ best[p].cert <= issued /\ mem[p] <= issued
          /\ new[p].files.cert <= issued

\* ... and what is being saved belongs together.
Belongs ==
    \A p \in Instance : pc[p] = "save" =>
        /\ KeyPair(new[p].files) /\ new[p].files.meta = new[p].files.cert
        /\ new[p].files.key # 0

\* The instances between acquireLock and releaseLock have the lock.
Exclusive == LockReliable => \A p \in Instance : Locked(p) => lock = p

\* What is being saved is the last certificate, and what has been saved of it
\* is in storage.
Saved ==
    LockReliable =>
        \A p \in Instance : pc[p] = "save" =>
            LET r == store[new[p].issuer]  n == new[p].files IN
            /\ n.cert = issued
            /\ step[p] > 1 => r.key = n.key
            /\ step[p] > 2 => r.cert = n.cert
            /\ \A j \in IssuerIndex : store[j].cert = issued => j = new[p].issuer

\* A certificate is stored for one issuer only.
Unique ==
    LockReliable =>
        \A i, j \in IssuerIndex : (store[i].cert = store[j].cert /\ store[i].cert # 0) => i = j

\* A resource of storage that is whole, or not there.
Whole(r) == r = NoResource \/ (KeyPair(r) /\ r.meta = r.cert)

\* Only the resource that is being saved is not whole.
WholeOrSaved ==
    faults \subseteq {"load"} =>
        \A i \in IssuerIndex :
            Whole(store[i]) \/ \E p \in Instance : pc[p] = "save" /\ new[p].issuer = i

\* What a renewal has read under the lock: the newest of what is there.
LookedAt(p) ==
    /\ pc[p] = "read" =>
          /\ step[p] > 1 => got[p].key = store[at[p]].key
          /\ step[p] > 2 => got[p].cert = store[at[p]].cert
    /\ best[p].cert # 0 => \E j \in IssuerIndex : best[p] = store[j]
    /\ \A j \in IssuerIndex :
          (Complete(store[j]) /\ (pc[p] = "read" => j < at[p])) => store[j].cert <= best[p].cert

\* An instance about to issue has found that it has to.
Needed(p) ==
    /\ op[p] = "obtain" => ~StorageHasCertResourcesAnyIssuer
    /\ op[p] = "renew" => NeedsRenewal(best[p].cert, best[p].meta)

Looked ==
    LockReliable =>
        \A p \in Instance :
            /\ (op[p] = "renew" /\ pc[p] \in {"read", "loaded", "issue"}) => LookedAt(p)
            /\ pc[p] = "issue" => Needed(p)

\* No file is ever deleted, so storage gets no older.
Steady == LockReliable /\ "store" \notin faults

\* There is a complete resource at least as new as c.
Holds(i, c) == Complete(store[i]) /\ store[i].cert >= c

\* What instances have read or have cached is in storage, or something newer.
Kept ==
    Steady =>
        \A p \in Instance :
            /\ mem[p] # 0 => \E i \in IssuerIndex : Holds(i, mem[p])
            /\ best[p].cert # 0 => \E i \in IssuerIndex : Holds(i, best[p].cert)
            /\ pc[p] = "read" =>
                  /\ step[p] > 1 => store[at[p]].key # 0
                  /\ step[p] > 2 => store[at[p]].cert # 0 /\ got[p].cert <= store[at[p]].cert

\* A reload that has come past the issuer that has it has found the cached
\* certificate, or a newer one.
ReloadKept ==
    Steady =>
        \A p \in Instance : (op[p] = "reload" /\ mem[p] # 0) =>
            \E i \in IssuerIndex :
                /\ Holds(i, mem[p])
                /\ (pc[p] = "loaded" \/ i < at[p]) => best[p].cert >= mem[p]
                /\ (pc[p] = "read" /\ at[p] = i /\ step[p] > 2) => got[p].cert >= mem[p]

\* With one issuer, a certificate that is in storage is at least as new as
\* any that has been read.
Alone == LockReliable /\ IssuerCount = 1

HighWater ==
    Alone =>
        \A i \in IssuerIndex, p \in Instance : store[i].cert # 0 =>
            mem[p] <= store[i].cert /\ best[p].cert <= store[i].cert /\ got[p].cert <= store[i].cert

ReloadAlone ==
    Alone =>
        \A p \in Instance : op[p] = "reload" =>
            /\ best[p].cert # 0 => best[p].cert >= mem[p]
            /\ got[p].cert # 0 => got[p].cert >= mem[p]

IInv ==
    /\ TypeOK
    /\ \A p \in Instance : InOperation(p)
    /\ NotAhead /\ Belongs /\ Exclusive /\ Saved /\ Unique /\ WholeOrSaved /\ Looked
    /\ Kept /\ ReloadKept /\ HighWater /\ ReloadAlone

-----------------------------------------------------------------------------
(* The files of a resource *)

\* A set of numbers has a least one (the first issuer that has a key).
LEMMA LeastNumber ==
    ASSUME NEW S \in SUBSET Nat, S # {}
    PROVE  \E m \in S : \A j \in S : m <= j
  <1> DEFINE R == OpToRel(<, Nat)
  <1>1. \E m \in S : \A j \in S : ~(<<j, m>> \in R)
    <2>1. IsWellFoundedOn(R, Nat)
      BY NatLessThanWellFounded, Zenon
    <2> HIDE DEF R
    <2> QED BY <2>1, WFMin, Zenon
  <1>2. \A m, j \in S : ~(<<j, m>> \in R) => m <= j
    BY DEF OpToRel
  <1> QED BY <1>1, <1>2, Zenon

\* The order in which saveCertResource stores the files.
LEMMA FileNames == Files[1] = "key" /\ Files[2] = "cert" /\ Files[3] = "meta"
  BY Zenon DEF Files

\* A resource with its n-th file replaced.
LEMMA FileSet ==
    ASSUME NEW r \in Resource, NEW v \in Version, NEW n \in 1 .. 3
    PROVE  /\ [r EXCEPT ![Files[n]] = v] \in Resource
           /\ [r EXCEPT ![Files[n]] = v].key = IF n = 1 THEN v ELSE r.key
           /\ [r EXCEPT ![Files[n]] = v].cert = IF n = 2 THEN v ELSE r.cert
           /\ [r EXCEPT ![Files[n]] = v].meta = IF n = 3 THEN v ELSE r.meta
  <1>1. CASE n = 1
    BY <1>1, FileNames, Zenon DEF Resource
  <1>2. CASE n = 2
    BY <1>2, FileNames, Zenon DEF Resource
  <1>3. CASE n = 3
    BY <1>3, FileNames, Zenon DEF Resource
  <1> QED BY <1>1, <1>2, <1>3

\* Its n-th file.
LEMMA FileGet ==
    ASSUME NEW r \in Resource, NEW n \in 1 .. 3
    PROVE  /\ r[Files[n]] = IF n = 1 THEN r.key ELSE IF n = 2 THEN r.cert ELSE r.meta
           /\ r[Files[n]] \in Version
  <1>1. CASE n = 1
    BY <1>1, FileNames, Zenon DEF Resource
  <1>2. CASE n = 2
    BY <1>2, FileNames, Zenon DEF Resource
  <1>3. CASE n = 3
    BY <1>3, FileNames, Zenon DEF Resource
  <1> QED BY <1>1, <1>2, <1>3

\* Resources are what their files are.
LEMMA ResourceEqual ==
    ASSUME NEW r \in Resource, NEW s \in Resource,
           r.key = s.key, r.cert = s.cert, r.meta = s.meta
    PROVE  r = s
  BY DEF Resource

\* A resource may be missing altogether.
LEMMA NothingIsResource ==
    /\ 0 \in Version
    /\ NoResource \in Resource
    /\ NoResource.key = 0 /\ NoResource.cert = 0 /\ NoResource.meta = 0
    /\ 1 \in IssuerIndex
    /\ NothingNew \in [issuer : IssuerIndex, files : Resource]
  BY IssuersAssumption, BoundAssumption
     DEF NoResource, Resource, Version, NothingNew, IssuerIndex

-----------------------------------------------------------------------------
(* Types *)

StoreOK == store \in [IssuerIndex -> Resource]
SharedOK ==
    /\ lock \in Instance \cup {NoInstance}
    /\ issued \in Version /\ keyOf \in [1 .. MaxIssued -> Version] /\ reuse \in BOOLEAN
    /\ due \in 0 .. issued /\ faults \subseteq FaultKind
PlacesOK ==
    /\ pc \in [Instance -> {"idle", "read", "loaded", "check", "lock", "attempt", "issue",
                            "save", "undo", "failed", "unlock"}]
    /\ op \in [Instance -> {"none", "manage", "obtain", "cache", "maintain", "renew", "reload"}]
StepsOK == at \in [Instance -> IssuerIndex] /\ step \in [Instance -> 1 .. 3]
ReadOK == got \in [Instance -> Resource] /\ best \in [Instance -> Resource]
NewOK == new \in [Instance -> [issuer : IssuerIndex, files : Resource]] /\ ok \in [Instance -> BOOLEAN]
CachedOK == mem \in [Instance -> Version] /\ ari \in [Instance -> Version]

\* The type invariant, by the variables that change together.
LEMMA TypesSplit ==
    /\ TypeOK <=> StoreOK /\ SharedOK /\ PlacesOK /\ StepsOK /\ ReadOK /\ NewOK /\ CachedOK
    /\ TypeOK' <=> (StoreOK /\ SharedOK /\ PlacesOK /\ StepsOK /\ ReadOK /\ NewOK /\ CachedOK)'
  BY Zenon DEF TypeOK, StoreOK, SharedOK, PlacesOK, StepsOK, ReadOK, NewOK, CachedOK

\* What Clear does.
LEMMA ClearTypes ==
    ASSUME StepsOK, ReadOK, NewOK, NEW p \in Instance, Clear(p)
    PROVE  StepsOK' /\ ReadOK' /\ NewOK'
  <1>1. StepsOK'
    BY NothingIsResource DEF StepsOK, Clear
  <1>2. ReadOK'
    BY NothingIsResource, Zenon DEF ReadOK, Clear
  <1>3. NewOK'
    BY NothingIsResource, Zenon DEF NewOK, Clear
  <1> QED BY <1>1, <1>2, <1>3, Zenon

\* An operation that ends or goes on as another one.
LEMMA GoOnTypes ==
    ASSUME PlacesOK, StepsOK, ReadOK, NewOK, NEW p \in Instance,
           \/ End(p)
           \/ \E o \in {"obtain", "renew", "manage", "maintain", "cache", "reload"},
                 l \in {"check", "lock", "read"} : GoOn(p, o, l)
    PROVE  PlacesOK' /\ StepsOK' /\ ReadOK' /\ NewOK'
  <1>1. Clear(p)
    BY Zenon DEF End, GoOn
  <1>2. PlacesOK'
    BY DEF End, GoOn, PlacesOK, Goto, Become
  <1> QED BY <1>1, <1>2, ClearTypes, Zenon

\* A step of an instance to another place in its operation.
LEMMA GotoTypes ==
    ASSUME PlacesOK, NEW p \in Instance,
           \/ UNCHANGED pc
           \/ \E l \in {"read", "loaded", "lock", "attempt", "issue", "save", "undo", "failed",
                        "unlock"} : Goto(p, l),
           UNCHANGED op
    PROVE  PlacesOK'
  BY Zenon DEF PlacesOK, Goto

\* Caching a resource leaves the types of the cache.
LEMMA CacheTypes ==
    ASSUME CachedOK, NEW p \in Instance, NEW r \in Resource, Cache(p, r)
    PROVE  CachedOK'
  <1>1. r.cert \in Version /\ r.meta \in Version
    BY Zenon DEF Resource
  <1> QED BY <1>1, Zenon DEF Cache, CachedOK

\* What does not change keeps its type.
LEMMA UnchangedTypes ==
    /\ (StoreOK /\ UNCHANGED store) => StoreOK'
    /\ (SharedOK /\ UNCHANGED <<lock, ca, due, faults>>) => SharedOK'
    /\ (StepsOK /\ UNCHANGED <<at, step>>) => StepsOK'
    /\ (ReadOK /\ UNCHANGED <<got, best>>) => ReadOK'
    /\ (NewOK /\ UNCHANGED <<new, ok>>) => NewOK'
    /\ (CachedOK /\ UNCHANGED cached) => CachedOK'
  BY Zenon DEF StoreOK, SharedOK, StepsOK, ReadOK, NewOK, CachedOK, ca, cached

\* A fault adds to the kinds of fault seen, and may cost the lock.
LEMMA FaultTypes ==
    ASSUME SharedOK, NEW k, Fault(k), lock' \in {lock, NoInstance}, UNCHANGED <<ca, due>>
    PROVE  SharedOK'
  BY Zenon DEF SharedOK, Fault, ca

-----------------------------------------------------------------------------
(* Reading a file *)

NextIssuer(p) ==
    /\ got' = [got EXCEPT ![p] = NoResource]
    /\ step' = [step EXCEPT ![p] = 1]
    /\ \/ at[p] = IssuerCount /\ at' = [at EXCEPT ![p] = 1] /\ Goto(p, "loaded")
       \/ at[p] # IssuerCount /\ at' = [at EXCEPT ![p] = @ + 1] /\ UNCHANGED pc

\* The file is missing ...
ReadNothing(p) ==
    /\ NextIssuer(p)
    /\ UNCHANGED best

\* ... or is the key or the certificate ...
ReadMore(p) ==
    /\ \/ /\ step[p] = 1 /\ store[at[p]].key # 0
          /\ got'[p].key = store[at[p]].key /\ got'[p].cert = got[p].cert
       \/ /\ step[p] = 2 /\ store[at[p]].cert # 0
          /\ got'[p].key = got[p].key /\ got'[p].cert = store[at[p]].cert
    /\ got' = [got EXCEPT ![p] = got'[p]] /\ got'[p] \in Resource
    /\ step' = [step EXCEPT ![p] = @ + 1]
    /\ UNCHANGED <<best, at, pc>>

\* ... or is the metadata, and the resource r complete.
ReadAll(p, r) ==
    /\ step[p] = 3 /\ store[at[p]].meta # 0
    /\ r.key = got[p].key /\ r.cert = got[p].cert /\ r.meta = store[at[p]].meta
    /\ best' = [best EXCEPT ![p] = Newer(@, r)]
    /\ NextIssuer(p)

Missing(p) ==
    \/ step[p] = 1 /\ store[at[p]].key = 0
    \/ step[p] = 2 /\ store[at[p]].cert = 0
    \/ step[p] = 3 /\ store[at[p]].meta = 0

\* Reading a file finds it missing, goes on to the next one, or completes the
\* resource.
LEMMA ReadFileCases ==
    ASSUME StoreOK, PlacesOK, StepsOK, ReadOK, NEW p \in Instance, ReadFile(p)
    PROVE  \/ ReadNothing(p) /\ Missing(p)
           \/ ReadMore(p)
           \/ \E r \in Resource : ReadAll(p, r)
  <1> DEFINE s == store[at[p]]
             n == step[p]
             v == s[Files[n]]
             r == [got[p] EXCEPT ![Files[n]] = v]
  <1>1. s \in Resource /\ n \in 1 .. 3 /\ got[p] \in Resource /\ at[p] \in IssuerIndex
    BY Zenon DEF StoreOK, StepsOK, ReadOK
  <1>2. v = (IF n = 1 THEN s.key ELSE IF n = 2 THEN s.cert ELSE s.meta) /\ v \in Version
    BY <1>1, FileGet, Zenon
  <1>3. /\ r \in Resource
        /\ r.key = IF n = 1 THEN v ELSE got[p].key
        /\ r.cert = IF n = 2 THEN v ELSE got[p].cert
        /\ r.meta = IF n = 3 THEN v ELSE got[p].meta
    BY <1>1, <1>2, FileSet
  <1>4. /\ best' = [best EXCEPT ![p] = IF v # 0 /\ (v = 0 \/ n = 3) THEN Newer(@, r) ELSE @]
        /\ got' = [got EXCEPT ![p] = IF v = 0 \/ n = 3 THEN NoResource ELSE r]
        /\ step' = [step EXCEPT ![p] = IF v = 0 \/ n = 3 THEN 1 ELSE @ + 1]
        /\ IF (v = 0 \/ n = 3) /\ at[p] = IssuerCount
              THEN at' = [at EXCEPT ![p] = 1] /\ Goto(p, "loaded")
              ELSE at' = [at EXCEPT ![p] = IF v = 0 \/ n = 3 THEN @ + 1 ELSE @] /\ UNCHANGED pc
    BY Zenon DEF ReadFile
  <1> HIDE DEF v, r
  <1>5. CASE v = 0
    <2>1. best' = best
      BY <1>4, <1>5, Zenon DEF ReadOK
    <2>2. NextIssuer(p)
      BY <1>4, <1>5, Zenon DEF NextIssuer
    <2> QED BY <1>1, <1>2, <1>5, <2>1, <2>2 DEF ReadNothing, Missing
  <1>6. CASE v # 0 /\ n # 3
    <2>1. best' = best /\ at' = at /\ pc' = pc
      BY <1>4, <1>6, Zenon DEF ReadOK, StepsOK
    <2>2. got' = [got EXCEPT ![p] = r] /\ got'[p] = r
      BY <1>4, <1>6, Zenon DEF ReadOK
    <2>3. step' = [step EXCEPT ![p] = @ + 1]
      BY <1>4, <1>6, Zenon
    <2>4. \/ /\ n = 1 /\ s.key # 0
             /\ r.key = s.key /\ r.cert = got[p].cert
          \/ /\ n = 2 /\ s.cert # 0
             /\ r.key = got[p].key /\ r.cert = s.cert
      BY <1>1, <1>2, <1>3, <1>6
    <2>5. ReadMore(p)
      BY <1>3, <2>1, <2>2, <2>3, <2>4 DEF ReadMore
    <2> QED BY <2>5, Zenon
  <1>7. CASE v # 0 /\ n = 3
    <2>1. NextIssuer(p)
      BY <1>4, <1>7, Zenon DEF NextIssuer
    <2>2. best' = [best EXCEPT ![p] = Newer(@, r)]
      BY <1>4, <1>7, Zenon
    <2>3. s.meta # 0 /\ r.key = got[p].key /\ r.cert = got[p].cert /\ r.meta = s.meta
      BY <1>1, <1>2, <1>3, <1>7
    <2>4. ReadAll(p, r)
      BY <1>7, <2>1, <2>2, <2>3, Zenon DEF ReadAll
    <2> QED BY <1>3, <2>4, Zenon
  <1> QED BY <1>1, <1>5, <1>6, <1>7, Zenon

\* The newer of two resources is one of them, and not older than either.
LEMMA NewerResource ==
    ASSUME NEW r \in Resource, NEW s \in Resource
    PROVE  /\ Newer(r, s) \in Resource
           /\ Newer(r, s) = r \/ Newer(r, s) = s
           /\ Newer(r, s).cert >= r.cert /\ Newer(r, s).cert >= s.cert
  BY DEF Newer, Resource, Version

\* Reading leaves the types.
LEMMA ReadTypes ==
    ASSUME StoreOK, PlacesOK, StepsOK, ReadOK, NEW p \in Instance, ReadFile(p)
    PROVE  PlacesOK' /\ StepsOK' /\ ReadOK'
  <1>1. UNCHANGED op
    BY Zenon DEF ReadFile
  <1>2. ASSUME NextIssuer(p) PROVE PlacesOK' /\ StepsOK' /\ got' \in [Instance -> Resource]
    <2>1. at[p] \in IssuerIndex /\ at[p] # IssuerCount => at[p] + 1 \in IssuerIndex
      BY IssuersAssumption DEF StepsOK, IssuerIndex
    <2>2. StepsOK'
      BY <1>2, <2>1, NothingIsResource DEF NextIssuer, StepsOK
    <2>3. PlacesOK'
      BY <1>1, <1>2, Zenon DEF NextIssuer, PlacesOK, Goto
    <2> QED BY <1>2, <2>2, <2>3, NothingIsResource, Zenon DEF NextIssuer, ReadOK
  <1>3. CASE ReadNothing(p)
    BY <1>2, <1>3, Zenon DEF ReadNothing, ReadOK
  <1>4. CASE ReadMore(p)
    <2>1. StepsOK'
      BY <1>4 DEF ReadMore, StepsOK
    <2>2. ReadOK'
      BY <1>4, Zenon DEF ReadMore, ReadOK
    <2> QED BY <1>1, <1>4, <2>1, <2>2, Zenon DEF ReadMore, PlacesOK
  <1>5. CASE \E r \in Resource : ReadAll(p, r)
    <2> PICK r \in Resource : ReadAll(p, r)
      BY <1>5, Zenon
    <2>1. best[p] \in Resource
      BY Zenon DEF ReadOK
    <2>2. Newer(best[p], r) \in Resource
      BY <2>1, NewerResource, Zenon
    <2>3. best' \in [Instance -> Resource]
      BY <2>2, Zenon DEF ReadAll, ReadOK
    <2> QED BY <1>2, <2>3, Zenon DEF ReadAll, ReadOK
  <1> QED BY <1>3, <1>4, <1>5, ReadFileCases, Zenon

-----------------------------------------------------------------------------

\* The types hold at first.
LEMMA InitTypes == Init => TypeOK
  <1> SUFFICES ASSUME Init PROVE TypeOK
    BY Zenon
  <1>1. StoreOK /\ ReadOK /\ NewOK
    BY NothingIsResource, Zenon DEF Init, StoreOK, ReadOK, NewOK
  <1>2. SharedOK
    BY NothingIsResource, ReuseAssumption DEF Init, SharedOK
  <1>3. PlacesOK /\ StepsOK /\ CachedOK
    BY NothingIsResource DEF Init, PlacesOK, StepsOK, CachedOK
  <1> QED BY <1>1, <1>2, <1>3, TypesSplit, Zenon

\* What an operation leaves alone: storage, the CA, the lock and the faults.
LEMMA OperationTypes ==
    ASSUME TypeOK, NEW p \in Instance,
           Manage(p) \/ Maintain(p) \/ MaintainLoaded(p) \/ ManageLoaded(p) \/ CacheLoaded(p)
    PROVE  TypeOK'
  <1> USE TypesSplit
  <1>1. StoreOK' /\ SharedOK'
    BY UnchangedTypes, Zenon DEF Manage, Maintain, MaintainLoaded, ManageLoaded, CacheLoaded, storage
  <1>2. CachedOK'
    <2>1. best[p] \in Resource
      BY Zenon DEF ReadOK
    <2> QED BY <2>1, UnchangedTypes, CacheTypes, Zenon
            DEF Manage, Maintain, MaintainLoaded, ManageLoaded, CacheLoaded
  <1>3. \/ End(p)
        \/ \E o \in {"obtain", "renew", "manage", "maintain", "cache", "reload"},
              l \in {"check", "lock", "read"} : GoOn(p, o, l)
    BY Zenon DEF Manage, Maintain, MaintainLoaded, ManageLoaded, CacheLoaded
  <1> QED BY <1>1, <1>2, <1>3, GoOnTypes, Zenon

\* The steps up to the order leave the types ...
LEMMA ObtainTypes ==
    ASSUME TypeOK, NEW p \in Instance,
           ObtainCheck(p) \/ AcquireLock(p) \/ AttemptObtain(p) \/ AttemptRenew(p) \/ RenewLoaded(p)
    PROVE  TypeOK'
  <1> USE TypesSplit
  <1>1. CASE ObtainCheck(p)
    <2>1. StoreOK' /\ SharedOK' /\ CachedOK'
      BY <1>1, UnchangedTypes, Zenon DEF ObtainCheck, storage
    <2>2. CASE GoOn(p, "cache", "read")
      BY <2>1, <2>2, GoOnTypes, Zenon
    <2>3. CASE Goto(p, "lock") /\ UNCHANGED <<op, local>>
      BY <2>1, <2>3, GotoTypes, UnchangedTypes, Zenon DEF local
    <2> QED BY <1>1, <2>2, <2>3, Zenon DEF ObtainCheck
  <1>2. CASE AcquireLock(p)
    <2>1. StoreOK' /\ CachedOK' /\ StepsOK' /\ ReadOK' /\ NewOK'
      BY <1>2, UnchangedTypes, Zenon DEF AcquireLock, local
    <2>2. PlacesOK'
      BY <1>2, GotoTypes, Zenon DEF AcquireLock
    <2>3. SharedOK'
      BY <1>2, Zenon DEF AcquireLock, SharedOK, ca
    <2> QED BY <2>1, <2>2, <2>3, Zenon
  <1>3. CASE AttemptObtain(p)
    <2>1. StoreOK' /\ SharedOK' /\ CachedOK' /\ StepsOK'
      BY <1>3, UnchangedTypes, Zenon DEF AttemptObtain, storage
    <2>2. PlacesOK'
      BY <1>3, GotoTypes, Zenon DEF AttemptObtain
    <2>3. ReusableKey \in Version
      <3>1. CASE \E i \in IssuerIndex : store[i].key # 0
        <4>1. \E i \in IssuerIndex : store[i].key # 0 /\ \A j \in 1 .. i - 1 : store[j].key = 0
          <5> DEFINE S == {i \in IssuerIndex : store[i].key # 0}
          <5>1. S # {} /\ S \subseteq Nat
            BY <3>1 DEF IssuerIndex
          <5>2. PICK m \in S : \A j \in S : m <= j
            BY <5>1, LeastNumber, Zenon
          <5>3. \A j \in 1 .. m - 1 : j \in IssuerIndex /\ ~(m <= j)
            BY IssuersAssumption DEF IssuerIndex
          <5> QED BY <5>2, <5>3, Zenon
        <4>2. PICK i \in IssuerIndex : ReusableKey = store[i].key
          BY <3>1, <4>1, Zenon DEF ReusableKey
        <4> QED BY <4>2, Zenon DEF StoreOK, Resource
      <3>2. CASE ~\E i \in IssuerIndex : store[i].key # 0
        BY <3>2, NothingIsResource, Zenon DEF ReusableKey
      <3> QED BY <3>1, <3>2, Zenon
    <2>4. ReadOK'
      <3>1. best[p] \in Resource /\ [best[p] EXCEPT !.key = ReusableKey] \in Resource
        BY <2>3, Zenon DEF ReadOK, Resource
      <3>2. best' = best \/ best' = [best EXCEPT ![p] = [best[p] EXCEPT !.key = ReusableKey]]
        BY <1>3, Zenon DEF AttemptObtain
      <3>3. UNCHANGED got
        BY <1>3, Zenon DEF AttemptObtain
      <3> QED BY <3>1, <3>2, <3>3, Zenon DEF ReadOK
    <2>5. NewOK'
      BY <1>3, Zenon DEF AttemptObtain, NewOK
    <2> QED BY <2>1, <2>2, <2>4, <2>5, Zenon
  <1>4. CASE AttemptRenew(p)
    <2>1. StoreOK' /\ SharedOK' /\ CachedOK'
      BY <1>4, UnchangedTypes, Zenon DEF AttemptRenew, storage
    <2>2. PlacesOK'
      BY <1>4, GotoTypes, Zenon DEF AttemptRenew
    <2> QED BY <1>4, <2>1, <2>2, ClearTypes, Zenon DEF AttemptRenew
  <1>5. CASE RenewLoaded(p)
    <2>1. StoreOK' /\ SharedOK' /\ CachedOK' /\ StepsOK' /\ ReadOK'
      BY <1>5, UnchangedTypes, Zenon DEF RenewLoaded, storage
    <2>2. PlacesOK'
      BY <1>5, GotoTypes, Zenon DEF RenewLoaded
    <2>3. NewOK'
      BY <1>5, Zenon DEF RenewLoaded, NewOK
    <2> QED BY <2>1, <2>2, <2>3, Zenon
  <1> QED BY <1>1, <1>2, <1>3, <1>4, <1>5, Zenon

\* The certificate that an issuer issues.
LEMMA IssueEffect ==
    ASSUME TypeOK, NEW p \in Instance, NEW i \in IssuerIndex, Issue(p, i)
    PROVE  \E n \in [issuer : IssuerIndex, files : Resource] :
             /\ n.issuer = i
             /\ n.files.cert = issued' /\ n.files.meta = issued' /\ n.files.key = keyOf'[issued']
             /\ n.files.key # 0
             /\ new' = [new EXCEPT ![p] = n]
             /\ issued \in Nat /\ issued' = issued + 1 /\ issued' \in 1 .. MaxIssued
             /\ \E k \in Version : keyOf' = [keyOf EXCEPT ![issued'] = k]
  <1> USE TypesSplit
  <1> DEFINE k == IF reuse /\ best[p].key # 0 THEN best[p].key ELSE issued'
             n == [issuer |-> i, files |-> [key |-> k, cert |-> issued', meta |-> issued']]
  <1>1. issued' = issued + 1 /\ issued' \in Version /\ issued' \in 1 .. MaxIssued /\ issued \in Nat
    BY BoundAssumption DEF Issue, SharedOK, Version
  <1>2. k \in Version /\ k # 0
    BY <1>1 DEF ReadOK, Resource
  <1>3. keyOf' = [keyOf EXCEPT ![issued'] = k] /\ new' = [new EXCEPT ![p] = n]
    BY Zenon DEF Issue
  <1>4. n \in [issuer : IssuerIndex, files : Resource]
    BY <1>1, <1>2, Zenon DEF Resource
  <1>5. keyOf'[issued'] = k
    BY <1>1, <1>3, Zenon DEF SharedOK
  <1>6. n.issuer = i /\ n.files.cert = issued' /\ n.files.meta = issued' /\ n.files.key = k
    BY Zenon
  <1> HIDE DEF n, k
  <1> QED BY <1>1, <1>2, <1>3, <1>4, <1>5, <1>6, Zenon

\* The file that storeTx stores.
LEMMA StoreEffect ==
    ASSUME TypeOK, NEW p \in Instance, StoreFile(p)
    PROVE  LET i == new[p].issuer  n == new[p].files IN
             /\ i \in IssuerIndex /\ n \in Resource /\ step[p] \in 1 .. 3
             /\ store' \in [IssuerIndex -> Resource]
             /\ \A j \in IssuerIndex : j # i => store'[j] = store[j]
             /\ store'[i].key = IF step[p] = 1 THEN n.key ELSE store[i].key
             /\ store'[i].cert = IF step[p] = 2 THEN n.cert ELSE store[i].cert
             /\ store'[i].meta = IF step[p] = 3 THEN n.meta ELSE store[i].meta
  <1> USE TypesSplit
  <1> DEFINE i == new[p].issuer
             n == new[p].files
             v == n[Files[step[p]]]
  <1>1. i \in IssuerIndex /\ n \in Resource /\ step[p] \in 1 .. 3 /\ store \in [IssuerIndex -> Resource]
    BY Zenon DEF NewOK, StepsOK, StoreOK
  <1>2. /\ v = (IF step[p] = 1 THEN n.key ELSE IF step[p] = 2 THEN n.cert ELSE n.meta)
        /\ v \in Version
    BY <1>1, FileGet, Zenon
  <1> DEFINE m == step[p]
             r == [store[i] EXCEPT ![Files[m]] = v]
  <1>3. store' = [store EXCEPT ![i] = r] /\ m \in 1 .. 3
    BY <1>1, Zenon DEF StoreFile
  <1> HIDE DEF v, i, n, m
  <1>4. /\ r \in Resource
        /\ r.key = IF m = 1 THEN v ELSE store[i].key
        /\ r.cert = IF m = 2 THEN v ELSE store[i].cert
        /\ r.meta = IF m = 3 THEN v ELSE store[i].meta
    <2>1. store[i] \in Resource
      BY <1>1, Zenon
    <2> QED BY <1>2, <1>3, <2>1, FileSet
  <1> HIDE DEF r
  <1>5. /\ store' \in [IssuerIndex -> Resource]
        /\ \A j \in IssuerIndex : j # i => store'[j] = store[j]
        /\ store'[i].key = IF m = 1 THEN v ELSE store[i].key
        /\ store'[i].cert = IF m = 2 THEN v ELSE store[i].cert
        /\ store'[i].meta = IF m = 3 THEN v ELSE store[i].meta
    BY <1>1, <1>3, <1>4, Zenon
  <1> QED BY <1>1, <1>2, <1>5 DEF i, n, m

\* The file that storeTx deletes, or does not.
LEMMA UndoEffect ==
    ASSUME TypeOK, NEW p \in Instance, UndoStore(p)
    PROVE  LET i == new[p].issuer IN
             /\ i \in IssuerIndex
             /\ store' \in [IssuerIndex -> Resource]
             /\ \A j \in IssuerIndex : j # i => store'[j] = store[j]
             /\ store'[i].cert \in {0, store[i].cert}
  <1> USE TypesSplit
  <1> DEFINE i == new[p].issuer
             m == step[p]
             r == [store[i] EXCEPT ![Files[m]] = 0]
  <1>1. i \in IssuerIndex /\ m \in 1 .. 3 /\ store \in [IssuerIndex -> Resource] /\ 0 \in Version
    BY NothingIsResource, Zenon DEF NewOK, StepsOK, StoreOK
  <1>2. UNCHANGED store \/ store' = [store EXCEPT ![i] = r]
    BY Zenon DEF UndoStore
  <1> HIDE DEF i, m
  <1>3. CASE UNCHANGED store
    BY <1>1, <1>3, Zenon DEF i
  <1>4. CASE store' = [store EXCEPT ![i] = r]
    <2>1. store[i] \in Resource
      BY <1>1, Zenon
    <2>2. r \in Resource /\ r.cert = IF m = 2 THEN 0 ELSE store[i].cert
      BY <1>1, <2>1, FileSet
    <2> HIDE DEF r
    <2> QED BY <1>1, <1>4, <2>2, Zenon DEF i
  <1> QED BY <1>2, <1>3, <1>4, Zenon

\* ... and so do the order, the saving and the end of an operation.
LEMMA SaveTypes ==
    ASSUME TypeOK, NEW p \in Instance,
           \/ Issues(p) \/ IssueFails(p) \/ StoreFile(p) \/ StoreFails(p) \/ UndoStore(p)
           \/ Retry(p) \/ GiveUp(p) \/ Unlock(p)
    PROVE  TypeOK'
  <1> USE TypesSplit
  <1>1. CASE Issues(p)
    <2> PICK i \in IssuerIndex : Issue(p, i)
      BY <1>1, Zenon DEF Issues
    <2>1. StoreOK' /\ CachedOK' /\ StepsOK' /\ ReadOK'
      BY UnchangedTypes, Zenon DEF Issue, storage
    <2>2. PlacesOK'
      BY GotoTypes, Zenon DEF Issue
    <2>3. UNCHANGED <<lock, reuse, due, ok, faults>>
      BY Zenon DEF Issue, storage
    <2>4. PICK n \in [issuer : IssuerIndex, files : Resource] :
             /\ new' = [new EXCEPT ![p] = n]
             /\ issued \in Nat /\ issued' = issued + 1 /\ issued' \in 1 .. MaxIssued
             /\ \E k \in Version : keyOf' = [keyOf EXCEPT ![issued'] = k]
      BY IssueEffect, Zenon
    <2>5. NewOK'
      BY <2>3, <2>4, Zenon DEF NewOK
    <2>6. SharedOK'
      BY <2>3, <2>4 DEF SharedOK, Version
    <2> QED BY <2>1, <2>2, <2>5, <2>6, Zenon
  <1>2. CASE IssueFails(p)
    <2>1. StoreOK' /\ SharedOK' /\ CachedOK' /\ StepsOK' /\ ReadOK' /\ NewOK'
      BY <1>2, UnchangedTypes, Zenon DEF IssueFails, storage, local
    <2>2. PlacesOK'
      BY <1>2, GotoTypes, Zenon DEF IssueFails
    <2> QED BY <2>1, <2>2, Zenon
  <1>3. CASE StoreFile(p)
    <2>1. StoreOK'
      BY <1>3, StoreEffect, Zenon DEF StoreOK
    <2>2. SharedOK' /\ CachedOK' /\ ReadOK'
      BY <1>3, UnchangedTypes, Zenon DEF StoreFile
    <2>3. PlacesOK'
      BY <1>3, GotoTypes, Zenon DEF StoreFile
    <2>4. StepsOK'
      BY <1>3 DEF StoreFile, StepsOK
    <2>5. NewOK'
      BY <1>3, Zenon DEF StoreFile, NewOK
    <2> QED BY <2>1, <2>2, <2>3, <2>4, <2>5, Zenon
  <1>4. CASE StoreFails(p)
    <2>1. StoreOK' /\ CachedOK' /\ ReadOK' /\ NewOK'
      BY <1>4, UnchangedTypes, Zenon DEF StoreFails, storage
    <2>2. PlacesOK'
      BY <1>4, GotoTypes, Zenon DEF StoreFails
    <2>3. StepsOK'
      BY <1>4 DEF StoreFails, StepsOK
    <2>4. SharedOK'
      BY <1>4, FaultTypes, Zenon DEF StoreFails, storage
    <2> QED BY <2>1, <2>2, <2>3, <2>4, Zenon
  <1>5. CASE UndoStore(p)
    <2>1. StoreOK'
      BY <1>5, UndoEffect, Zenon DEF StoreOK
    <2>2. CachedOK' /\ ReadOK' /\ NewOK'
      BY <1>5, UnchangedTypes, Zenon DEF UndoStore
    <2>3. PlacesOK'
      BY <1>5, GotoTypes, Zenon DEF UndoStore
    <2>4. StepsOK'
      BY <1>5 DEF UndoStore, StepsOK
    <2>5. SharedOK'
      BY <1>5, FaultTypes, UnchangedTypes, Zenon DEF UndoStore
    <2> QED BY <2>1, <2>2, <2>3, <2>4, <2>5, Zenon
  <1>6. CASE Retry(p)
    <2>1. StoreOK' /\ SharedOK' /\ CachedOK'
      BY <1>6, UnchangedTypes, Zenon DEF Retry, storage
    <2>2. PlacesOK'
      BY <1>6, GotoTypes, Zenon DEF Retry
    <2> QED BY <1>6, <2>1, <2>2, ClearTypes, Zenon DEF Retry
  <1>7. CASE GiveUp(p)
    <2>1. StoreOK' /\ SharedOK' /\ CachedOK' /\ StepsOK' /\ ReadOK'
      BY <1>7, UnchangedTypes, Zenon DEF GiveUp, storage
    <2>2. PlacesOK'
      BY <1>7, GotoTypes, Zenon DEF GiveUp
    <2>3. NewOK'
      BY <1>7, Zenon DEF GiveUp, NewOK
    <2> QED BY <2>1, <2>2, <2>3, Zenon
  <1>8. CASE Unlock(p)
    <2>1. StoreOK' /\ CachedOK'
      BY <1>8, UnchangedTypes, Zenon DEF Unlock
    <2>2. PlacesOK' /\ StepsOK' /\ ReadOK' /\ NewOK'
      BY <1>8, GoOnTypes, Zenon DEF Unlock
    <2>3. SharedOK'
      BY <1>8, Zenon DEF Unlock, SharedOK, ca
    <2> QED BY <2>1, <2>2, <2>3, Zenon
  <1> QED BY <1>1, <1>2, <1>3, <1>4, <1>5, <1>6, <1>7, <1>8, Zenon

\* Every step leaves the types.
LEMMA TypeStep ==
    ASSUME TypeOK, [Next]_vars
    PROVE  TypeOK'
  <1> USE TypesSplit
  <1>1. ASSUME NEW p \in Instance, ReadFile(p) PROVE TypeOK'
    BY <1>1, ReadTypes, UnchangedTypes, Zenon DEF ReadFile, storage
  <1>2. ASSUME NEW p \in Instance, ReadFails(p) PROVE TypeOK'
    <2>1. StoreOK' /\ CachedOK'
      BY <1>2, UnchangedTypes, Zenon DEF ReadFails, storage
    <2>2. SharedOK'
      BY <1>2, FaultTypes, Zenon DEF ReadFails, storage
    <2>3. CASE op[p] = "renew"
      BY <1>2, <2>1, <2>2, <2>3, GotoTypes, ClearTypes, Zenon DEF ReadFails
    <2>4. CASE op[p] # "renew"
      BY <1>2, <2>1, <2>2, <2>4, GoOnTypes, Zenon DEF ReadFails
    <2> QED BY <2>3, <2>4, Zenon
  <1>3. ASSUME NEW p \in Instance, Crash(p) PROVE TypeOK'
    <2>1. StoreOK'
      BY <1>3, UnchangedTypes, Zenon DEF Crash, storage
    <2>2. SharedOK'
      BY <1>3, FaultTypes, Zenon DEF Crash, storage
    <2>3. CachedOK'
      BY <1>3, NothingIsResource, Zenon DEF Crash, CachedOK
    <2> QED BY <1>3, <2>1, <2>2, <2>3, GoOnTypes, Zenon DEF Crash
  <1>4. CASE BecomeDue \/ LockExpires \/ LockIsLost
    <2>1. StoreOK' /\ StepsOK' /\ ReadOK' /\ NewOK' /\ CachedOK'
      BY <1>4, UnchangedTypes, Zenon DEF BecomeDue, LockExpires, LockIsLost, storage, local
    <2>2. PlacesOK'
      BY <1>4, Zenon DEF BecomeDue, LockExpires, LockIsLost, PlacesOK
    <2>3. SharedOK'
      BY <1>4, FaultTypes DEF BecomeDue, LockExpires, LockIsLost, storage, ca, SharedOK, Version
    <2> QED BY <2>1, <2>2, <2>3, Zenon
  <1>5. CASE UNCHANGED vars
    BY <1>5, Zenon DEF vars, StoreOK, SharedOK, PlacesOK, StepsOK, ReadOK, NewOK, CachedOK
  <1>6. QED
    BY <1>1, <1>2, <1>3, <1>4, <1>5, OperationTypes, ObtainTypes, SaveTypes, Zenon
       DEF Next, InstanceStep, OperationStep

-----------------------------------------------------------------------------
(* What a step leaves alone *)

\* A step of instance p.
Step(p) == InstanceStep(p) \/ GiveUp(p) \/ ReadFails(p) \/ StoreFails(p) \/ Crash(p)

\* One that changes neither storage nor what has been issued.
Quiet(p) ==
    \/ Manage(p) \/ Maintain(p) \/ ReadFile(p) \/ ManageLoaded(p) \/ MaintainLoaded(p)
    \/ CacheLoaded(p) \/ ObtainCheck(p) \/ AcquireLock(p) \/ AttemptObtain(p) \/ AttemptRenew(p)
    \/ RenewLoaded(p) \/ IssueFails(p) \/ StoreFails(p) \/ Retry(p) \/ GiveUp(p) \/ Unlock(p)
    \/ ReadFails(p) \/ Crash(p)

\* Only three actions of an instance change what storage and the CA have.
LEMMA StepCases ==
    ASSUME NEW p \in Instance
    PROVE  Step(p) <=> Quiet(p) \/ Issues(p) \/ StoreFile(p) \/ UndoStore(p)
  BY Zenon DEF Step, Quiet, InstanceStep, OperationStep

\* A step is one of an instance, of time or of the lock's storage.
LEMMA NextCases ==
    [Next]_vars =>
        (\E p \in Instance : Step(p)) \/ BecomeDue \/ LockExpires \/ LockIsLost \/ UNCHANGED vars
  BY Zenon DEF Next, Step

\* The other actions leave it.
LEMMA QuietShared ==
    ASSUME NEW p \in Instance, Quiet(p)
    PROVE  UNCHANGED <<store, issued, keyOf, due>>
  BY Zenon DEF Quiet, Manage, Maintain, ReadFile, ManageLoaded, MaintainLoaded, CacheLoaded, ObtainCheck,
         AcquireLock, AttemptObtain, AttemptRenew, RenewLoaded, IssueFails, StoreFails, Retry, GiveUp,
         Unlock, ReadFails, Crash, storage, ca

\* Faults are not forgotten.
LEMMA FaultsGrow ==
    ASSUME [Next]_vars
    PROVE  faults \subseteq faults'
  <1>1. ASSUME NEW p \in Instance, Step(p) PROVE faults \subseteq faults'
    <2>1. CASE \/ ReadFails(p) \/ StoreFails(p) \/ Crash(p) \/ UndoStore(p)
      BY <2>1, Zenon DEF ReadFails, StoreFails, Crash, UndoStore, Fault
    <2>2. CASE ~(ReadFails(p) \/ StoreFails(p) \/ Crash(p) \/ UndoStore(p))
      BY <1>1, <2>2, Zenon
         DEF Step, InstanceStep, OperationStep, Issues, Issue, Manage, Maintain, ReadFile,
             ManageLoaded, MaintainLoaded, CacheLoaded, ObtainCheck, AcquireLock, AttemptObtain,
             AttemptRenew, RenewLoaded, IssueFails, StoreFile, Retry, GiveUp, Unlock
    <2> QED BY <2>1, <2>2, Zenon
  <1>2. CASE BecomeDue \/ LockExpires \/ LockIsLost \/ UNCHANGED vars
    BY <1>2, Zenon DEF BecomeDue, LockExpires, LockIsLost, Fault, vars
  <1> QED BY <1>1, <1>2, NextCases, Zenon

\* Instance q is where it was, with what it had.
Same(q) ==
    /\ pc'[q] = pc[q] /\ op'[q] = op[q] /\ at'[q] = at[q] /\ step'[q] = step[q]
    /\ got'[q] = got[q] /\ best'[q] = best[q] /\ new'[q] = new[q] /\ mem'[q] = mem[q]

\* Forgetting what one instance has read leaves the others ...
LEMMA ClearSame ==
    ASSUME StepsOK, ReadOK, NewOK, NEW p \in Instance, NEW q \in Instance \ {p}, Clear(p)
    PROVE  /\ at'[q] = at[q] /\ step'[q] = step[q] /\ got'[q] = got[q] /\ best'[q] = best[q]
           /\ new'[q] = new[q]
  BY Zenon DEF Clear, StepsOK, ReadOK, NewOK

\* ... and so does the end of its operation ...
LEMMA EndSame ==
    ASSUME PlacesOK, StepsOK, ReadOK, NewOK, NEW p \in Instance, NEW q \in Instance \ {p},
           \/ End(p)
           \/ \E o, l : GoOn(p, o, l)
    PROVE  /\ pc'[q] = pc[q] /\ op'[q] = op[q]
           /\ at'[q] = at[q] /\ step'[q] = step[q] /\ got'[q] = got[q] /\ best'[q] = best[q]
           /\ new'[q] = new[q]
  <1>1. Clear(p) /\ \E o, l : Become(p, o) /\ Goto(p, l)
    BY Zenon DEF End, GoOn
  <1> QED BY <1>1, ClearSame DEF Become, Goto, PlacesOK

\* ... and every other step of it.
LEMMA OthersSame ==
    ASSUME TypeOK, NEW p \in Instance, NEW q \in Instance \ {p}, Step(p)
    PROVE  Same(q)
  <1> USE TypesSplit
  <1>1. CASE ReadFile(p)
    <2>1. UNCHANGED <<op, new, mem>>
      BY <1>1, Zenon DEF ReadFile, cached
    <2>2. pc'[q] = pc[q] /\ at'[q] = at[q]
      BY <1>1 DEF ReadFile, Goto, PlacesOK, StepsOK
    <2>3. got'[q] = got[q] /\ best'[q] = best[q] /\ step'[q] = step[q]
      BY <1>1, Zenon DEF ReadFile, ReadOK, StepsOK
    <2> QED BY <2>1, <2>2, <2>3, Zenon DEF Same
  <1>2. CASE Manage(p) \/ Maintain(p) \/ MaintainLoaded(p)
    BY <1>2, EndSame DEF Manage, Maintain, MaintainLoaded, cached, Same
  <1>3. CASE ManageLoaded(p) \/ CacheLoaded(p) \/ Crash(p)
    <2>1. End(p) \/ \E o, l : GoOn(p, o, l)
      BY <1>3, Zenon DEF ManageLoaded, CacheLoaded, Crash
    <2>2. mem'[q] = mem[q]
      BY <1>3, Zenon DEF ManageLoaded, CacheLoaded, Crash, Cache, CachedOK, cached
    <2> QED BY <2>1, <2>2, EndSame, Zenon DEF Same
  <1>4. CASE ObtainCheck(p)
    <2>1. CASE GoOn(p, "cache", "read")
      BY <1>4, <2>1, EndSame, Zenon DEF ObtainCheck, cached, Same
    <2>2. CASE Goto(p, "lock") /\ UNCHANGED <<op, local>>
      BY <1>4, <2>2, Zenon DEF ObtainCheck, cached, Same, local, Goto, PlacesOK
    <2> QED BY <1>4, <2>1, <2>2, Zenon DEF ObtainCheck
  <1>5. CASE AcquireLock(p) \/ IssueFails(p) \/ GiveUp(p) \/ RenewLoaded(p) \/ AttemptObtain(p)
    <2>1. UNCHANGED <<op, at, step, got, new, mem>>
      BY <1>5, Zenon DEF AcquireLock, IssueFails, GiveUp, RenewLoaded, AttemptObtain, local, cached
    <2>2. pc'[q] = pc[q] /\ best'[q] = best[q]
      BY <1>5 DEF AcquireLock, IssueFails, GiveUp, RenewLoaded, AttemptObtain, local, Goto, PlacesOK,
                  ReadOK
    <2> QED BY <2>1, <2>2, Zenon DEF Same
  <1>6. CASE AttemptRenew(p) \/ Retry(p)
    BY <1>6, ClearSame DEF AttemptRenew, Retry, Goto, PlacesOK, cached, Same
  <1>7. CASE Issues(p)
    BY <1>7 DEF Issues, Issue, Goto, PlacesOK, NewOK, cached, Same
  <1>8. CASE StoreFile(p) \/ StoreFails(p) \/ UndoStore(p)
    BY <1>8 DEF StoreFile, StoreFails, UndoStore, Goto, PlacesOK, StepsOK, cached, Same
  <1>9. CASE Unlock(p)
    BY <1>9, EndSame DEF Unlock, cached, Same
  <1>10. CASE ReadFails(p)
    <2>1. CASE End(p) \/ GoOn(p, "renew", "lock")
      BY <1>10, <2>1, EndSame, Zenon DEF ReadFails, cached, Same
    <2>2. CASE Goto(p, "failed") /\ UNCHANGED op /\ Clear(p)
      BY <1>10, <2>2, ClearSame DEF ReadFails, Goto, PlacesOK, cached, Same
    <2> QED BY <1>10, <2>1, <2>2, Zenon DEF ReadFails
  <1> QED BY <1>1, <1>2, <1>3, <1>4, <1>5, <1>6, <1>7, <1>8, <1>9, <1>10, Zenon
          DEF Step, InstanceStep, OperationStep

\* Time and the lock's storage touch no instance and no certificate.
LEMMA EnvironmentSame ==
    ASSUME BecomeDue \/ LockExpires \/ LockIsLost \/ UNCHANGED vars
    PROVE  /\ UNCHANGED <<store, issued, keyOf, pc, op, at, step, got, best, new, mem>>
           /\ \A q \in Instance : Same(q)
  BY Zenon DEF BecomeDue, LockExpires, LockIsLost, vars, storage, ca, local, cached, Same

-----------------------------------------------------------------------------
(* Where an operation goes on *)

\* Instance p is at l in operation o and has read nothing.
Fresh(p, o, l) ==
    /\ pc'[p] = l /\ op'[p] = o /\ at'[p] = 1 /\ step'[p] = 1
    /\ got'[p] = NoResource /\ best'[p] = NoResource /\ new'[p] = NothingNew

\* An instance that forgets has read nothing.
LEMMA ClearFresh ==
    ASSUME StepsOK, ReadOK, NewOK, NEW p \in Instance, Clear(p)
    PROVE  /\ at'[p] = 1 /\ step'[p] = 1 /\ got'[p] = NoResource /\ best'[p] = NoResource
           /\ new'[p] = NothingNew
  BY Zenon DEF Clear, StepsOK, ReadOK, NewOK

\* At its end an operation leaves nothing behind ...
LEMMA EndFresh ==
    ASSUME PlacesOK, StepsOK, ReadOK, NewOK, NEW p \in Instance, End(p)
    PROVE  Fresh(p, "none", "idle")
  BY ClearFresh, Zenon DEF End, Become, Goto, PlacesOK, Fresh

\* ... and the next one starts afresh.
LEMMA GoOnFresh ==
    ASSUME PlacesOK, StepsOK, ReadOK, NewOK, NEW p \in Instance, NEW o, NEW l, GoOn(p, o, l)
    PROVE  Fresh(p, o, l)
  BY ClearFresh, Zenon DEF GoOn, Become, Goto, PlacesOK, Fresh

\* The operation of an instance that starts, ends, or goes on as another.
LEMMA FreshCases ==
    ASSUME TypeOK, NEW p \in Instance
    PROVE  /\ Manage(p) => Fresh(p, "manage", "read") /\ mem'[p] = mem[p] /\ mem[p] = 0
           /\ Maintain(p) => Fresh(p, "maintain", "read") /\ mem'[p] = mem[p]
           /\ MaintainLoaded(p) => /\ Fresh(p, "reload", "read") \/ Fresh(p, "renew", "lock")
                                   /\ mem'[p] = mem[p]
           /\ ManageLoaded(p) => \/ Fresh(p, "obtain", "check") /\ mem'[p] = mem[p]
                                 \/ Fresh(p, "renew", "lock") \/ Fresh(p, "none", "idle")
           /\ CacheLoaded(p) => Fresh(p, "none", "idle")
           /\ Crash(p) => Fresh(p, "none", "idle") /\ mem'[p] = 0
           /\ Unlock(p) => /\ \/ Fresh(p, "none", "idle")
                              \/ op[p] = "obtain" /\ Fresh(p, "cache", "read")
                              \/ op[p] # "obtain" /\ Fresh(p, "reload", "read")
                           /\ mem'[p] = mem[p]
           /\ ObtainCheck(p) => /\ \/ Fresh(p, "cache", "read")
                                   \/ /\ pc'[p] = "lock"
                                      /\ UNCHANGED <<op, at, step, got, best, new>>
                                /\ mem'[p] = mem[p]
           /\ ReadFails(p) => /\ \/ Fresh(p, "none", "idle")
                                 \/ op[p] = "maintain" /\ Fresh(p, "renew", "lock")
                                 \/ op[p] = "renew" /\ Fresh(p, "renew", "failed")
                              /\ mem'[p] = mem[p]
           /\ AttemptRenew(p) => Fresh(p, "renew", "read") /\ mem'[p] = mem[p]
           /\ Retry(p) => Fresh(p, op[p], "attempt") /\ mem'[p] = mem[p]
  <1> USE TypesSplit
  <1>1. Manage(p) => Fresh(p, "manage", "read") /\ mem'[p] = mem[p] /\ mem[p] = 0
    BY GoOnFresh, Zenon DEF Manage, cached
  <1>2. Maintain(p) => Fresh(p, "maintain", "read") /\ mem'[p] = mem[p]
    BY GoOnFresh, Zenon DEF Maintain, cached
  <1>3. MaintainLoaded(p) => /\ Fresh(p, "reload", "read") \/ Fresh(p, "renew", "lock")
                             /\ mem'[p] = mem[p]
    BY GoOnFresh, Zenon DEF MaintainLoaded, cached
  <1>4. ManageLoaded(p) => \/ Fresh(p, "obtain", "check") /\ mem'[p] = mem[p]
                           \/ Fresh(p, "renew", "lock") \/ Fresh(p, "none", "idle")
    BY GoOnFresh, EndFresh, Zenon DEF ManageLoaded, cached
  <1>5. CacheLoaded(p) => Fresh(p, "none", "idle")
    BY EndFresh, Zenon DEF CacheLoaded
  <1>6. Crash(p) => Fresh(p, "none", "idle") /\ mem'[p] = 0
    BY EndFresh, Zenon DEF Crash, CachedOK
  <1>7. Unlock(p) => /\ \/ Fresh(p, "none", "idle")
                        \/ op[p] = "obtain" /\ Fresh(p, "cache", "read")
                        \/ op[p] # "obtain" /\ Fresh(p, "reload", "read")
                     /\ mem'[p] = mem[p]
    BY GoOnFresh, EndFresh, Zenon DEF Unlock, cached
  <1>8. ObtainCheck(p) => /\ \/ Fresh(p, "cache", "read")
                             \/ pc'[p] = "lock" /\ UNCHANGED <<op, at, step, got, best, new>>
                          /\ mem'[p] = mem[p]
    BY GoOnFresh, Zenon DEF ObtainCheck, cached, local, Goto, PlacesOK
  <1>9. ReadFails(p) => /\ \/ Fresh(p, "none", "idle")
                           \/ op[p] = "maintain" /\ Fresh(p, "renew", "lock")
                           \/ op[p] = "renew" /\ Fresh(p, "renew", "failed")
                        /\ mem'[p] = mem[p]
    <2> SUFFICES ASSUME ReadFails(p)
                 PROVE  \/ Fresh(p, "none", "idle")
                        \/ op[p] = "maintain" /\ Fresh(p, "renew", "lock")
                        \/ op[p] = "renew" /\ Fresh(p, "renew", "failed")
      BY Zenon DEF ReadFails, cached
    <2>1. CASE op[p] = "renew"
      BY <2>1, ClearFresh, Zenon DEF ReadFails, Fresh, Goto, PlacesOK
    <2>2. CASE op[p] = "maintain"
      BY <2>2, GoOnFresh, Zenon DEF ReadFails
    <2>3. CASE op[p] # "renew" /\ op[p] # "maintain"
      BY <2>3, EndFresh, Zenon DEF ReadFails
    <2> QED BY <2>1, <2>2, <2>3, Zenon
  <1>10. AttemptRenew(p) => Fresh(p, "renew", "read") /\ mem'[p] = mem[p]
    BY ClearFresh, Zenon DEF AttemptRenew, Fresh, Goto, PlacesOK, cached
  <1>11. Retry(p) => Fresh(p, op[p], "attempt") /\ mem'[p] = mem[p]
    BY ClearFresh, Zenon DEF Retry, Fresh, Goto, PlacesOK, cached
  <1> QED BY <1>1, <1>2, <1>3, <1>4, <1>5, <1>6, <1>7, <1>8, <1>9, <1>10, <1>11

\* The steps within an operation.
LEMMA WithinCases ==
    ASSUME TypeOK, NEW p \in Instance
    PROVE  /\ AcquireLock(p) => pc[p] = "lock" /\ pc'[p] = "attempt" /\ UNCHANGED <<best, step, at, got, new>>
           /\ AttemptObtain(p) => /\ pc[p] = "attempt" /\ pc'[p] \in {"unlock", "issue"}
                                  /\ UNCHANGED <<step, at, got, new>>
           /\ AttemptObtain(p) => best'[p].cert = best[p].cert
           /\ RenewLoaded(p) => /\ pc[p] = "loaded" /\ pc'[p] \in {"failed", "unlock", "issue"}
                                /\ UNCHANGED <<best, step, at, got, new>>
           /\ Issues(p) => pc[p] = "issue" /\ pc'[p] = "save" /\ UNCHANGED <<best, step, at, got>>
           /\ IssueFails(p) => pc[p] = "issue" /\ pc'[p] = "failed" /\ UNCHANGED <<best, step, at, got, new>>
           /\ StoreFile(p) => pc[p] = "save" /\ pc'[p] \in {"save", "unlock"} /\ UNCHANGED <<best, at, got, new>>
           /\ StoreFails(p) => /\ pc[p] = "save" /\ pc'[p] \in {"undo", "failed"} /\ "store" \in faults'
                               /\ UNCHANGED <<best, at, got, new>>
           /\ UndoStore(p) => pc[p] = "undo" /\ pc'[p] \in {"undo", "failed"} /\ UNCHANGED <<best, at, got, new>>
           /\ GiveUp(p) => pc[p] = "failed" /\ pc'[p] = "unlock" /\ UNCHANGED <<best, step, at, got, new>>
           /\ (\/ AcquireLock(p) \/ AttemptObtain(p) \/ RenewLoaded(p) \/ Issues(p) \/ IssueFails(p)
               \/ StoreFile(p) \/ StoreFails(p) \/ UndoStore(p) \/ GiveUp(p))
              => (op'[p] = op[p] /\ mem'[p] = mem[p])
  <1> USE TypesSplit
  <1>1. AcquireLock(p) => pc[p] = "lock" /\ pc'[p] = "attempt" /\ UNCHANGED <<best, step, at, got, new>>
    BY Zenon DEF AcquireLock, Goto, PlacesOK, local
  <1>2. AttemptObtain(p) => /\ pc[p] = "attempt" /\ pc'[p] \in {"unlock", "issue"}
                            /\ UNCHANGED <<step, at, got, new>>
    BY Zenon DEF AttemptObtain, Goto, PlacesOK
  <1>3. AttemptObtain(p) => best'[p].cert = best[p].cert
    <2>1. best[p] \in Resource /\ [best[p] EXCEPT !.key = ReusableKey].cert = best[p].cert
      BY Zenon DEF ReadOK, Resource
    <2> QED BY <2>1, Zenon DEF AttemptObtain, ReadOK
  <1>4. RenewLoaded(p) => /\ pc[p] = "loaded" /\ pc'[p] \in {"failed", "unlock", "issue"}
                          /\ UNCHANGED <<best, step, at, got, new>>
    BY Zenon DEF RenewLoaded, Goto, PlacesOK
  <1>5. Issues(p) => pc[p] = "issue" /\ pc'[p] = "save" /\ UNCHANGED <<best, step, at, got>>
    BY Zenon DEF Issues, Issue, Goto, PlacesOK
  <1>6. IssueFails(p) => pc[p] = "issue" /\ pc'[p] = "failed" /\ UNCHANGED <<best, step, at, got, new>>
    BY Zenon DEF IssueFails, Goto, PlacesOK, local
  <1>7. StoreFile(p) => pc[p] = "save" /\ pc'[p] \in {"save", "unlock"} /\ UNCHANGED <<best, at, got, new>>
    BY Zenon DEF StoreFile, Goto, PlacesOK
  <1>8. StoreFails(p) => /\ pc[p] = "save" /\ pc'[p] \in {"undo", "failed"} /\ "store" \in faults'
                         /\ UNCHANGED <<best, at, got, new>>
    BY Zenon DEF StoreFails, Goto, PlacesOK, Fault
  <1>9. UndoStore(p) => pc[p] = "undo" /\ pc'[p] \in {"undo", "failed"} /\ UNCHANGED <<best, at, got, new>>
    BY Zenon DEF UndoStore, Goto, PlacesOK
  <1>10. GiveUp(p) => pc[p] = "failed" /\ pc'[p] = "unlock" /\ UNCHANGED <<best, step, at, got, new>>
    BY Zenon DEF GiveUp, Goto, PlacesOK
  <1>11. (\/ AcquireLock(p) \/ AttemptObtain(p) \/ RenewLoaded(p) \/ Issues(p) \/ IssueFails(p)
          \/ StoreFile(p) \/ StoreFails(p) \/ UndoStore(p) \/ GiveUp(p))
         => (op'[p] = op[p] /\ mem'[p] = mem[p])
    BY Zenon DEF AcquireLock, AttemptObtain, RenewLoaded, Issues, Issue, IssueFails, StoreFile, StoreFails,
           UndoStore, GiveUp, cached
  <1> QED BY <1>1, <1>2, <1>3, <1>4, <1>5, <1>6, <1>7, <1>8, <1>9, <1>10, <1>11

\* Reading changes only what has been read, and ends at the first file.
LEMMA ReadSame ==
    ASSUME TypeOK, NEW p \in Instance, ReadFile(p)
    PROVE  /\ pc[p] = "read" /\ op'[p] = op[p] /\ mem'[p] = mem[p] /\ new' = new
           /\ pc'[p] \in {"read", "loaded"}
           /\ pc'[p] = "loaded" => step'[p] = 1
  <1> USE TypesSplit
  <1>1. pc[p] = "read" /\ op'[p] = op[p] /\ mem'[p] = mem[p] /\ new' = new
    BY Zenon DEF ReadFile, cached
  <1>2. ASSUME NextIssuer(p) PROVE pc'[p] \in {"read", "loaded"} /\ step'[p] = 1
    BY <1>1, <1>2, Zenon DEF NextIssuer, Goto, PlacesOK, StepsOK
  <1>3. ASSUME ReadMore(p) PROVE pc'[p] = "read"
    BY <1>1, <1>3, Zenon DEF ReadMore
  <1>4. NextIssuer(p) \/ ReadMore(p)
    BY ReadFileCases, Zenon DEF ReadNothing, ReadAll
  <1> QED BY <1>1, <1>2, <1>3, <1>4, Zenon

-----------------------------------------------------------------------------
(* The invariant, one conjunct after the other *)

\* Every step leaves each instance at a place of its operation.
LEMMA InOperationStep ==
    ASSUME TypeOK, \A q \in Instance : InOperation(q), [Next]_vars
    PROVE  \A q \in Instance : InOperation(q)'
  <1> SUFFICES ASSUME NEW q \in Instance PROVE InOperation(q)'
    BY Zenon
  <1>1. InOperation(q) /\ faults \subseteq faults'
    BY FaultsGrow, Zenon
  <1>2. CASE Same(q)
    BY <1>1, <1>2, Zenon DEF Same, InOperation
  <1>3. CASE Step(q)
    <2>1. CASE \/ Manage(q) \/ Maintain(q) \/ MaintainLoaded(q) \/ ManageLoaded(q) \/ CacheLoaded(q)
               \/ Crash(q) \/ Unlock(q) \/ ObtainCheck(q)
      <3>1. /\ Unlock(q) => pc[q] = "unlock"
            /\ ObtainCheck(q) => pc[q] = "check"
            /\ ManageLoaded(q) => op[q] = "manage"
        BY Zenon DEF Unlock, ObtainCheck, ManageLoaded
      <3> QED BY <1>1, <2>1, <3>1, FreshCases DEF Fresh, InOperation
    <2>2. CASE ReadFails(q) \/ AttemptRenew(q) \/ Retry(q)
      <3>1. Retry(q) => pc[q] = "failed"
        BY Zenon DEF Retry
      <3> QED BY <1>1, <2>2, <3>1, FreshCases DEF Fresh, InOperation
    <2>3. CASE \/ AcquireLock(q) \/ AttemptObtain(q) \/ RenewLoaded(q) \/ Issues(q) \/ IssueFails(q)
               \/ StoreFile(q) \/ StoreFails(q) \/ UndoStore(q) \/ GiveUp(q)
      <3>1. RenewLoaded(q) => op[q] = "renew"
        BY Zenon DEF RenewLoaded
      <3> QED BY <1>1, <2>3, <3>1, WithinCases DEF InOperation
    <2>4. CASE ReadFile(q)
      BY <1>1, <2>4, ReadSame, Zenon DEF InOperation
    <2> QED BY <1>3, <2>1, <2>2, <2>3, <2>4, Zenon DEF Step, InstanceStep, OperationStep
  <1> QED BY <1>2, <1>3, NextCases, OthersSame, EnvironmentSame, Zenon

\* The last certificate that was cached or not.
LEMMA CacheCases ==
    ASSUME TypeOK, NEW p \in Instance, ManageLoaded(p) \/ CacheLoaded(p)
    PROVE  mem'[p] = mem[p] \/ (mem'[p] = best[p].cert /\ KeyPair(best[p]))
  BY TypesSplit, Zenon DEF ManageLoaded, CacheLoaded, Cache, cached, CachedOK

\* What the arithmetic of the following lemmas needs of the types.
LEMMA Numbers ==
    ASSUME TypeOK
    PROVE  /\ issued \in Nat /\ due \in Nat
           /\ \A i \in IssuerIndex : /\ store[i] \in Resource
                                     /\ store[i].key \in Nat /\ store[i].cert \in Nat
                                     /\ store[i].meta \in Nat
           /\ \A p \in Instance :
                 /\ got[p] \in Resource /\ best[p] \in Resource /\ mem[p] \in Nat
                 /\ got[p].cert \in Nat /\ best[p].cert \in Nat /\ best[p].meta \in Nat
                 /\ new[p].files \in Resource /\ new[p].files.cert \in Nat
                 /\ new[p].issuer \in IssuerIndex
                 /\ at[p] \in IssuerIndex /\ step[p] \in 1 .. 3
  <1> USE TypesSplit
  <1>1. issued \in Nat /\ due \in Nat
    BY BoundAssumption DEF SharedOK, Version
  <1>2. ASSUME NEW i \in IssuerIndex
        PROVE  store[i] \in Resource /\ store[i].key \in Nat /\ store[i].cert \in Nat /\ store[i].meta \in Nat
    BY BoundAssumption DEF StoreOK, Resource, Version
  <1>3. ASSUME NEW p \in Instance
        PROVE  /\ got[p] \in Resource /\ best[p] \in Resource
               /\ got[p].cert \in Nat /\ best[p].cert \in Nat /\ best[p].meta \in Nat
    BY BoundAssumption DEF ReadOK, Resource, Version
  <1>4. ASSUME NEW p \in Instance
        PROVE  /\ new[p].files \in Resource /\ new[p].files.cert \in Nat
               /\ new[p].issuer \in IssuerIndex
    <2>1. new[p].files \in Resource /\ new[p].issuer \in IssuerIndex
      BY Zenon DEF NewOK
    <2> QED BY <2>1, BoundAssumption DEF Resource, Version
  <1>5. ASSUME NEW p \in Instance PROVE mem[p] \in Nat /\ at[p] \in IssuerIndex /\ step[p] \in 1 .. 3
    BY BoundAssumption DEF CachedOK, Version, StepsOK
  <1> QED BY <1>1, <1>2, <1>3, <1>4, <1>5, Zenon

\* The certificate an instance reads is one of storage.
LEMMA ReadBounds ==
    ASSUME TypeOK, NotAhead, NEW p \in Instance, ReadFile(p)
    PROVE  got'[p].cert <= issued /\ best'[p].cert <= issued
  <1> USE TypesSplit
  <1>1. /\ issued \in Nat /\ got[p].cert <= issued /\ best[p].cert <= issued
        /\ store[at[p]].cert <= issued
    BY Numbers, Zenon DEF NotAhead
  <1>2. ASSUME NextIssuer(p) PROVE got'[p].cert = 0
    BY <1>2, NothingIsResource, Zenon DEF NextIssuer, ReadOK
  <1>3. CASE ReadNothing(p)
    BY <1>1, <1>2, <1>3 DEF ReadNothing
  <1>4. CASE ReadMore(p)
    BY <1>1, <1>4, Zenon DEF ReadMore
  <1>5. CASE \E r \in Resource : ReadAll(p, r)
    <2> PICK r \in Resource : ReadAll(p, r)
      BY <1>5, Zenon
    <2>1. best'[p] = Newer(best[p], r) /\ r.cert = got[p].cert /\ best[p] \in Resource
      BY Zenon DEF ReadAll, ReadOK
    <2> QED BY <1>1, <1>2, <2>1, NewerResource DEF ReadAll
  <1> QED BY <1>3, <1>4, <1>5, ReadFileCases, Zenon

\* No step makes anything newer than the last certificate issued.
LEMMA NotAheadStep ==
    ASSUME TypeOK, NotAhead, [Next]_vars
    PROVE  NotAhead'
  <1> USE Numbers
  <1>1. TypeOK'
    BY TypeStep, Zenon
  <1>2. issued \in Nat /\ issued' \in Nat /\ issued <= issued'
    <2>1. ASSUME NEW p \in Instance, Issues(p) PROVE issued' = issued + 1
      BY <2>1, Zenon DEF Issues, Issue
    <2>2. ASSUME NEW p \in Instance, StoreFile(p) \/ UndoStore(p) PROVE issued' = issued
      BY <2>2, Zenon DEF StoreFile, UndoStore, ca
    <2>3. issued' \in {issued, issued + 1}
      BY <2>1, <2>2, NextCases, StepCases, QuietShared, EnvironmentSame, Zenon
    <2> QED BY <2>3
  <1>3. ASSUME NEW i \in IssuerIndex PROVE store'[i].cert <= issued'
    <2>1. ASSUME NEW p \in Instance, StoreFile(p)
          PROVE  store'[i].cert \in {store[i].cert, new[p].files.cert}
      BY <2>1, StoreEffect
    <2>2. ASSUME NEW p \in Instance, UndoStore(p)
          PROVE  store'[i].cert \in {store[i].cert, 0}
      BY <2>2, UndoEffect, Zenon
    <2>3. ASSUME NEW p \in Instance, Issues(p) PROVE store' = store
      BY <2>3, Zenon DEF Issues, Issue, storage
    <2>4. \/ store'[i].cert = store[i].cert \/ store'[i].cert = 0
          \/ \E p \in Instance : store'[i].cert = new[p].files.cert
      BY <2>1, <2>2, <2>3, NextCases, StepCases, QuietShared, EnvironmentSame, Zenon
    <2> QED BY <1>2, <2>4 DEF NotAhead
  <1>4. ASSUME NEW q \in Instance
        PROVE  /\ got'[q].cert <= issued' /\ best'[q].cert <= issued' /\ mem'[q] <= issued'
               /\ new'[q].files.cert <= issued'
    <2>1. /\ got[q].cert <= issued' /\ best[q].cert <= issued' /\ mem[q] <= issued'
          /\ new[q].files.cert <= issued'
      BY <1>2 DEF NotAhead
    <2>2. CASE Same(q)
      BY <2>1, <2>2, Zenon DEF Same
    <2>3. CASE Step(q)
      <3>1. ASSUME NEW o, NEW l, Fresh(q, o, l)
            PROVE  got'[q].cert = 0 /\ best'[q].cert = 0 /\ new'[q].files.cert = 0
        BY <3>1, NothingIsResource DEF Fresh, NothingNew
      <3>2. CASE \/ Manage(q) \/ Maintain(q) \/ MaintainLoaded(q) \/ Unlock(q) \/ ReadFails(q)
                 \/ AttemptRenew(q) \/ Retry(q) \/ Crash(q)
        <4>1. \E o, l : Fresh(q, o, l)
          BY <3>2, FreshCases, Zenon
        <4>2. mem'[q] \in {0, mem[q]}
          BY <3>2, FreshCases, Zenon
        <4> QED BY <1>2, <2>1, <3>1, <4>1, <4>2
      <3>3. CASE ManageLoaded(q) \/ CacheLoaded(q)
        <4>1. \E o, l : Fresh(q, o, l)
          BY <3>3, FreshCases, Zenon
        <4>2. mem'[q] \in {best[q].cert, mem[q]}
          BY <3>3, CacheCases, Zenon
        <4> QED BY <1>2, <2>1, <3>1, <4>1, <4>2
      <3>4. CASE ObtainCheck(q)
        BY <1>2, <2>1, <3>1, <3>4, FreshCases
      <3>5. CASE \/ AcquireLock(q) \/ AttemptObtain(q) \/ RenewLoaded(q) \/ IssueFails(q)
                 \/ StoreFile(q) \/ StoreFails(q) \/ UndoStore(q) \/ GiveUp(q)
        <4>1. UNCHANGED <<got, new>> /\ best'[q].cert = best[q].cert /\ mem'[q] = mem[q]
          BY <3>5, WithinCases, Zenon
        <4> QED BY <2>1, <4>1, Zenon
      <3>6. CASE Issues(q)
        <4>1. UNCHANGED <<got, best>> /\ mem'[q] = mem[q]
          BY <3>6, WithinCases, Zenon
        <4>2. new'[q].files.cert = issued'
          BY <3>6, IssueEffect, TypesSplit DEF Issues, NewOK
        <4> QED BY <1>2, <2>1, <4>1, <4>2
      <3>7. CASE ReadFile(q)
        <4>1. issued' = issued
          BY <3>7, QuietShared, Zenon DEF Quiet
        <4> QED BY <2>1, <3>7, <4>1, ReadBounds, ReadSame, Zenon
      <3> QED BY <2>3, <3>2, <3>3, <3>4, <3>5, <3>6, <3>7, Zenon DEF Step, InstanceStep, OperationStep
    <2> QED BY <2>2, <2>3, NextCases, OthersSame, EnvironmentSame, Zenon
  <1> QED BY <1>3, <1>4, Zenon DEF NotAhead

\* The key of a certificate that has been issued does not change.
LEMMA KeyOfKept ==
    ASSUME TypeOK, [Next]_vars, NEW n \in 1 .. issued
    PROVE  keyOf'[n] = keyOf[n]
  <1>1. ASSUME NEW p \in Instance, Issues(p) PROVE keyOf'[n] = keyOf[n]
    <2>1. issued \in Nat /\ \E k \in Version : keyOf' = [keyOf EXCEPT ![issued + 1] = k]
      BY <1>1, IssueEffect, Zenon DEF Issues
    <2>2. n # issued + 1 /\ n \in 1 .. MaxIssued
      BY <2>1, TypesSplit, BoundAssumption DEF SharedOK, Version
    <2> QED BY <2>1, <2>2, TypesSplit, Zenon DEF SharedOK
  <1>2. ASSUME NEW p \in Instance, StoreFile(p) \/ UndoStore(p) PROVE keyOf' = keyOf
    BY <1>2, Zenon DEF StoreFile, UndoStore, ca
  <1> QED BY <1>1, <1>2, NextCases, StepCases, QuietShared, EnvironmentSame, Zenon

\* What is about to be saved belongs together: it is made by the order.
LEMMA BelongsStep ==
    ASSUME TypeOK, NotAhead, Belongs, [Next]_vars
    PROVE  Belongs'
  <1> USE Numbers
  <1> SUFFICES ASSUME NEW q \in Instance, pc'[q] = "save"
               PROVE  /\ new'[q].files.cert # 0 /\ new'[q].files.key = keyOf'[new'[q].files.cert]
                      /\ new'[q].files.meta = new'[q].files.cert /\ new'[q].files.key # 0
    BY Zenon DEF Belongs, KeyPair
  <1>1. CASE pc[q] = "save" /\ new'[q] = new[q]
    <2>1. new[q].files.cert \in 1 .. issued
      BY <1>1 DEF NotAhead, Belongs, KeyPair
    <2>2. keyOf'[new[q].files.cert] = keyOf[new[q].files.cert]
      BY <2>1, KeyOfKept, Zenon
    <2> QED BY <1>1, <2>2, Zenon DEF Belongs, KeyPair
  <1>2. CASE Issues(q)
    <2>1. PICK i \in IssuerIndex : Issue(q, i)
      BY <1>2, Zenon DEF Issues
    <2>2. PICK n \in [issuer : IssuerIndex, files : Resource] :
             /\ n.files.cert = issued' /\ n.files.meta = issued' /\ n.files.key = keyOf'[issued']
             /\ n.files.key # 0
             /\ new' = [new EXCEPT ![q] = n]
             /\ issued' \in 1 .. MaxIssued
      BY <2>1, IssueEffect, Zenon
    <2>3. new'[q] = n
      BY <2>2, TypesSplit, Zenon DEF NewOK
    <2> QED BY <2>2, <2>3
  <1>3. CASE Same(q)
    BY <1>1, <1>3, Zenon DEF Same
  <1>4. CASE Step(q) /\ ~Issues(q)
    <2>1. pc[q] = "save" /\ new' = new
      BY <1>4, FreshCases, WithinCases, ReadSame, Zenon DEF Step, InstanceStep, OperationStep, Fresh
    <2> QED BY <1>1, <2>1, Zenon
  <1> QED BY <1>2, <1>3, <1>4, NextCases, OthersSame, EnvironmentSame, Zenon

-----------------------------------------------------------------------------
(* The lock *)

\* Only two actions of an instance change the lock.
LEMMA LockEffect ==
    ASSUME NEW p \in Instance, Step(p)
    PROVE  \/ AcquireLock(p) /\ lock = NoInstance /\ lock' = p
           \/ Unlock(p) /\ lock' = NoInstance
           \/ ~AcquireLock(p) /\ ~Unlock(p) /\ lock' = lock
  <1>1. AcquireLock(p) => lock = NoInstance /\ lock' = p
    BY Zenon DEF AcquireLock
  <1>2. Unlock(p) => lock' = NoInstance
    BY Zenon DEF Unlock
  <1>3. ASSUME ~AcquireLock(p), ~Unlock(p) PROVE lock' = lock
    BY <1>3, Zenon
       DEF Step, InstanceStep, OperationStep, Issues, Issue, Manage, Maintain, ReadFile,
           ManageLoaded, MaintainLoaded, CacheLoaded, ObtainCheck, AttemptObtain,
           AttemptRenew, RenewLoaded, IssueFails, StoreFile, StoreFails, UndoStore, Retry, GiveUp,
           ReadFails, Crash, storage
  <1>4. ~(AcquireLock(p) /\ Unlock(p))
    BY Zenon DEF AcquireLock, Unlock
  <1> QED BY <1>1, <1>2, <1>3, <1>4, Zenon

\* The places between acquireLock and releaseLock are entered by the first and
\* left by the second.
LEMMA LockedSteps ==
    ASSUME TypeOK, NEW p \in Instance, Step(p), Locked(p)'
    PROVE  AcquireLock(p) \/ (Locked(p) /\ ~Unlock(p))
  <1>1. CASE \/ Manage(p) \/ Maintain(p) \/ MaintainLoaded(p) \/ ManageLoaded(p) \/ CacheLoaded(p)
             \/ Crash(p) \/ Unlock(p) \/ ObtainCheck(p)
    BY <1>1, FreshCases, Zenon DEF Fresh, Locked
  <1>2. CASE ReadFails(p) \/ AttemptRenew(p) \/ Retry(p)
    <2>1. /\ ReadFails(p) => pc[p] = "read"
          /\ AttemptRenew(p) => pc[p] = "attempt"
          /\ Retry(p) => pc[p] = "failed"
      BY Zenon DEF ReadFails, AttemptRenew, Retry
    <2>2. ~Unlock(p)
      BY <1>2, <2>1, Zenon DEF Unlock
    <2> QED BY <1>2, <2>1, <2>2, FreshCases, Zenon DEF Fresh, Locked
  <1>3. CASE \/ AttemptObtain(p) \/ RenewLoaded(p) \/ Issues(p) \/ IssueFails(p)
             \/ StoreFile(p) \/ StoreFails(p) \/ UndoStore(p) \/ GiveUp(p)
    <2>1. RenewLoaded(p) => op[p] = "renew"
      BY <1>3, WithinCases, Zenon DEF RenewLoaded
    <2>2. pc[p] \in {"attempt", "loaded", "issue", "save", "undo", "failed"}
          /\ (pc[p] = "loaded" => RenewLoaded(p))
      BY <1>3, WithinCases, Zenon
    <2> QED BY <2>1, <2>2, Zenon DEF Locked, Unlock, RenewLoaded
  <1>4. CASE ReadFile(p)
    <2>1. pc[p] = "read" /\ op'[p] = op[p] /\ pc'[p] \in {"read", "loaded"}
      BY <1>4, ReadSame, Zenon
    <2> QED BY <2>1, Zenon DEF Locked, Unlock
  <1> QED BY <1>1, <1>2, <1>3, <1>4, Zenon DEF Step, InstanceStep, OperationStep

\* A lock that is reliable now has always been.
LEMMA ReliableBefore ==
    ASSUME [Next]_vars, LockReliable'
    PROVE  LockReliable
  BY FaultsGrow, Zenon DEF LockReliable

\* Every step leaves the lock with who works under it.
LEMMA ExclusiveStep ==
    ASSUME TypeOK, \A q \in Instance : InOperation(q), Exclusive, [Next]_vars
    PROVE  Exclusive'
  <1> SUFFICES ASSUME LockReliable', NEW q \in Instance, Locked(q)' PROVE lock' = q
    BY Zenon DEF Exclusive
  <1>1. LockReliable /\ \A p \in Instance : Locked(p) => lock = p
    BY ReliableBefore, Zenon DEF Exclusive
  <1>2. CASE Step(q)
    <2>1. AcquireLock(q) \/ (Locked(q) /\ ~Unlock(q))
      BY <1>2, LockedSteps, Zenon
    <2>2. CASE AcquireLock(q)
      BY <2>2, Zenon DEF AcquireLock
    <2>3. CASE Locked(q) /\ ~Unlock(q) /\ ~AcquireLock(q)
      BY <1>1, <1>2, <2>3, LockEffect, Zenon
    <2> QED BY <2>1, <2>2, <2>3, Zenon
  <1>3. ASSUME NEW p \in Instance \ {q}, Step(p) PROVE lock' = q
    <2>1. Locked(q)
      BY <1>3, OthersSame, Zenon DEF Same, Locked
    <2>2. ~Locked(p) /\ lock = q
      BY <1>1, <2>1, Zenon
    <2>3. ~AcquireLock(p) /\ ~Unlock(p)
      BY <2>2, NoInstanceAssumption, Zenon DEF AcquireLock, Unlock, Locked
    <2> QED BY <1>3, <2>2, <2>3, LockEffect, Zenon
  <1>4. CASE BecomeDue \/ LockExpires \/ LockIsLost \/ UNCHANGED vars
    <2>1. Locked(q) /\ lock = q
      BY <1>1, <1>4, EnvironmentSame, Zenon DEF Locked
    <2>2. ~LockExpires
      BY <2>1, Zenon DEF LockExpires
    <2>3. ~LockIsLost
      BY Zenon DEF LockIsLost, Fault, LockReliable
    <2> QED BY <1>4, <2>1, <2>2, <2>3, Zenon DEF BecomeDue, storage, vars
  <1> QED BY <1>2, <1>3, <1>4, NextCases, Zenon

\* Who has the lock is alone in changing storage and in issuing.
LEMMA NobodyElse ==
    ASSUME Exclusive, LockReliable, NEW q \in Instance, Locked(q), NEW p \in Instance \ {q}, Step(p)
    PROVE  UNCHANGED <<store, issued, keyOf, due>>
  <1>1. ~Locked(p)
    BY Zenon DEF Exclusive
  <1>2. ~Issues(p) /\ ~StoreFile(p) /\ ~UndoStore(p)
    BY <1>1, Zenon DEF Issues, Issue, StoreFile, UndoStore, Locked
  <1> QED BY <1>2, StepCases, QuietShared, Zenon

-----------------------------------------------------------------------------
(* What is being saved *)

\* What becomes of an instance that is saving.
LEMMA SavingSteps ==
    ASSUME TypeOK, NEW p \in Instance, Step(p)
    PROVE  /\ pc[p] = "save" => StoreFile(p) \/ StoreFails(p) \/ Crash(p)
           /\ pc'[p] = "save" => Issues(p) \/ StoreFile(p)
  <1>1. pc[p] = "save" => StoreFile(p) \/ StoreFails(p) \/ Crash(p)
    BY Zenon DEF Step, InstanceStep, OperationStep, Issues, Issue, Manage, Maintain, ReadFile,
           ManageLoaded, MaintainLoaded, CacheLoaded, ObtainCheck, AcquireLock, AttemptObtain,
           AttemptRenew, RenewLoaded, IssueFails, UndoStore, Retry, GiveUp, Unlock, ReadFails
  <1>2. pc'[p] = "save" => Issues(p) \/ StoreFile(p)
    BY FreshCases, WithinCases, ReadSame, Zenon DEF Step, InstanceStep, OperationStep, Fresh
  <1> QED BY <1>1, <1>2, Zenon

\* A file is stored in order, and the operation goes on until the last one.
LEMMA StoreStep ==
    ASSUME TypeOK, NEW p \in Instance, StoreFile(p)
    PROVE  /\ pc[p] = "save" /\ UNCHANGED <<issued, keyOf, new>>
           /\ \/ step[p] = 3 /\ pc'[p] = "unlock"
              \/ step[p] \in {1, 2} /\ pc'[p] = "save" /\ step'[p] = step[p] + 1
  BY TypesSplit DEF StoreFile, ca, Goto, PlacesOK, StepsOK

\* No one else stores or issues while a resource is being saved.
LEMMA SavedStep ==
    ASSUME TypeOK, \A q \in Instance : InOperation(q), NotAhead, Exclusive, Saved, [Next]_vars
    PROVE  Saved'
  <1> USE Numbers
  <1> SUFFICES ASSUME LockReliable', NEW q \in Instance, pc'[q] = "save"
               PROVE  /\ new'[q].files.cert = issued'
                      /\ step'[q] > 1 => store'[new'[q].issuer].key = new'[q].files.key
                      /\ step'[q] > 2 => store'[new'[q].issuer].cert = new'[q].files.cert
                      /\ \A j \in IssuerIndex : store'[j].cert = issued' => j = new'[q].issuer
    BY Zenon DEF Saved
  <1>1. LockReliable
    BY ReliableBefore, Zenon
  <1>2. pc[q] = "save" => /\ new[q].files.cert = issued
                          /\ step[q] > 1 => store[new[q].issuer].key = new[q].files.key
                          /\ step[q] > 2 => store[new[q].issuer].cert = new[q].files.cert
                          /\ \A j \in IssuerIndex : store[j].cert = issued => j = new[q].issuer
    BY <1>1, Zenon DEF Saved
  <1>3. CASE Same(q) /\ UNCHANGED <<store, issued>>
    BY <1>2, <1>3, Zenon DEF Same
  <1>4. ASSUME NEW p \in Instance \ {q}, Step(p) PROVE Same(q) /\ UNCHANGED <<store, issued>>
    <2>1. Same(q)
      BY <1>4, OthersSame, Zenon
    <2>2. Locked(q)
      BY <2>1, Zenon DEF Same, Locked
    <2> QED BY <1>1, <1>4, <2>1, <2>2, NobodyElse, Zenon
  <1>5. CASE Issues(q)
    <2>1. PICK i \in IssuerIndex : Issue(q, i)
      BY <1>5, Zenon DEF Issues
    <2>2. new'[q].files.cert = issued' /\ issued' = issued + 1
      BY <2>1, IssueEffect, TypesSplit DEF NewOK
    <2>3. step'[q] = 1 /\ store' = store
      BY <1>5, WithinCases, Zenon DEF InOperation, Issues, Issue, storage
    <2>4. \A j \in IssuerIndex : store[j].cert # issued'
      BY <2>2 DEF NotAhead
    <2> QED BY <2>2, <2>3, <2>4
  <1>6. CASE StoreFile(q)
    <2>1. pc[q] = "save" /\ UNCHANGED <<issued, new>>
      BY <1>6, StoreStep, Zenon
    <2>2. step[q] \in {1, 2} /\ step'[q] = step[q] + 1
      BY <1>6, StoreStep, Zenon
    <2> DEFINE i == new[q].issuer
               n == new[q].files
    <2>3. /\ i \in IssuerIndex
          /\ \A j \in IssuerIndex : j # i => store'[j] = store[j]
          /\ store'[i].key = IF step[q] = 1 THEN n.key ELSE store[i].key
          /\ store'[i].cert = IF step[q] = 2 THEN n.cert ELSE store[i].cert
      BY <1>6, StoreEffect, Zenon
    <2> QED BY <1>2, <2>1, <2>2, <2>3
  <1> QED BY <1>3, <1>4, <1>5, <1>6, NextCases, SavingSteps, EnvironmentSame, Zenon

\* A new certificate is in storage for the issuer that made it only.
LEMMA UniqueStep ==
    ASSUME TypeOK, Saved, Unique, [Next]_vars
    PROVE  Unique'
  <1> USE Numbers
  <1> SUFFICES ASSUME LockReliable', NEW i \in IssuerIndex, NEW j \in IssuerIndex,
                      store'[i].cert = store'[j].cert, store'[i].cert # 0
               PROVE  i = j
    BY Zenon DEF Unique
  <1>1. LockReliable
    BY ReliableBefore, Zenon
  <1>2. CASE UNCHANGED store
    BY <1>1, <1>2, Zenon DEF Unique
  <1>3. ASSUME NEW p \in Instance, StoreFile(p) PROVE i = j
    <2>1. pc[p] = "save"
      BY <1>3, StoreStep, Zenon
    <2>2. new[p].files.cert = issued /\ \A k \in IssuerIndex : store[k].cert = issued => k = new[p].issuer
      BY <1>1, <2>1, Zenon DEF Saved
    <2>3. \A k \in IssuerIndex : /\ k # new[p].issuer => store'[k] = store[k]
                                 /\ k = new[p].issuer => store'[k].cert \in {store[k].cert, issued}
      BY <1>3, <2>2, StoreEffect
    <2> QED BY <1>1, <2>2, <2>3 DEF Unique
  <1>4. ASSUME NEW p \in Instance, UndoStore(p) PROVE i = j
    <2>1. \A k \in IssuerIndex : store'[k].cert \in {store[k].cert, 0}
      BY <1>4, UndoEffect, Zenon
    <2> QED BY <1>1, <2>1, Zenon DEF Unique
  <1>5. ASSUME NEW p \in Instance, Issues(p) PROVE UNCHANGED store
    BY <1>5, Zenon DEF Issues, Issue, storage
  <1> QED BY <1>2, <1>3, <1>4, <1>5, NextCases, StepCases, QuietShared, EnvironmentSame, Zenon

\* Saving is the only way to a resource that is not whole, and ends with a
\* whole one.
LEMMA WholeStep ==
    ASSUME TypeOK, \A q \in Instance : InOperation(q), NotAhead, Belongs, Saved, WholeOrSaved,
           [Next]_vars
    PROVE  WholeOrSaved'
  <1> USE Numbers
  <1> SUFFICES ASSUME faults' \subseteq {"load"}, NEW i \in IssuerIndex,
                      ~\E p \in Instance : pc'[p] = "save" /\ new'[p].issuer = i
               PROVE  \/ store'[i] = NoResource
                      \/ /\ store'[i].cert # 0 /\ store'[i].key = keyOf'[store'[i].cert]
                         /\ store'[i].meta = store'[i].cert
    BY Zenon DEF WholeOrSaved, Whole, KeyPair
  <1>1. faults \subseteq {"load"} /\ LockReliable
    BY FaultsGrow, Zenon DEF LockReliable
  <1>2. CASE Whole(store[i]) /\ store'[i] = store[i]
    <2>1. store[i].cert # 0 => keyOf'[store[i].cert] = keyOf[store[i].cert]
      BY KeyOfKept DEF NotAhead
    <2> QED BY <1>2, <2>1, Zenon DEF Whole, KeyPair
  <1>3. ASSUME NEW p \in Instance PROVE ~StoreFails(p) /\ ~Crash(p) /\ ~UndoStore(p)
    BY <1>1, Zenon DEF StoreFails, Crash, UndoStore, Fault, InOperation
  <1>4. ASSUME NEW p \in Instance, pc[p] = "save", new[p].issuer = i PROVE StoreFile(p)
    <2>1. ~Same(p)
      BY <1>4, Zenon DEF Same
    <2>2. Step(p)
      BY <2>1, NextCases, OthersSame, EnvironmentSame, Zenon
    <2> QED BY <1>3, <1>4, <2>2, SavingSteps, Zenon
  <1>5. ASSUME NEW p \in Instance, StoreFile(p), new[p].issuer = i
        PROVE  /\ store'[i].cert # 0 /\ store'[i].key = keyOf'[store'[i].cert]
               /\ store'[i].meta = store'[i].cert
    <2>1. pc[p] = "save" /\ new' = new /\ keyOf' = keyOf /\ step[p] = 3
      BY <1>5, StoreStep, Zenon
    <2>2. /\ store'[i].key = store[i].key /\ store'[i].cert = store[i].cert
          /\ store'[i].meta = new[p].files.meta
      BY <1>5, <2>1, StoreEffect
    <2>3. store[i].key = new[p].files.key /\ store[i].cert = new[p].files.cert
      BY <1>1, <1>5, <2>1 DEF Saved
    <2> QED BY <2>1, <2>2, <2>3, Zenon DEF Belongs, KeyPair
  <1>6. ASSUME \A p \in Instance : StoreFile(p) => new[p].issuer # i
        PROVE  Whole(store[i]) /\ store'[i] = store[i]
    <2>1. ASSUME NEW p \in Instance, StoreFile(p) PROVE store'[i] = store[i]
      BY <1>6, <2>1, StoreEffect
    <2>2. ASSUME NEW p \in Instance, Issues(p) PROVE store' = store
      BY <2>2, Zenon DEF Issues, Issue, storage
    <2>3. store'[i] = store[i]
      BY <1>3, <2>1, <2>2, NextCases, StepCases, QuietShared, EnvironmentSame, Zenon
    <2>4. Whole(store[i])
      BY <1>1, <1>4, <1>6, Zenon DEF WholeOrSaved
    <2> QED BY <2>3, <2>4, Zenon
  <1> QED BY <1>2, <1>5, <1>6, Zenon

-----------------------------------------------------------------------------
(* What a renewal has read under the lock *)

\* Where an instance gets to after the last file of an issuer.
LEMMA NextIssuerEffect ==
    ASSUME TypeOK, NEW p \in Instance, pc[p] = "read", NextIssuer(p)
    PROVE  /\ got'[p] = NoResource /\ step'[p] = 1
           /\ \/ at[p] = IssuerCount /\ at'[p] = 1 /\ pc'[p] = "loaded"
              \/ at[p] < IssuerCount /\ at'[p] = at[p] + 1 /\ pc'[p] = "read"
  <1>1. at[p] \in 1 .. IssuerCount
    BY TypesSplit, Zenon DEF StepsOK, IssuerIndex
  <1> QED BY <1>1, TypesSplit, IssuersAssumption DEF NextIssuer, ReadOK, StepsOK, PlacesOK, Goto

\* A file that is missing is one of an incomplete resource.
LEMMA MissingIncomplete ==
    ASSUME NEW p \in Instance, Missing(p)
    PROVE  ~Complete(store[at[p]])
  BY Zenon DEF Missing, Complete

\* Reading one file more under the lock.
LEMMA ReadLooked ==
    ASSUME TypeOK, NEW p \in Instance, ReadFile(p), LookedAt(p)
    PROVE  LookedAt(p)'
  <1> USE Numbers
  <1>0. pc[p] = "read" /\ store' = store
    BY QuietShared, Zenon DEF ReadFile, Quiet
  <1>1. /\ step[p] > 1 => got[p].key = store[at[p]].key
        /\ step[p] > 2 => got[p].cert = store[at[p]].cert
        /\ best[p].cert # 0 => \E j \in IssuerIndex : best[p] = store[j]
        /\ \A j \in IssuerIndex : (Complete(store[j]) /\ j < at[p]) => store[j].cert <= best[p].cert
    BY <1>0, Zenon DEF LookedAt
  <1> SUFFICES /\ pc'[p] = "read" =>
                     /\ step'[p] > 1 => got'[p].key = store[at'[p]].key
                     /\ step'[p] > 2 => got'[p].cert = store[at'[p]].cert
               /\ best'[p].cert # 0 => \E j \in IssuerIndex : best'[p] = store[j]
               /\ \A j \in IssuerIndex : (Complete(store[j]) /\ (pc'[p] = "read" => j < at'[p]))
                                           => store[j].cert <= best'[p].cert
    BY <1>0, Zenon DEF LookedAt, Complete
  <1>2. CASE ReadNothing(p) /\ Missing(p)
    <2>1. best' = best /\ ~Complete(store[at[p]]) /\ NextIssuer(p)
      BY <1>2, MissingIncomplete, Zenon DEF ReadNothing
    <2>2. /\ step'[p] = 1
          /\ \/ at[p] = IssuerCount /\ pc'[p] = "loaded"
             \/ at'[p] = at[p] + 1 /\ pc'[p] = "read"
      BY <1>0, <2>1, NextIssuerEffect, Zenon
    <2>3. \A j \in IssuerIndex : (Complete(store[j]) /\ (pc'[p] = "read" => j < at'[p])) => j < at[p]
      BY <2>1, <2>2, IssuersAssumption DEF IssuerIndex
    <2> QED BY <1>1, <2>1, <2>2, <2>3
  <1>3. CASE ReadMore(p)
    <2>1. UNCHANGED <<best, at, pc>> /\ step'[p] = step[p] + 1
      BY <1>3, TypesSplit, Zenon DEF ReadMore, StepsOK
    <2>2. /\ step[p] \in {1, 2}
          /\ step[p] = 1 => got'[p].key = store[at[p]].key
          /\ step[p] = 2 => got'[p].key = got[p].key /\ got'[p].cert = store[at[p]].cert
      BY <1>3 DEF ReadMore
    <2> QED BY <1>0, <1>1, <2>1, <2>2
  <1>4. CASE \E r \in Resource : ReadAll(p, r)
    <2> PICK r \in Resource : ReadAll(p, r)
      BY <1>4, Zenon
    <2>1. r = store[at[p]] /\ best'[p] = Newer(best[p], r)
      <3>1. step[p] = 3 /\ r.key = got[p].key /\ r.cert = got[p].cert /\ r.meta = store[at[p]].meta
        BY Zenon DEF ReadAll
      <3>2. r = store[at[p]]
        BY <1>1, <3>1, ResourceEqual
      <3> QED BY <3>2, TypesSplit, Zenon DEF ReadAll, ReadOK
    <2>2. /\ step'[p] = 1
          /\ \/ at[p] = IssuerCount /\ pc'[p] = "loaded"
             \/ at'[p] = at[p] + 1 /\ pc'[p] = "read"
      BY <1>0, NextIssuerEffect, Zenon DEF ReadAll
    <2>3. /\ best'[p] \in Resource
          /\ best'[p] = best[p] \/ best'[p] = r
          /\ best'[p].cert >= best[p].cert /\ best'[p].cert >= r.cert
      BY <2>1, NewerResource, Zenon
    <2>4. best'[p].cert \in Nat /\ r.cert \in Nat
      BY <2>1, <2>3, Zenon
    <2>5. \A j \in IssuerIndex : (pc'[p] = "read" => j < at'[p]) => j < at[p] \/ j = at[p]
      BY <2>2, IssuersAssumption DEF IssuerIndex
    <2> QED BY <1>1, <2>1, <2>2, <2>3, <2>4, <2>5
  <1> QED BY <1>2, <1>3, <1>4, ReadFileCases, TypesSplit, Zenon

\* What was read under the lock stays true until the order.
LEMMA LookedStep ==
    ASSUME TypeOK, \A q \in Instance : InOperation(q), Exclusive, Looked, [Next]_vars
    PROVE  Looked'
  <1> USE Numbers
  <1> SUFFICES ASSUME LockReliable', NEW q \in Instance
               PROVE  /\ (op'[q] = "renew" /\ pc'[q] \in {"read", "loaded", "issue"}) => LookedAt(q)'
                      /\ pc'[q] = "issue" => Needed(q)'
    BY Zenon DEF Looked
  <1>1. LockReliable
    BY ReliableBefore, Zenon
  <1>2. /\ (op[q] = "renew" /\ pc[q] \in {"read", "loaded", "issue"}) => LookedAt(q)
        /\ pc[q] = "issue" => Needed(q)
    BY <1>1, Zenon DEF Looked
  <1>3. CASE Same(q) /\ store' = store /\ due <= due'
    <2>1. LookedAt(q) => LookedAt(q)'
      BY <1>3, Zenon DEF LookedAt, Complete, Same
    <2>2. due' \in Nat
      BY TypeStep, TypesSplit, BoundAssumption DEF SharedOK, Version
    <2>3. Needed(q) => Needed(q)'
      BY <1>3, <2>2 DEF Needed, NeedsRenewal, StorageHasCertResourcesAnyIssuer,
                        StorageHasCertResources, Complete, Same
    <2> QED BY <1>2, <1>3, <2>1, <2>3, Zenon DEF Same
  <1>4. ASSUME NEW p \in Instance \ {q}, Step(p),
               pc'[q] = "issue" \/ (op'[q] = "renew" /\ pc'[q] \in {"read", "loaded"})
        PROVE  Same(q) /\ store' = store /\ due <= due'
    <2>1. Same(q)
      BY <1>4, OthersSame, Zenon
    <2>2. Locked(q)
      BY <1>4, <2>1, Zenon DEF Same, Locked
    <2> QED BY <1>1, <1>4, <2>1, <2>2, NobodyElse
  <1>5. CASE BecomeDue \/ LockExpires \/ LockIsLost \/ UNCHANGED vars
    <2>1. due <= due'
      BY <1>5 DEF BecomeDue, LockExpires, LockIsLost, vars
    <2> QED BY <1>3, <1>5, <2>1, EnvironmentSame, Zenon
  <1>6. CASE Step(q)
    <2>1. CASE AttemptRenew(q)
      <3>1. Fresh(q, "renew", "read") /\ best'[q].cert = 0
        BY <2>1, FreshCases, NothingIsResource, Zenon DEF Fresh
      <3>2. \A j \in IssuerIndex : ~(j < 1)
        BY DEF IssuerIndex
      <3>3. LookedAt(q)'
        BY <3>1, <3>2 DEF Fresh, LookedAt
      <3> QED BY <3>1, <3>3, Zenon DEF Fresh
    <2>2. CASE ReadFile(q)
      BY <1>2, <2>2, ReadLooked, ReadSame, Zenon
    <2>3. CASE RenewLoaded(q)
      <3>1. pc[q] = "loaded" /\ op[q] = "renew" /\ pc'[q] \in {"failed", "unlock", "issue"}
            /\ op'[q] = op[q]
        BY <2>3, WithinCases, Zenon DEF RenewLoaded
      <3>2. UNCHANGED <<best, store, due>>
        BY <2>3, QuietShared, Zenon DEF Quiet, RenewLoaded
      <3>3. LookedAt(q)'
        BY <1>2, <3>1, <3>2, Zenon DEF LookedAt, Complete
      <3>4. pc'[q] = "issue" => NeedsRenewal(best[q].cert, best[q].meta)
        BY <2>3, TypesSplit, Zenon DEF RenewLoaded, Goto, PlacesOK
      <3>5. pc'[q] = "issue" => Needed(q)'
        BY <3>1, <3>2, <3>4, Zenon DEF Needed, NeedsRenewal
      <3> QED BY <3>3, <3>5, Zenon
    <2>4. CASE AttemptObtain(q)
      <3>1. op[q] = "obtain" /\ op'[q] = op[q] /\ store' = store
        BY <2>4, WithinCases, QuietShared, Zenon DEF Quiet, AttemptObtain
      <3>2. pc'[q] = "issue" => ~StorageHasCertResourcesAnyIssuer
        BY <2>4, TypesSplit, Zenon DEF AttemptObtain, Goto, PlacesOK
      <3>3. pc'[q] = "issue" => Needed(q)'
        BY <3>1, <3>2, Zenon DEF Needed, StorageHasCertResourcesAnyIssuer, StorageHasCertResources, Complete
      <3> QED BY <3>1, <3>3, Zenon
    <2>5. CASE ~AttemptRenew(q) /\ ~ReadFile(q) /\ ~RenewLoaded(q) /\ ~AttemptObtain(q)
      <3>1. pc'[q] # "issue" /\ ~(op'[q] = "renew" /\ pc'[q] \in {"read", "loaded"})
        BY <1>6, <2>5, FreshCases, WithinCases, Zenon DEF Fresh, Step, InstanceStep, OperationStep
      <3> QED BY <3>1, Zenon
    <2> QED BY <2>1, <2>2, <2>3, <2>4, <2>5, Zenon
  <1> QED BY <1>3, <1>4, <1>5, <1>6, NextCases, Zenon

-----------------------------------------------------------------------------
(* What readers without the lock have read *)

\* A storage that is steady now has always been.
LEMMA SteadyBefore ==
    ASSUME [Next]_vars, Steady'
    PROVE  Steady
  BY FaultsGrow, Zenon DEF Steady, LockReliable

\* While no file is deleted, storage has all it had, or newer.
LEMMA StoreGrows ==
    ASSUME TypeOK, \A q \in Instance : InOperation(q), NotAhead, Belongs, Saved, [Next]_vars, Steady',
           NEW i \in IssuerIndex
    PROVE  /\ store[i].key # 0 => store'[i].key # 0
           /\ store[i].cert # 0 => store'[i].cert # 0
           /\ store[i].meta # 0 => store'[i].meta # 0
           /\ store[i].cert <= store'[i].cert /\ store'[i].cert \in Nat
  <1> USE Numbers
  <1>1. Steady /\ LockReliable
    BY SteadyBefore, Zenon DEF Steady
  <1>2. CASE store'[i] = store[i]
    BY <1>2
  <1>3. ASSUME NEW p \in Instance, StoreFile(p), new[p].issuer = i
        PROVE  /\ store[i].key # 0 => store'[i].key # 0
               /\ store[i].cert # 0 => store'[i].cert # 0
               /\ store[i].meta # 0 => store'[i].meta # 0
               /\ store[i].cert <= store'[i].cert /\ store'[i].cert \in Nat
    <2>1. pc[p] = "save"
      BY <1>3, StoreStep, Zenon
    <2>2. /\ new[p].files.cert = issued /\ new[p].files.cert # 0
          /\ new[p].files.meta # 0 /\ new[p].files.key # 0
      BY <1>1, <2>1, Zenon DEF Saved, Belongs, KeyPair
    <2>3. /\ store'[i].key = IF step[p] = 1 THEN new[p].files.key ELSE store[i].key
          /\ store'[i].cert = IF step[p] = 2 THEN new[p].files.cert ELSE store[i].cert
          /\ store'[i].meta = IF step[p] = 3 THEN new[p].files.meta ELSE store[i].meta
      BY <1>3, StoreEffect, Zenon
    <2>4. store[i].cert <= issued
      BY Zenon DEF NotAhead
    <2> QED BY <2>2, <2>3, <2>4
  <1>4. ASSUME NEW p \in Instance, StoreFile(p), new[p].issuer # i PROVE store'[i] = store[i]
    BY <1>4, StoreEffect
  <1>5. ASSUME NEW p \in Instance PROVE ~UndoStore(p)
    BY <1>1, Zenon DEF UndoStore, InOperation, Steady
  <1>6. ASSUME NEW p \in Instance, Issues(p) PROVE store' = store
    BY <1>6, Zenon DEF Issues, Issue, storage
  <1> QED BY <1>2, <1>3, <1>4, <1>5, <1>6, NextCases, StepCases, QuietShared, EnvironmentSame

\* While nothing is deleted, a complete resource stays and gets no older.
LEMMA HoldsGrows ==
    ASSUME TypeOK, \A q \in Instance : InOperation(q), NotAhead, Belongs, Saved, [Next]_vars, Steady',
           NEW i \in IssuerIndex, NEW c \in Nat, Holds(i, c)
    PROVE  Complete(store'[i]) /\ store'[i].cert >= c
  <1>1. store[i].cert \in Nat /\ store[i].cert >= c /\ Complete(store[i])
    BY Numbers, Zenon DEF Holds
  <1> QED BY <1>1, StoreGrows DEF Complete

\* Kept, for one instance.
KeptBy(p) ==
    /\ mem[p] # 0 => \E i \in IssuerIndex : Holds(i, mem[p])
    /\ best[p].cert # 0 => \E i \in IssuerIndex : Holds(i, best[p].cert)
    /\ pc[p] = "read" =>
          /\ step[p] > 1 => store[at[p]].key # 0
          /\ step[p] > 2 => store[at[p]].cert # 0 /\ got[p].cert <= store[at[p]].cert

\* What an instance has read stays true while it reads nothing ...
LEMMA KeptSame ==
    ASSUME TypeOK, \A q \in Instance : InOperation(q), NotAhead, Belongs, Saved, [Next]_vars, Steady',
           NEW q \in Instance, KeptBy(q), mem'[q] = mem[q], best'[q].cert = best[q].cert,
           pc'[q] # "read" \/ Same(q)
    PROVE  KeptBy(q)'
  <1> USE Numbers
  <1>1. mem[q] # 0 => \E i \in IssuerIndex : Complete(store'[i]) /\ store'[i].cert >= mem[q]
    BY HoldsGrows, Zenon DEF KeptBy
  <1>2. best[q].cert # 0 => \E i \in IssuerIndex : Complete(store'[i]) /\ store'[i].cert >= best[q].cert
    BY HoldsGrows, Zenon DEF KeptBy
  <1>3. pc'[q] = "read" => /\ step'[q] > 1 => store'[at'[q]].key # 0
                           /\ step'[q] > 2 => store'[at'[q]].cert # 0 /\ got'[q].cert <= store'[at'[q]].cert
    BY StoreGrows DEF KeptBy, Same
  <1> QED BY <1>1, <1>2, <1>3, Zenon DEF KeptBy, Holds, Complete

\* ... and when it reads on.
LEMMA ReadKept ==
    ASSUME TypeOK, NEW p \in Instance, ReadFile(p), KeptBy(p)
    PROVE  KeptBy(p)'
  <1> USE Numbers
  <1>0. pc[p] = "read" /\ store' = store /\ mem'[p] = mem[p]
    BY QuietShared, ReadSame, Zenon DEF Quiet
  <1>1. /\ mem[p] # 0 => \E i \in IssuerIndex : Holds(i, mem[p])
        /\ best[p].cert # 0 => \E i \in IssuerIndex : Holds(i, best[p].cert)
        /\ step[p] > 1 => store[at[p]].key # 0
        /\ step[p] > 2 => store[at[p]].cert # 0 /\ got[p].cert <= store[at[p]].cert
    BY <1>0, Zenon DEF KeptBy
  <1> SUFFICES /\ best'[p].cert # 0 => \E i \in IssuerIndex : Holds(i, best'[p].cert)
               /\ pc'[p] = "read" =>
                     /\ step'[p] > 1 => store[at'[p]].key # 0
                     /\ step'[p] > 2 => store[at'[p]].cert # 0 /\ got'[p].cert <= store[at'[p]].cert
    BY <1>0, <1>1, Zenon DEF KeptBy, Holds, Complete
  <1>2. CASE ReadNothing(p)
    BY <1>0, <1>1, <1>2, NextIssuerEffect DEF ReadNothing
  <1>3. CASE ReadMore(p)
    <2>1. UNCHANGED <<best, at, pc>> /\ step'[p] = step[p] + 1
      BY <1>3, TypesSplit, Zenon DEF ReadMore, StepsOK
    <2>2. \/ step[p] = 1 /\ store[at[p]].key # 0
          \/ step[p] = 2 /\ store[at[p]].cert # 0 /\ got'[p].cert = store[at[p]].cert
      BY <1>3, Zenon DEF ReadMore
    <2> QED BY <1>1, <2>1, <2>2
  <1>4. CASE \E r \in Resource : ReadAll(p, r)
    <2> PICK r \in Resource : ReadAll(p, r)
      BY <1>4, Zenon
    <2>1. step[p] = 3 /\ r.cert = got[p].cert /\ store[at[p]].meta # 0
      BY Zenon DEF ReadAll
    <2>2. Holds(at[p], r.cert)
      BY <1>1, <2>1 DEF Holds, Complete
    <2>3. best'[p] = best[p] \/ best'[p] = r
      BY NewerResource, TypesSplit, Zenon DEF ReadAll, ReadOK
    <2>4. step'[p] = 1
      BY <1>0, NextIssuerEffect, Zenon DEF ReadAll
    <2> QED BY <1>1, <2>2, <2>3, <2>4
  <1> QED BY <1>2, <1>3, <1>4, ReadFileCases, TypesSplit, Zenon

\* Every step keeps what was read in storage.
LEMMA KeptStep ==
    ASSUME TypeOK, \A q \in Instance : InOperation(q), NotAhead, Belongs, Saved, Kept, [Next]_vars
    PROVE  Kept'
  <1> USE Numbers
  <1> SUFFICES ASSUME Steady', NEW q \in Instance PROVE KeptBy(q)'
    BY Zenon DEF Kept, KeptBy
  <1>1. KeptBy(q)
    BY SteadyBefore, Zenon DEF Kept, KeptBy
  <1>2. CASE Same(q)
    BY <1>1, <1>2, KeptSame, Zenon DEF Same
  <1>3. CASE Step(q)
    <2>1. CASE ReadFile(q)
      BY <1>1, <2>1, ReadKept, Zenon
    <2>2. CASE \/ AcquireLock(q) \/ AttemptObtain(q) \/ RenewLoaded(q) \/ IssueFails(q) \/ Issues(q)
               \/ StoreFile(q) \/ StoreFails(q) \/ UndoStore(q) \/ GiveUp(q)
      <3>1. mem'[q] = mem[q] /\ best'[q].cert = best[q].cert /\ pc'[q] # "read"
        BY <2>2, WithinCases, Zenon
      <3> QED BY <1>1, <3>1, KeptSame, Zenon
    <2>3. CASE \/ Manage(q) \/ Maintain(q) \/ MaintainLoaded(q) \/ ManageLoaded(q) \/ CacheLoaded(q)
               \/ Crash(q) \/ Unlock(q) \/ ReadFails(q) \/ AttemptRenew(q) \/ Retry(q) \/ ObtainCheck(q)
      <3>1. UNCHANGED store
        BY <2>3, QuietShared, Zenon DEF Quiet
      <3>2. mem'[q] \in {0, mem[q], best[q].cert}
        BY <2>3, FreshCases, CacheCases, Zenon
      <3>3. mem'[q] # 0 => \E i \in IssuerIndex : Holds(i, mem'[q])
        BY <1>1, <3>2, Zenon DEF KeptBy
      <3>4. \/ step'[q] = 1 /\ best'[q].cert = 0
            \/ pc'[q] # "read" /\ best' = best
        BY <2>3, FreshCases, NothingIsResource, Zenon DEF Fresh
      <3> QED BY <1>1, <3>1, <3>3, <3>4 DEF KeptBy, Holds, Complete
    <2> QED BY <1>3, <2>1, <2>2, <2>3, Zenon DEF Step, InstanceStep, OperationStep
  <1> QED BY <1>2, <1>3, NextCases, OthersSame, EnvironmentSame, Zenon

\* ReloadKept, for one instance and the issuer that has its certificate.
ReloadHolds(p, i) ==
    /\ Holds(i, mem[p])
    /\ (pc[p] = "loaded" \/ i < at[p]) => best[p].cert >= mem[p]
    /\ (pc[p] = "read" /\ at[p] = i /\ step[p] > 2) => got[p].cert >= mem[p]

\* Reading one file more in a reload.
LEMMA ReadReload ==
    ASSUME TypeOK, NEW p \in Instance, ReadFile(p), NEW i \in IssuerIndex, ReloadHolds(p, i)
    PROVE  ReloadHolds(p, i)'
  <1> USE Numbers
  <1>0. pc[p] = "read" /\ store' = store /\ mem'[p] = mem[p]
    BY QuietShared, ReadSame, Zenon DEF Quiet
  <1>1. /\ i < at[p] => best[p].cert >= mem[p]
        /\ (at[p] = i /\ step[p] > 2) => got[p].cert >= mem[p]
        /\ Complete(store[i]) /\ store[i].cert >= mem[p]
    BY <1>0, Zenon DEF ReloadHolds, Holds
  <1>2. i \in 1 .. IssuerCount /\ at[p] \in 1 .. IssuerCount
    BY Zenon DEF IssuerIndex
  <1> SUFFICES /\ (pc'[p] = "loaded" \/ i < at'[p]) => best'[p].cert >= mem[p]
               /\ (pc'[p] = "read" /\ at'[p] = i /\ step'[p] > 2) => got'[p].cert >= mem[p]
    BY <1>0, <1>1, Zenon DEF ReloadHolds, Holds, Complete
  <1>3. CASE ReadNothing(p) /\ Missing(p)
    <2>1. best' = best /\ at[p] # i /\ NextIssuer(p)
      BY <1>1, <1>3, MissingIncomplete, Zenon DEF ReadNothing
    <2>2. /\ step'[p] = 1
          /\ \/ at[p] = IssuerCount /\ at'[p] = 1 /\ pc'[p] = "loaded"
             \/ at'[p] = at[p] + 1 /\ pc'[p] = "read"
      BY <1>0, <2>1, NextIssuerEffect, Zenon
    <2> QED BY <1>1, <1>2, <2>1, <2>2, IssuersAssumption
  <1>4. CASE ReadMore(p)
    <2>1. UNCHANGED <<best, at, pc>> /\ step'[p] = step[p] + 1
      BY <1>4, TypesSplit, Zenon DEF ReadMore, StepsOK
    <2>2. step[p] = 1 \/ (step[p] = 2 /\ got'[p].cert = store[at[p]].cert)
      BY <1>4, Zenon DEF ReadMore
    <2> QED BY <1>0, <1>1, <2>1, <2>2
  <1>5. CASE \E r \in Resource : ReadAll(p, r)
    <2> PICK r \in Resource : ReadAll(p, r)
      BY <1>5, Zenon
    <2>1. step[p] = 3 /\ r.cert = got[p].cert /\ best'[p] = Newer(best[p], r)
      BY TypesSplit, Zenon DEF ReadAll, ReadOK
    <2>2. best'[p].cert >= best[p].cert /\ best'[p].cert >= got[p].cert /\ best'[p].cert \in Nat
      <3>1. Newer(best[p], r).cert \in Nat
        BY NewerResource, BoundAssumption DEF Resource, Version
      <3> QED BY <2>1, <3>1, NewerResource, Zenon
    <2>3. /\ step'[p] = 1
          /\ \/ at[p] = IssuerCount /\ at'[p] = 1 /\ pc'[p] = "loaded"
             \/ at'[p] = at[p] + 1 /\ pc'[p] = "read"
      BY <1>0, NextIssuerEffect, Zenon DEF ReadAll
    <2>4. i <= at[p] => best'[p].cert >= mem[p]
      BY <1>1, <1>2, <2>1, <2>2
    <2>5. ~(i <= at[p]) => pc'[p] = "read" /\ ~(i < at'[p])
      BY <1>2, <2>3, IssuersAssumption
    <2> QED BY <2>3, <2>4, <2>5
  <1> QED BY <1>3, <1>4, <1>5, ReadFileCases, TypesSplit, Zenon

\* Every step leaves a reload with what it has to find.
LEMMA ReloadStep ==
    ASSUME TypeOK, \A q \in Instance : InOperation(q), NotAhead, Belongs, Saved, Kept, ReloadKept,
           [Next]_vars
    PROVE  ReloadKept'
  <1> USE Numbers
  <1> SUFFICES ASSUME Steady', NEW q \in Instance, op'[q] = "reload", mem'[q] # 0
               PROVE  \E i \in IssuerIndex : ReloadHolds(q, i)'
    BY Zenon DEF ReloadKept, ReloadHolds
  <1>1. (op[q] = "reload" /\ mem[q] # 0) => \E i \in IssuerIndex : ReloadHolds(q, i)
    BY SteadyBefore, Zenon DEF ReloadKept, ReloadHolds
  <1>2. mem[q] # 0 => \E i \in IssuerIndex : Holds(i, mem[q])
    BY SteadyBefore, Zenon DEF Kept
  <1>3. CASE Same(q)
    <2>1. PICK i \in IssuerIndex : ReloadHolds(q, i)
      BY <1>1, <1>3, Zenon DEF Same
    <2>2. Complete(store'[i]) /\ store'[i].cert >= mem[q]
      BY <2>1, HoldsGrows, Zenon DEF ReloadHolds
    <2>3. ReloadHolds(q, i)'
      BY <1>3, <2>1, <2>2, Zenon DEF ReloadHolds, Holds, Complete, Same
    <2> QED BY <2>3, Zenon
  <1>4. CASE ReadFile(q)
    BY <1>1, <1>4, ReadReload, ReadSame, Zenon
  <1>5. CASE Step(q) /\ ~ReadFile(q)
    <2>1. Fresh(q, "reload", "read") /\ mem'[q] = mem[q] /\ store' = store
      <3>1. CASE \/ AcquireLock(q) \/ AttemptObtain(q) \/ RenewLoaded(q) \/ IssueFails(q) \/ Issues(q)
                 \/ StoreFile(q) \/ StoreFails(q) \/ UndoStore(q) \/ GiveUp(q) \/ Retry(q)
        <4>1. op'[q] = op[q]
          BY <3>1, WithinCases, FreshCases, Zenon DEF Fresh
        <4>2. op[q] \in {"obtain", "renew"}
          <5>1. AttemptObtain(q) => op[q] = "obtain"
            BY Zenon DEF AttemptObtain
          <5>2. RenewLoaded(q) => op[q] = "renew"
            BY Zenon DEF RenewLoaded
          <5>3. Retry(q) => pc[q] = "failed"
            BY Zenon DEF Retry
          <5> QED BY <3>1, <5>1, <5>2, <5>3, WithinCases, Zenon DEF InOperation
        <4> QED BY <4>1, <4>2, Zenon
      <3>2. CASE MaintainLoaded(q) \/ Unlock(q)
        <4>1. store' = store
          BY <3>2, QuietShared, Zenon DEF Quiet
        <4> QED BY <3>2, <4>1, FreshCases, Zenon DEF Fresh
      <3>3. CASE \/ Manage(q) \/ Maintain(q) \/ ManageLoaded(q) \/ CacheLoaded(q)
                 \/ Crash(q) \/ ReadFails(q) \/ AttemptRenew(q) \/ ObtainCheck(q)
        <4>1. ObtainCheck(q) => op[q] = "obtain"
          BY Zenon DEF ObtainCheck, InOperation
        <4> QED BY <3>3, <4>1, FreshCases, Zenon DEF Fresh
      <3> QED BY <1>5, <3>1, <3>2, <3>3, Zenon DEF Step, InstanceStep, OperationStep
    <2>2. PICK i \in IssuerIndex : Holds(i, mem[q])
      BY <1>2, <2>1, Zenon
    <2>3. ~(i < 1)
      BY DEF IssuerIndex
    <2>4. ReloadHolds(q, i)'
      BY <2>1, <2>2, <2>3 DEF ReloadHolds, Holds, Complete, Fresh
    <2> QED BY <2>4, Zenon
  <1> QED BY <1>3, <1>4, <1>5, NextCases, OthersSame, EnvironmentSame, Zenon

-----------------------------------------------------------------------------
(* With one issuer *)

\* With one issuer and a reliable lock, it has always been so.
LEMMA AloneBefore ==
    ASSUME [Next]_vars, Alone'
    PROVE  Alone /\ LockReliable /\ IssuerIndex = {1}
  BY FaultsGrow DEF Alone, LockReliable, IssuerIndex

\* What an instance has read is what it had read, or comes from storage.
LEMMA ReadOrigin ==
    ASSUME TypeOK, NEW p \in Instance, ReadFile(p)
    PROVE  /\ got'[p].cert \in {0, got[p].cert, store[at[p]].cert}
           /\ best'[p].cert \in {best[p].cert, got[p].cert}
  <1> USE TypesSplit
  <1>1. ASSUME NextIssuer(p) PROVE got'[p].cert = 0
    BY <1>1, NothingIsResource, Zenon DEF NextIssuer, ReadOK
  <1>2. CASE ReadNothing(p)
    BY <1>1, <1>2, Zenon DEF ReadNothing
  <1>3. CASE ReadMore(p)
    BY <1>3, Zenon DEF ReadMore
  <1>4. CASE \E r \in Resource : ReadAll(p, r)
    <2> PICK r \in Resource : ReadAll(p, r)
      BY <1>4, Zenon
    <2>1. best'[p] \in {best[p], r} /\ r.cert = got[p].cert
      BY NewerResource, Zenon DEF ReadAll, ReadOK
    <2> QED BY <1>1, <2>1, Zenon DEF ReadAll
  <1> QED BY <1>2, <1>3, <1>4, ReadFileCases, Zenon

\* What an instance has becomes nothing, what it had, or what it has read.
LEMMA StepOrigin ==
    ASSUME TypeOK, NEW p \in Instance, Step(p), ~ReadFile(p)
    PROVE  /\ mem'[p] \in {0, mem[p], best[p].cert}
           /\ best'[p].cert \in {0, best[p].cert} /\ got'[p].cert \in {0, got[p].cert}
           /\ op'[p] = "reload" =>
                 /\ mem'[p] = mem[p]
                 /\ op[p] = "reload" \/ (best'[p].cert = 0 /\ got'[p].cert = 0)
  <1>1. ASSUME NEW o, NEW l, Fresh(p, o, l) PROVE got'[p].cert = 0 /\ best'[p].cert = 0
    BY <1>1, NothingIsResource, Zenon DEF Fresh
  <1>2. CASE \/ AcquireLock(p) \/ AttemptObtain(p) \/ RenewLoaded(p) \/ IssueFails(p) \/ Issues(p)
             \/ StoreFile(p) \/ StoreFails(p) \/ UndoStore(p) \/ GiveUp(p)
    <2>1. got' = got /\ best'[p].cert = best[p].cert /\ mem'[p] = mem[p] /\ op'[p] = op[p]
      BY <1>2, WithinCases, Zenon
    <2> QED BY <2>1, Zenon
  <1>3. CASE \/ Manage(p) \/ Maintain(p) \/ MaintainLoaded(p) \/ Unlock(p) \/ ReadFails(p)
             \/ AttemptRenew(p) \/ Retry(p) \/ Crash(p)
    <2>1. \E o, l : Fresh(p, o, l)
      BY <1>3, FreshCases, Zenon
    <2>2. mem'[p] = mem[p] \/ (mem'[p] = 0 /\ op'[p] = "none")
      BY <1>3, FreshCases, Zenon DEF Fresh
    <2> QED BY <1>1, <2>1, <2>2, Zenon
  <1>4. CASE ManageLoaded(p) \/ CacheLoaded(p)
    <2>1. \E o \in {"obtain", "renew", "none"}, l \in {"check", "lock", "idle"} : Fresh(p, o, l)
      BY <1>4, FreshCases, Zenon
    <2>2. op'[p] # "reload"
      BY <2>1, Zenon DEF Fresh
    <2> QED BY <1>1, <1>4, <2>1, <2>2, CacheCases, Zenon
  <1>5. CASE ObtainCheck(p)
    <2>1. mem'[p] = mem[p] /\ (Fresh(p, "cache", "read") \/ UNCHANGED <<op, got, best>>)
      BY <1>5, FreshCases, Zenon
    <2> QED BY <1>1, <2>1, Zenon
  <1> QED BY <1>2, <1>3, <1>4, <1>5, Zenon DEF Step, InstanceStep, OperationStep

\* With one issuer, storage only gets newer or loses a file.
LEMMA HighWaterStep ==
    ASSUME TypeOK, NotAhead, Saved, HighWater, [Next]_vars
    PROVE  HighWater'
  <1> USE Numbers
  <1> SUFFICES ASSUME Alone', NEW i \in IssuerIndex, NEW q \in Instance, store'[i].cert # 0
               PROVE  /\ mem'[q] <= store'[i].cert /\ best'[q].cert <= store'[i].cert
                      /\ got'[q].cert <= store'[i].cert
    BY Zenon DEF HighWater
  <1>1. Alone /\ LockReliable /\ i = 1 /\ \A p \in Instance : at[p] = i
    BY AloneBefore, Zenon
  <1>2. store[i].cert # 0 => /\ mem[q] <= store[i].cert /\ best[q].cert <= store[i].cert
                             /\ got[q].cert <= store[i].cert
    BY <1>1, Zenon DEF HighWater
  <1>3. CASE store'[i].cert = store[i].cert /\ Same(q)
    BY <1>2, <1>3, Zenon DEF Same
  <1>4. CASE store'[i].cert = store[i].cert /\ ReadFile(q)
    BY <1>1, <1>2, <1>4, ReadOrigin, ReadSame
  <1>5. CASE store'[i].cert = store[i].cert /\ Step(q) /\ ~ReadFile(q)
    BY <1>2, <1>5, StepOrigin
  <1>6. CASE store'[i].cert # store[i].cert
    <2>1. PICK p \in Instance : StoreFile(p) \/ UndoStore(p)
      <3>1. ASSUME NEW p \in Instance, Issues(p) PROVE store' = store
        BY <3>1, Zenon DEF Issues, Issue, storage
      <3> QED BY <1>6, <3>1, NextCases, StepCases, QuietShared, EnvironmentSame, Zenon
    <2>2. StoreFile(p)
      BY <1>6, <2>1, UndoEffect, Zenon
    <2>3. store'[i].cert = new[p].files.cert
      BY <1>6, <2>2, StoreEffect
    <2>4. pc[p] = "save"
      BY <2>2, StoreStep, Zenon
    <2>5. store'[i].cert = issued
      BY <1>1, <2>3, <2>4, Zenon DEF Saved
    <2>6. UNCHANGED <<best, got>> /\ mem' = mem
      BY <2>2, Zenon DEF StoreFile, cached
    <2> QED BY <2>5, <2>6, Zenon DEF NotAhead
  <1> QED BY <1>3, <1>4, <1>5, <1>6, NextCases, OthersSame, EnvironmentSame

\* With one issuer, a reload finds nothing older than what is cached.
LEMMA ReloadAloneStep ==
    ASSUME TypeOK, HighWater, ReloadAlone, [Next]_vars
    PROVE  ReloadAlone'
  <1> USE Numbers
  <1> SUFFICES ASSUME Alone', NEW q \in Instance, op'[q] = "reload"
               PROVE  /\ best'[q].cert # 0 => best'[q].cert >= mem'[q]
                      /\ got'[q].cert # 0 => got'[q].cert >= mem'[q]
    BY Zenon DEF ReloadAlone
  <1>1. Alone
    BY AloneBefore, Zenon
  <1>2. op[q] = "reload" => /\ best[q].cert # 0 => best[q].cert >= mem[q]
                            /\ got[q].cert # 0 => got[q].cert >= mem[q]
    BY <1>1, Zenon DEF ReloadAlone
  <1>3. CASE Same(q)
    BY <1>2, <1>3, Zenon DEF Same
  <1>4. CASE ReadFile(q)
    <2>1. op[q] = "reload" /\ mem'[q] = mem[q]
      BY <1>4, ReadSame, Zenon
    <2>2. store[at[q]].cert # 0 => store[at[q]].cert >= mem[q]
      BY <1>1, Zenon DEF HighWater
    <2> QED BY <1>2, <1>4, <2>1, <2>2, ReadOrigin, Zenon
  <1>5. CASE Step(q) /\ ~ReadFile(q)
    BY <1>2, <1>5, StepOrigin, Zenon
  <1> QED BY <1>3, <1>4, <1>5, NextCases, OthersSame, EnvironmentSame, Zenon

-----------------------------------------------------------------------------
(* The theorems *)

\* The invariant holds at first ...
LEMMA InitInvariant == Init => IInv
  <1> SUFFICES ASSUME Init PROVE IInv
    BY Zenon
  <1> USE NothingIsResource
  <1>1. TypeOK
    BY InitTypes, Zenon
  <1>2. \A p \in Instance : InOperation(p)
    BY Zenon DEF Init, InOperation
  <1>3. NotAhead
    BY DEF Init, NotAhead, NothingNew
  <1>4. Belongs /\ Exclusive /\ Saved
    BY Zenon DEF Init, Belongs, Exclusive, Saved, Locked
  <1>5. Unique /\ WholeOrSaved /\ Looked
    BY Zenon DEF Init, Unique, WholeOrSaved, Looked, Whole
  <1>6. Kept /\ ReloadKept /\ HighWater /\ ReloadAlone
    BY Zenon DEF Init, Kept, ReloadKept, HighWater, ReloadAlone
  <1> QED BY <1>1, <1>2, <1>3, <1>4, <1>5, <1>6, Zenon DEF IInv

\* ... every step keeps it ...
LEMMA InvariantStep == IInv /\ [Next]_vars => IInv'
  <1> SUFFICES ASSUME IInv, [Next]_vars PROVE IInv'
    BY Zenon
  <1> USE DEF IInv
  <1>1. TypeOK' /\ (\A p \in Instance : InOperation(p))'
    BY TypeStep, InOperationStep, Zenon
  <1>2. NotAhead' /\ Belongs' /\ Exclusive'
    BY NotAheadStep, BelongsStep, ExclusiveStep, Zenon
  <1>3. Saved' /\ Unique' /\ WholeOrSaved' /\ Looked'
    BY SavedStep, UniqueStep, WholeStep, LookedStep, Zenon
  <1>4. Kept' /\ ReloadKept' /\ HighWater' /\ ReloadAlone'
    BY KeptStep, ReloadStep, HighWaterStep, ReloadAloneStep, Zenon
  <1> QED BY <1>1, <1>2, <1>3, <1>4, Zenon

\* ... and so it always holds.
LEMMA InvariantHolds == Spec => []IInv
  BY InitInvariant, InvariantStep, PTL DEF Spec

\* Types: storage, the CA and every operation stay within the values that
\* config.go and crypto.go give them.
THEOREM IssuanceTypes == Spec => []TypeOK
  <1>1. IInv => TypeOK
    BY Zenon DEF IInv
  <1> QED BY <1>1, InvariantHolds, PTL

\* Mutual exclusion by the storage lock: of the instances between acquireLock
\* and releaseLock in obtainCert and renewCert there is never more than one,
\* whatever crashes, unless the lock of a live instance was taken for stale.
THEOREM IssuanceExclusive ==
    Spec => [](LockReliable => \A p, q \in Instance : Locked(p) /\ Locked(q) => p = q)
  <1>1. IInv => (LockReliable => \A p, q \in Instance : Locked(p) /\ Locked(q) => p = q)
    BY Zenon DEF IInv, Exclusive
  <1> QED BY <1>1, InvariantHolds, PTL

\* While nobody is saving, every stored resource is a whole one (storeTx under
\* the lock), for any number of instances, issuers and certificates.
THEOREM IssuanceWhole == Spec => []StoredResourcesWhole
  <1>1. IInv => StoredResourcesWhole
    BY Zenon DEF IInv, WholeOrSaved, Whole, StoredResourcesWhole
  <1> QED BY <1>1, InvariantHolds, PTL

\* Nothing is issued without need: the check under the lock in obtainCert and
\* renewCert sees the last certificate, if it is in storage.
THEOREM IssuanceOnlyIfNeeded == Spec => IssuedOnlyIfNeeded
  <1>1. ASSUME IInv, [Next]_vars, issued' > issued, LockReliable, LastIsKept, issued # due
        PROVE  FALSE
    <2> USE <1>1 DEF IInv
    <2> USE Numbers
    <2>1. PICK p \in Instance : Issues(p)
      <3>1. ASSUME NEW p \in Instance, StoreFile(p) \/ UndoStore(p) PROVE issued' = issued
        BY <3>1, Zenon DEF StoreFile, UndoStore, ca
      <3> QED BY <3>1, NextCases, StepCases, QuietShared, EnvironmentSame
    <2>2. pc[p] = "issue" /\ Locked(p) /\ op[p] \in {"obtain", "renew"}
      BY <2>1, WithinCases, Zenon DEF Locked, InOperation
    <2>3. ~\E q \in Instance : pc[q] = "save"
      BY <2>2, Zenon DEF Exclusive, Locked
    <2>4. PICK i \in IssuerIndex : store[i].cert = issued /\ Complete(store[i]) /\ store[i].meta = issued
      BY <2>3, Zenon DEF LastIsKept
    <2>5. op[p] = "renew" /\ LookedAt(p) /\ NeedsRenewal(best[p].cert, best[p].meta)
      BY <2>2, <2>4, Zenon
         DEF Looked, Needed, StorageHasCertResourcesAnyIssuer, StorageHasCertResources
    <2>6. issued <= best[p].cert /\ best[p].cert <= issued /\ issued # 0
      BY <2>2, <2>4, <2>5, Zenon DEF LookedAt, NotAhead, Complete
    <2>7. best[p].cert = issued
      BY <2>6
    <2>8. PICK j \in IssuerIndex : best[p] = store[j]
      BY <2>5, <2>6, <2>7, Zenon DEF LookedAt
    <2>9. j = i
      BY <2>4, <2>6, <2>7, <2>8, Zenon DEF Unique
    <2>10. best[p].meta = issued
      BY <2>4, <2>8, <2>9, Zenon
    <2>11. due <= issued
      BY TypesSplit DEF SharedOK
    <2> QED BY <1>1, <2>5, <2>7, <2>10, <2>11 DEF NeedsRenewal
  <1>2. IInv /\ [Next]_vars =>
            [(issued' > issued /\ LockReliable) => (issued = due \/ ~LastIsKept)]_vars
    BY <1>1, Zenon
  <1> QED BY <1>2, InvariantHolds, PTL DEF Spec, IssuedOnlyIfNeeded

\* No instance replaces its certificate by an older one: a reader of storage
\* without a lock gets what it had, or something newer, or an error.
THEOREM IssuanceNeverOlder == Spec => NeverOlder
  <1>1. ASSUME IInv, [Next]_vars, LockReliable, IssuerCount > 1 => "store" \notin faults,
               NEW p \in Instance, mem'[p] < mem[p]
        PROVE  mem'[p] = 0
    <2> USE <1>1 DEF IInv
    <2> USE Numbers
    <2>1. ~Same(p) /\ mem'[p] # mem[p]
      BY DEF Same
    <2>2. Step(p)
      BY <2>1, NextCases, OthersSame, EnvironmentSame, Zenon
    <2>3. CASE Crash(p)
      BY <2>3, FreshCases, Zenon
    <2>4. CASE ManageLoaded(p)
      <3>1. mem[p] = 0
        BY <2>4, Zenon DEF ManageLoaded, InOperation
      <3>2. mem'[p] \in Nat
        BY TypeStep, TypesSplit, BoundAssumption DEF CachedOK, Version
      <3> QED BY <3>1, <3>2
    <2>5. CASE CacheLoaded(p)
      <3>1. pc[p] = "loaded" /\ op[p] \in {"cache", "reload"}
        BY <2>5, Zenon DEF CacheLoaded
      <3>2. mem'[p] = best[p].cert /\ best[p].cert # 0 /\ mem[p] # 0
        BY <2>1, <2>5, CacheCases DEF KeyPair
      <3>3. op[p] = "reload"
        BY <3>1, <3>2, Zenon DEF InOperation
      <3>4. CASE IssuerCount = 1
        BY <3>2, <3>3, <3>4 DEF ReloadAlone, Alone
      <3>5. CASE IssuerCount # 1
        <4>1. Steady
          BY <3>5, IssuersAssumption DEF Steady
        <4> QED BY <3>1, <3>2, <3>3, <4>1 DEF ReloadKept
      <3> QED BY <3>4, <3>5, Zenon
    <2>6. CASE ~Crash(p) /\ ~ManageLoaded(p) /\ ~CacheLoaded(p)
      BY <2>1, <2>2, <2>6, FreshCases, WithinCases, ReadSame, Zenon DEF Step, InstanceStep, OperationStep
    <2> QED BY <2>3, <2>4, <2>5, <2>6, Zenon
  <1>2. IInv /\ [Next]_vars =>
            [(LockReliable /\ (IssuerCount > 1 => "store" \notin faults)) =>
                 \A p \in Instance : mem'[p] < mem[p] => mem'[p] = 0]_vars
    BY <1>1, Zenon
  <1> QED BY <1>2, InvariantHolds, PTL DEF Spec, NeverOlder
=============================================================================
