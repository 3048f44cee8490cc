------------------------------ MODULE CertCache ------------------------------
(***************************************************************************)
(* The in-memory certificate cache (cache.go): certificates keyed by hash, *)
(* an index from subject name to hashes, a capacity with random eviction,  *)
(* and the operations of its users (maintain.go, handshake.go, config.go)  *)
(* that read a certificate under the lock, do I/O outside it, and come     *)
(* back later with their copy.                                             *)
(*                                                                         *)
(* A certificate is its hash, which determines its names.  The key list of *)
(* a name is the number of times each hash occurs in it; its order plays   *)
(* no part in what is kept.  Every critical section of certCache.mu is one *)
(* action.                                                                 *)
(***************************************************************************)
EXTENDS Integers, FiniteSets

CONSTANTS
    Hash, Name,
    SAN,            \* how often each name occurs in Names of each certificate
    Managed,        \* the certificates with managed set
    IssuerKey,      \* the issuerKey of each certificate
    Issuer, AnyIssuer,
    Capacity,       \* the capacities SetOptions may be called with
    Actor           \* goroutines that hold copies of certificates

ASSUME SANAssumption == SAN \in [Hash -> [Name -> Nat]]
ASSUME CapacityAssumption == Capacity \subseteq Int /\ Capacity # {}
ASSUME ManagedAssumption == Managed \subseteq Hash

VARIABLES
    cached,     \* the keys of certCache.cache
    index,      \* certCache.cacheIndex
    capacity,   \* certCache.options.Capacity
    task,       \* what each goroutine is doing: "none", "copy", "delete"
    copy,       \* the certificates it holds, or the hashes it will delete
    unindexed   \* cached certificates that a handshake put back (history)

cacheVars == <<cached, index, capacity, task, copy, unindexed>>

\* The types of the variables (the two maps of Cache and its callers).
CacheTypeOK ==
    /\ cached \subseteq Hash
    /\ index \in [Name -> [Hash -> Nat]]
    /\ capacity \in Capacity
    /\ task \in [Actor -> {"none", "copy", "delete"}]
    /\ copy \in [Actor -> SUBSET Hash]
    /\ unindexed \subseteq cached

CacheInit ==
    /\ cached = {}
    /\ index = [n \in Name |-> [h \in Hash |-> 0]]
    /\ capacity \in Capacity
    /\ task = [a \in Actor |-> "none"]
    /\ copy = [a \in Actor |-> {}]
    /\ unindexed = {}

\* Mutant of Unindex: one mention per name of the certificate is taken away,
\* without looking whether the key list has any.
UnindexBlindly(ix, S) ==
    [n \in Name |-> [h \in Hash |->
        IF h \in S THEN ix[n][h] - SAN[h][n] ELSE ix[n][h]]]

\* removeCertificate of each certificate in S, on the index: every mention of
\* it is deleted from the key lists of its names.
Unindex(ix, S) ==
    [n \in Name |-> [h \in Hash |->
        IF h \in S /\ SAN[h][n] > 0 THEN 0 ELSE ix[n][h]]]

\* The hash is appended to the key list of each of the names.
AddToIndex(ix, h) ==
    [n \in Name |-> [k \in Hash |->
        IF k = h THEN ix[n][k] + SAN[k][n] ELSE ix[n][k]]]

AtCapacity(S) == capacity > 0 /\ Cardinality(S) >= capacity

\* Mutant of UnsyncedCacheCertificate: room is made after the new certificate
\* is in, without looking at the victim's index entries.
EvictWithoutIndex(S, ix, h) ==
    /\ \/ h \in S /\ cached' = S /\ index' = ix
       \/ h \notin S /\ ~AtCapacity(S) /\ cached' = S \cup {h} /\ index' = AddToIndex(ix, h)
       \/ /\ h \notin S /\ AtCapacity(S)
          /\ \E v \in S : cached' = (S \ {v}) \cup {h}
          /\ index' = AddToIndex(ix, h)
    /\ unindexed' = unindexed \cap S \cap cached'

\* Mutant of UnsyncedCacheCertificate: an off-by-one in the capacity test.
EvictTooLate(S, ix, h) ==
    /\ \/ h \in S /\ cached' = S /\ index' = ix
       \/ /\ h \notin S
          /\ capacity > 0 => Cardinality(S) <= capacity
          /\ cached' = S \cup {h} /\ index' = AddToIndex(ix, h)
       \/ /\ h \notin S
          /\ capacity > 0 /\ Cardinality(S) > capacity
          /\ \E v \in S : /\ cached' = (S \ {v}) \cup {h}
                          /\ index' = AddToIndex(Unindex(ix, {v}), h)
    /\ unindexed' = unindexed \cap S \cap cached'

\* unsyncedCacheCertificate on a cache that holds S with the index ix: a known
\* certificate is left alone (but for its tags), and a random one is evicted
\* when the cache is full.
UnsyncedCacheCertificate(S, ix, h) ==
    /\ \/ /\ h \in S
          /\ cached' = S
          /\ index' = ix
       \/ /\ h \notin S
          /\ ~AtCapacity(S)
          /\ cached' = S \cup {h}
          /\ index' = AddToIndex(ix, h)
       \/ /\ h \notin S
          /\ AtCapacity(S)
          /\ \E v \in S :
                /\ cached' = (S \ {v}) \cup {h}
                /\ index' = AddToIndex(Unindex(ix, {v}), h)
    /\ unindexed' = unindexed \cap S \cap cached'

-----------------------------------------------------------------------------
CacheCertificate(h) ==
    /\ UnsyncedCacheCertificate(cached, index, h)
    /\ UNCHANGED <<capacity, task, copy>>

SetOptions(c) ==
    /\ capacity' = c
    /\ UNCHANGED <<cached, index, task, copy, unindexed>>

\* A goroutine reads a certificate from the cache (getAllMatchingCerts, or a
\* scan of the map) and goes on with its copy outside the lock.
TakeCopy(a, h) ==
    /\ task[a] = "none"
    /\ h \in cached
    /\ task' = [task EXCEPT ![a] = "copy"]
    /\ copy' = [copy EXCEPT ![a] = {h}]
    /\ UNCHANGED <<cached, index, capacity, unindexed>>

FinishTask(a) ==
    /\ task' = [task EXCEPT ![a] = "none"]
    /\ copy' = [copy EXCEPT ![a] = {}]
    /\ UNCHANGED capacity

\* It is done with the copy, or writes a new staple or ARI into the cached
\* certificate of that hash if there still is one.
FinishWithCopy(a) ==
    /\ task[a] = "copy"
    /\ FinishTask(a)
    /\ UNCHANGED <<cached, index, unindexed>>

\* It removes the certificate it has a copy of: a renewal failed or was not
\* permitted, or the certificate is unusable.
RemoveCertificate(a) ==
    /\ task[a] = "copy"
    /\ cached' = cached \ copy[a]
    /\ index' = Unindex(index, copy[a])
    /\ unindexed' = unindexed \ copy[a]
    /\ FinishTask(a)

\* It replaces the certificate it has a copy of by the one it has loaded from
\* storage.
ReplaceCertificate(a, h) ==
    /\ task[a] = "copy"
    /\ UnsyncedCacheCertificate(cached \ copy[a], Unindex(index, copy[a]), h)
    /\ FinishTask(a)

\* handshakeMaintenance stores its copy, with the new staple, under its hash,
\* whether or not there still is a certificate of that hash.
StoreStapledCopy(a) ==
    /\ task[a] = "copy"
    /\ cached' = cached \cup copy[a]
    /\ unindexed' = unindexed \cup (copy[a] \ cached)
    /\ FinishTask(a)
    /\ UNCHANGED index

\* RemoveManaged looks the subject up under the read lock ...
StartRemoveManaged(a, n, iss) ==
    /\ task[a] = "none"
    /\ task' = [task EXCEPT ![a] = "delete"]
    /\ copy' = [copy EXCEPT ![a] =
          {h \in Managed : index[n][h] > 0 /\ iss \in {AnyIssuer, IssuerKey[h]}}]
    /\ UNCHANGED <<cached, index, capacity, unindexed>>

\* ... and Remove deletes those hashes that are still there.  A hash that is
\* not cached reads as the zero Certificate, which has no names.
Remove(a) ==
    /\ task[a] = "delete"
    /\ cached' = cached \ copy[a]
    /\ index' = Unindex(index, copy[a] \cap cached)
    /\ unindexed' = unindexed \ copy[a]
    /\ FinishTask(a)

CacheNext ==
    \/ \E h \in Hash : CacheCertificate(h)
    \/ \E c \in Capacity : SetOptions(c)
    \/ \E a \in Actor :
          \/ \E h \in Hash : TakeCopy(a, h) \/ ReplaceCertificate(a, h)
          \/ \E n \in Name, iss \in Issuer \cup {AnyIssuer} : StartRemoveManaged(a, n, iss)
          \/ FinishWithCopy(a) \/ RemoveCertificate(a) \/ StoreStapledCopy(a) \/ Remove(a)

CacheSpec == CacheInit /\ [][CacheNext]_cacheVars

-----------------------------------------------------------------------------
(* Properties *)

\* A key list never names a certificate that is not in the cache or that does
\* not have that name, and names no certificate more often than the
\* certificate itself has the name.  A dangling key would make
\* getAllMatchingCerts return an empty Certificate.  Holds for every order of
\* evictions, replacements and late removals with stale copies.
IndexSound ==
    \A n \in Name, h \in Hash :
        index[n][h] > 0 => h \in cached /\ index[n][h] = SAN[h][n]

\* Every cached certificate is found under each of its names ("cacheIndex is
\* a map of SAN to cache key"), except the ones that a handshake put back
\* after they had been removed, for as long as those stay.
FoundByName ==
    \A h \in cached \ unindexed, n \in Name : index[n][h] = SAN[h][n]

\* The cache does not grow past its capacity: eviction makes room for every
\* certificate that is added, by cacheCertificate and by replaceCertificate,
\* even if the capacity has been lowered below the size in the meantime.
\* Only a handshake that puts a certificate back is not bounded by it.
GrowthBounded ==
    [][(unindexed' \subseteq unindexed /\ Cardinality(cached') > Cardinality(cached))
          => (capacity <= 0 \/ Cardinality(cached') <= capacity)]_cacheVars
=============================================================================
