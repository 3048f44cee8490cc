----------------------------- MODULE Handshake -----------------------------
(***************************************************************************)
(* Getting a certificate during TLS handshakes for one name (handshake.go):*)
(* concurrent goroutines in getCertDuringHandshake look in the cache, load *)
(* from storage, obtain and renew, and coordinate through two maps of      *)
(* channels to wait on: certLoadWaitChans and obtainCertWaitChans.         *)
(*                                                                         *)
(* Calls are nested, and what follows a call matters (errors dropped,      *)
(* channels closed), so every goroutine has a stack of what is left to do  *)
(* when a call returns.  A channel is represented by the goroutine that    *)
(* will close it.  The n-th certificate issued for the name is n; 0 is an  *)
(* empty Certificate, External one from a certificate manager.  Renewals   *)
(* in the background are made by one goroutine, Background: the channel    *)
(* keeps a second one from starting.  obtainCert and renewCert are single  *)
(* steps here (see Issuance).  OCSP and ARI are left out, and so are the   *)
(* default and the fallback server name.                                   *)
(***************************************************************************)
EXTENDS Integers, Sequences, FiniteSets

CONSTANTS
    Client,         \* goroutines of handshakes
    Background,     \* the goroutine of a renewal in the background
    Nobody,
    Setups,         \* the configurations and environments to look at
    MaxIssued       \* bound on the certificates issued in a behaviour

Goroutine == Client \cup {Background}

ASSUME NamesAssumption == Background \notin Client /\ Nobody \notin Goroutine
ASSUME SetupsAssumption ==
    Setups \subseteq [onDemand : BOOLEAN, managers : BOOLEAN, almostFull : BOOLEAN,
                      timeouts : BOOLEAN,
                      environment : SUBSET {"evict", "clean", "revoke", "deny", "other", "fail"}]
ASSUME BoundAssumption == MaxIssued \in Nat

External == -1
Version == 1 .. MaxIssued
Result == [cert : {External, 0} \cup Version, err : BOOLEAN]

VARIABLES
    setup,      \* the configuration and the environment, which do not change
    cache,      \* the certificates for the name in the cache
    stored,     \* the certificate in storage
    issued,     \* how many certificates have been issued
    due,        \* certificates up to this one need renewal ...
    expired,    \* ... and up to this one have expired
    allowed,    \* whether the decision function allows the name
    loadChan,   \* who closes certLoadWaitChans[name]
    obtainChan, \* who closes obtainCertWaitChans[name]
    pc,
    full,       \* loadOrObtainIfNecessary
    cert,       \* the certificate at hand
    stack,      \* what is left to do, the innermost call first
    res,        \* the value returned last
    asked,      \* whether the decision function allowed this operation
    found       \* history: what this handshake found in the cache at first

world == <<setup, cache, stored, issued, due, expired, allowed>>
chans == <<loadChan, obtainChan>>
vars == <<setup, cache, stored, issued, due, expired, allowed, loadChan, obtainChan,
          pc, full, cert, stack, res, asked, found>>

OnDemand == setup.onDemand          \* cfg.OnDemand != nil
Managers == setup.managers          \* there are external certificate managers
AlmostFull == setup.almostFull      \* the cache is almost full
Timeouts == setup.timeouts          \* waits may time out
Environment == setup.environment

Frame == [call : {"optional", "load", "owner", "getCert"}, cert : 0 .. MaxIssued]

\* Where a goroutine can be.
Place ==
    {"idle", "lookup", "enter", "waitLoad", "manager", "decide", "load", "maintain", "obtain",
     "waitObtain", "obtaining", "loadObtained", "renew", "renewCheck", "renewing", "reload",
     "return", "done"}

\* The types of the variables (cache, storage, channels, calls under way).
TypeOK ==
    /\ cache \subseteq Version /\ stored \in 0 .. issued
    /\ issued \in 0 .. MaxIssued /\ due \in 0 .. issued /\ expired \in 0 .. due
    /\ allowed \in BOOLEAN
    /\ loadChan \in Client \cup {Nobody} /\ obtainChan \in Goroutine \cup {Nobody}
    /\ pc \in [Goroutine -> Place]
    /\ full \in [Goroutine -> BOOLEAN]
    /\ cert \in [Goroutine -> 0 .. MaxIssued]
    /\ stack \in [Goroutine -> Seq(Frame)]
    /\ res \in [Goroutine -> Result]
    /\ asked \in [Goroutine -> BOOLEAN] /\ found \in [Goroutine -> 0 .. MaxIssued]

NoResult == [cert |-> 0, err |-> FALSE]

Init ==
    /\ setup \in Setups
    /\ cache = {} /\ stored = 0 /\ issued = 0 /\ due = 0 /\ expired = 0
    /\ allowed = TRUE
    /\ loadChan = Nobody /\ obtainChan = Nobody
    /\ pc = [g \in Goroutine |-> "idle"]
    /\ full = [g \in Goroutine |-> FALSE]
    /\ cert = [g \in Goroutine |-> 0]
    /\ stack = [g \in Goroutine |-> <<>>]
    /\ res = [g \in Goroutine |-> NoResult]
    /\ asked = [g \in Goroutine |-> FALSE]
    /\ found = [g \in Goroutine |-> 0]

NeedsRenewal(c) == c <= due
Expired(c) == c <= expired
Unexpired(certs) == {c \in certs : ~Expired(c)}

\* selectCert: an unexpired certificate if there is one.
SelectCert == IF Unexpired(cache) # {} THEN Unexpired(cache) ELSE cache

Goto(g, to) == pc' = [pc EXCEPT ![g] = to]
Push(g, call, c) == stack' = [stack EXCEPT ![g] = <<[call |-> call, cert |-> c]>> \o @]

\* The call at hand returns.
Return(g, c, err) ==
    /\ Goto(g, "return")
    /\ res' = [res EXCEPT ![g] = [cert |-> c, err |-> err]]

-----------------------------------------------------------------------------
(* getCertDuringHandshake *)

Start(g) ==
    /\ g \in Client
    /\ pc[g] = "idle"
    /\ Goto(g, "lookup")
    /\ full' = [full EXCEPT ![g] = TRUE]
    /\ asked' = [asked EXCEPT ![g] = FALSE]
    /\ UNCHANGED <<world, chans, cert, stack, res, found>>

\* A certificate from the cache is maintained by on-demand handshakes, unless
\* the caller has waited already.
Lookup(g) ==
    /\ pc[g] = "lookup"
    /\ \/ \E c \in SelectCert :
             /\ found' = [found EXCEPT ![g] = IF full[g] THEN c ELSE @]
             /\ IF OnDemand /\ full[g]
                   THEN /\ Goto(g, "maintain") /\ Push(g, "optional", c)
                        /\ cert' = [cert EXCEPT ![g] = c]
                        /\ UNCHANGED res
                   ELSE Return(g, c, FALSE) /\ UNCHANGED <<cert, stack>>
       \/ /\ cache = {}
          /\ Goto(g, "enter")
          /\ UNCHANGED <<cert, stack, res, found>>
    /\ UNCHANGED <<world, chans, full, asked>>

\* The channel of whoever is loading the certificate is waited for, or one
\* is made, to be closed when this call of getCertDuringHandshake returns.
Enter(g) ==
    /\ pc[g] = "enter"
    /\ IF loadChan = Nobody
          THEN loadChan' = g /\ Push(g, "getCert", 0) /\ Goto(g, "manager")
          ELSE Goto(g, "waitLoad") /\ UNCHANGED <<loadChan, stack>>
    /\ UNCHANGED <<world, obtainChan, full, cert, res, asked, found>>

\* getCertFromAnyCertManager: a certificate, an error, or neither.
AskManagers(g) ==
    /\ pc[g] = "manager"
    /\ \/ Goto(g, "decide") /\ UNCHANGED res
       \/ OnDemand /\ Managers /\ Return(g, External, FALSE)
       \/ OnDemand /\ Managers /\ Return(g, 0, TRUE)
    /\ UNCHANGED <<world, chans, full, cert, stack, asked, found>>

\* Mutant of Decide: a denial does not end the handshake.
DecideAnyway(g) ==
    /\ pc[g] = "decide"
    /\ asked' = [asked EXCEPT ![g] = allowed]
    /\ IF full[g] /\ (OnDemand \/ AlmostFull)
          THEN Goto(g, "load") /\ UNCHANGED res
          ELSE Return(g, 0, TRUE)
    /\ UNCHANGED <<world, chans, full, cert, stack, found>>

\* checkIfCertShouldBeObtained, and whether to load or obtain at all.
Decide(g) ==
    /\ pc[g] = "decide"
    /\ asked' = [asked EXCEPT ![g] = allowed]
    /\ IF (allowed \/ ~OnDemand) /\ full[g] /\ (OnDemand \/ AlmostFull)
          THEN Goto(g, "load") /\ UNCHANGED res
          ELSE Return(g, 0, TRUE)
    /\ UNCHANGED <<world, chans, full, cert, stack, found>>

\* CacheManagedCertificate in loadCertFromStorage.
LoadFromStorage(g) ==
    /\ pc[g] \in {"load", "loadObtained"}
    /\ stored # 0
    /\ cache' = cache \cup {stored}
    /\ cert' = [cert EXCEPT ![g] = stored]
    /\ Push(g, "load", 0)
    /\ Goto(g, "maintain")
    /\ UNCHANGED <<setup, stored, issued, due, expired, allowed, chans, full, res, asked, found>>

\* It is not there or cannot be loaded: then it is obtained, if that was not
\* just done.
LoadFails(g) ==
    /\ stored = 0 \/ "fail" \in Environment
    /\ \/ pc[g] = "load" /\ OnDemand /\ Goto(g, "obtain") /\ UNCHANGED res
       \/ pc[g] = "load" /\ ~OnDemand /\ Return(g, 0, FALSE)
       \/ pc[g] = "loadObtained" /\ Return(g, 0, TRUE)
    /\ UNCHANGED <<world, chans, full, cert, stack, asked, found>>

-----------------------------------------------------------------------------
(* handshakeMaintenance, obtainOnDemandCertificate, renewDynamicCertificate *)

\* renewIfNecessary
Maintain(g) ==
    /\ pc[g] = "maintain"
    /\ \/ ~NeedsRenewal(cert[g]) /\ Return(g, cert[g], FALSE)
       \/ /\ NeedsRenewal(cert[g])
          /\ Goto(g, IF stored = 0 THEN "obtain" ELSE "renew")
          /\ UNCHANGED res
    /\ UNCHANGED <<world, chans, full, cert, stack, asked, found>>

\* Mutant of Obtain: the map is not looked at.
ObtainAtOnce(g) ==
    /\ pc[g] = "obtain"
    /\ obtainChan' = g /\ Push(g, "owner", 0) /\ Goto(g, "obtaining")
    /\ UNCHANGED <<world, loadChan, full, cert, res, asked, found>>

\* obtainOnDemandCertificate: whoever is obtaining is waited for, or a
\* channel is made.
Obtain(g) ==
    /\ pc[g] = "obtain"
    /\ IF obtainChan = Nobody
          THEN obtainChan' = g /\ Push(g, "owner", 0) /\ Goto(g, "obtaining")
          ELSE Goto(g, "waitObtain") /\ UNCHANGED <<obtainChan, stack>>
    /\ UNCHANGED <<world, loadChan, full, cert, res, asked, found>>

\* A new certificate gets into storage.
IssueNew ==
    /\ issued < MaxIssued
    /\ issued' = issued + 1 /\ stored' = issued'
    /\ UNCHANGED <<setup, cache, due, expired, allowed>>

\* ObtainCertAsync: nothing to do if storage has a certificate.
ObtainCert(g) ==
    /\ pc[g] = "obtaining"
    /\ \/ stored # 0 /\ Goto(g, "loadObtained") /\ UNCHANGED <<world, res>>
       \/ stored = 0 /\ IssueNew /\ Goto(g, "loadObtained") /\ UNCHANGED res
       \/ Return(g, 0, TRUE) /\ UNCHANGED world
    /\ UNCHANGED <<setup, chans, full, cert, stack, asked, found>>

\* renewDynamicCertificate: the certificate is served if it has not expired,
\* and renewed, in the background if possible.
RenewDynamic(g) ==
    /\ pc[g] = "renew"
    /\ \/ /\ obtainChan # Nobody /\ ~Expired(cert[g])
          /\ Return(g, cert[g], FALSE)
          /\ UNCHANGED <<obtainChan, cert, stack, asked>>
       \/ /\ obtainChan # Nobody /\ Expired(cert[g])
          /\ Goto(g, "waitObtain")
          /\ UNCHANGED <<obtainChan, cert, stack, res, asked>>
       \/ /\ obtainChan = Nobody /\ ~Expired(cert[g])
          /\ obtainChan' = Background
          /\ pc' = [pc EXCEPT ![g] = "return", ![Background] = "renewCheck"]
          /\ res' = [res EXCEPT ![g] = [cert |-> cert[g], err |-> FALSE]]
          /\ cert' = [cert EXCEPT ![Background] = cert[g]]
          /\ Push(Background, "owner", 0)
          /\ asked' = [asked EXCEPT ![Background] = FALSE]
       \/ /\ obtainChan = Nobody /\ Expired(cert[g])
          /\ obtainChan' = g /\ Push(g, "owner", 0) /\ Goto(g, "renewCheck")
          /\ UNCHANGED <<cert, res, asked>>
    /\ UNCHANGED <<world, loadChan, full, found>>

\* renewAndReload asks whether the certificate may be renewed; if not it is
\* removed from the cache.
RenewCheck(g) ==
    /\ pc[g] = "renewCheck"
    /\ IF allowed /\ OnDemand
          THEN /\ Goto(g, "renewing") /\ asked' = [asked EXCEPT ![g] = TRUE]
               /\ UNCHANGED <<cache, res>>
          ELSE /\ cache' = cache \ {cert[g]} /\ Return(g, 0, TRUE)
               /\ UNCHANGED asked
    /\ UNCHANGED <<setup, stored, issued, due, expired, allowed, chans, full, cert, stack, found>>

\* RenewCertAsync: nothing to do if storage has a renewed certificate.
RenewCert(g) ==
    /\ pc[g] = "renewing"
    /\ \/ stored # 0 /\ ~NeedsRenewal(stored) /\ Goto(g, "reload") /\ UNCHANGED <<world, res>>
       \/ stored # 0 /\ NeedsRenewal(stored) /\ IssueNew /\ Goto(g, "reload") /\ UNCHANGED res
       \/ Return(g, 0, TRUE) /\ UNCHANGED world
    /\ UNCHANGED <<setup, chans, full, cert, stack, asked, found>>

\* reloadManagedCertificate replaces the certificate in the cache.
Reload(g) ==
    /\ pc[g] = "reload"
    /\ \/ stored # 0 /\ cache' = (cache \ {cert[g]}) \cup {stored} /\ Return(g, stored, FALSE)
       \/ (stored = 0 \/ "fail" \in Environment) /\ Return(g, 0, TRUE) /\ UNCHANGED cache
    /\ UNCHANGED <<setup, stored, issued, due, expired, allowed, chans, full, cert, stack, asked, found>>
   

-----------------------------------------------------------------------------
(* Returning *)

Top(g) == stack[g][1]
Returning(g, call) == pc[g] = "return" /\ stack[g] # <<>> /\ Top(g).call = call
Pop(g) == stack' = [stack EXCEPT ![g] = Tail(@)]

\* A channel is closed: whoever waits for it starts again from the cache, not
\* to load or obtain this time.
Wake(waiting) ==
    /\ pc' = [g \in Goroutine |-> IF pc[g] = waiting THEN "lookup" ELSE pc[g]]
    /\ full' = [g \in Goroutine |-> full[g] /\ pc[g] # waiting]

\* Mutant of ReturnOptional: the error is passed on whatever the certificate.
OptionalFails(g) ==
    /\ Returning(g, "optional")
    /\ res' = [res EXCEPT ![g] = IF @.err THEN [cert |-> Top(g).cert, err |-> TRUE] ELSE @]
    /\ Pop(g)
    /\ UNCHANGED <<world, chans, pc, full, cert, asked, found>>

\* optionalMaintenance serves what it had if there was an error and it has
\* not expired.
ReturnOptional(g) ==
    /\ Returning(g, "optional")
    /\ res' = [res EXCEPT ![g] =
                  IF @.err THEN [cert |-> Top(g).cert, err |-> Expired(Top(g).cert)] ELSE @]
    /\ Pop(g)
    /\ UNCHANGED <<world, chans, pc, full, cert, asked, found>>

\* loadCertFromStorage takes what handshakeMaintenance returns and logs its
\* error.
ReturnLoad(g) ==
    /\ Returning(g, "load")
    /\ res' = [res EXCEPT ![g].err = FALSE]
    /\ Pop(g)
    /\ UNCHANGED <<world, chans, pc, full, cert, asked, found>>

\* unblockWaiters
ReturnOwner(g) ==
    /\ Returning(g, "owner")
    /\ obtainChan' = Nobody
    /\ Wake("waitObtain")
    /\ Pop(g)
    /\ UNCHANGED <<world, loadChan, cert, res, asked, found>>

\* Mutant of ReturnGetCert: the channel is taken out of the map, not closed.
DeleteWithoutClose(g) ==
    /\ Returning(g, "getCert")
    /\ loadChan' = Nobody
    /\ Pop(g)
    /\ UNCHANGED <<world, obtainChan, pc, full, cert, res, asked, found>>

\* The deferred function of getCertDuringHandshake.
ReturnGetCert(g) ==
    /\ Returning(g, "getCert")
    /\ loadChan' = Nobody
    /\ Wake("waitLoad")
    /\ Pop(g)
    /\ UNCHANGED <<world, obtainChan, cert, res, asked, found>>

\* The outermost call returns; the handshake goes on with the result.
ReturnLast(g) ==
    /\ pc[g] = "return" /\ stack[g] = <<>>
    /\ Goto(g, "done")
    /\ UNCHANGED <<world, chans, full, cert, stack, res, asked, found>>

Finish(g) ==
    /\ pc[g] = "done"
    /\ Goto(g, "idle")
    /\ res' = [res EXCEPT ![g] = NoResult]
    /\ cert' = [cert EXCEPT ![g] = 0]
    /\ full' = [full EXCEPT ![g] = FALSE]
    /\ asked' = [asked EXCEPT ![g] = FALSE]
    /\ found' = [found EXCEPT ![g] = 0]
    /\ UNCHANGED <<world, chans, stack>>

\* Two minutes have passed, or the context is done.
TimeOut(g) ==
    /\ Timeouts
    /\ pc[g] \in {"waitLoad", "waitObtain"}
    /\ Return(g, 0, TRUE)
    /\ UNCHANGED <<world, chans, full, cert, stack, asked, found>>

-----------------------------------------------------------------------------
(* The environment *)

\* Certificates come into their renewal window, though not while they are
\* being obtained, and expire, though not while they are being handed over:
\* both take far less time than a certificate lives.
Age ==
    /\ \/ /\ due < issued /\ obtainChan = Nobody
          /\ \A g \in Client : pc[g] # "obtain"
          /\ due' = issued /\ UNCHANGED expired
       \/ /\ expired < due
          /\ \A g \in Client : pc[g] \notin {"return", "done"}
          /\ expired' = due /\ UNCHANGED due
    /\ UNCHANGED <<setup, cache, stored, issued, allowed, chans, pc, full, cert, stack, res, asked, found>>
   

\* Another certificate takes the place of one of ours in a full cache.
Evict ==
    /\ "evict" \in Environment
    /\ \E c \in cache : cache' = cache \ {c}
    /\ UNCHANGED <<setup, stored, issued, due, expired, allowed, chans, pc, full, cert, stack, res, asked, found>>
   

\* CleanStorage deletes an expired certificate, RevokeCert any certificate,
\* on this or another instance and neither under the name's lock.
Delete ==
    /\ stored # 0
    /\ "revoke" \in Environment \/ ("clean" \in Environment /\ Expired(stored))
    /\ stored' = 0
    /\ UNCHANGED <<setup, cache, issued, due, expired, allowed, chans, pc, full, cert, stack, res, asked, found>>

\* Another instance obtains or renews the certificate.
OtherIssues ==
    /\ "other" \in Environment
    /\ stored = 0 \/ NeedsRenewal(stored)
    /\ IssueNew
    /\ UNCHANGED <<setup, chans, pc, full, cert, stack, res, asked, found>>

\* The decision function's answer changes.
ChangeDecision ==
    /\ "deny" \in Environment
    /\ allowed' = ~allowed
    /\ UNCHANGED <<setup, cache, stored, issued, due, expired, chans, pc, full, cert, stack, res, asked, found>>

Step(g) ==
    \/ Lookup(g) \/ Enter(g) \/ AskManagers(g) \/ Decide(g) \/ LoadFromStorage(g) \/ LoadFails(g)
    \/ Maintain(g) \/ Obtain(g) \/ ObtainCert(g) \/ RenewDynamic(g) \/ RenewCheck(g)
    \/ RenewCert(g) \/ Reload(g) \/ ReturnOptional(g) \/ ReturnLoad(g) \/ ReturnOwner(g)
    \/ ReturnGetCert(g) \/ ReturnLast(g) \/ Finish(g)

Next ==
    \/ \E g \in Goroutine : Start(g) \/ Step(g) \/ TimeOut(g)
    \/ Age \/ Evict \/ Delete \/ OtherIssues \/ ChangeDecision

Spec == Init /\ [][Next]_vars

\* Goroutines run; nobody has to start a handshake or to wait so long that
\* it times out.
FairSpec == Spec /\ \A g \in Goroutine : WF_vars(Step(g))

-----------------------------------------------------------------------------
(* Properties *)

Working == {"obtaining", "loadObtained", "renewCheck", "renewing", "reload"}

\* "We must protect this process from happening concurrently": at most one
\* goroutine obtains or renews the certificate, be it for a handshake that
\* waits, for one that found nothing or in the background.
OneWorker == \A g, h \in Goroutine : (pc[g] \in Working /\ pc[h] \in Working) => g = h

\* optionalMaintenance, "still has time remaining, so serve it anyway": a
\* handshake that found a certificate in the cache which has not expired
\* does not fail.  Whatever fails, is denied, deleted, evicted or renewed at
\* the same time, maintenance never costs a handshake its certificate.
FoundIsServed ==
    \A g \in Client : (pc[g] = "done" /\ found[g] # 0 /\ ~Expired(found[g])) =>
        ~res[g].err /\ res[g].cert # 0

\* Nobody has just started a handshake.
Quiet == \A g \in Client : ~(pc[g] = "lookup" /\ full[g])

\* renewAndReload's comment on unblocking the waiters (a defer "would risk
\* deadlock because of the recursive call"): once no more handshakes come in,
\* those that are under way end, and nobody has to time out for it.
HandshakesEnd == <>[]Quiet => <>[](\A g \in Client : pc[g] = "idle")

\* DecisionFunc "will be called to determine whether a certificate can be
\* obtained or renewed for the given name": whoever obtains or renews on demand
\* was allowed to, after all waits and nested calls, in the background too.
\* (Not so for a handshake that found a certificate in the cache which is no
\* longer in storage: it obtains one unasked.)
AskedBefore ==
    \A g \in Goroutine :
        (OnDemand /\ pc[g] \in {"obtaining", "renewing"} /\ found[g] = 0) => asked[g]
=============================================================================
