----------------------------- MODULE Maintenance -----------------------------
(***************************************************************************)
(* When things happen to a certificate that keeps being served (maintain.go,*)
(* certificates.go, ocsp.go, config.go): each instance starts at some time, *)
(* loads the certificate from the shared storage and from then on looks,   *)
(* whenever one of the two tickers of maintainAssets fires, whether it is  *)
(* to be renewed and whether its OCSP response is still fresh.  OCSP       *)
(* responses and ACME renewal info (ARI) go through storage too.           *)
(*                                                                         *)
(* The certificate is issued at time 0 and expires at Lifetime; attempts to *)
(* renew it are counted and fail.  A round of maintenance takes no time to *)
(* speak of, up to a forced renewal, after which this model leaves the     *)
(* instance alone.  An OCSP response says what was known when it was made, *)
(* and responders hand out responses that were made a while ago; that the  *)
(* status is unknown is the same as no answer.  The renewal info stored    *)
(* with the certificate may lack a selected time, which the code allows    *)
(* for, and the CA may change its mind about the window once.              *)
(***************************************************************************)
EXTENDS Integers, FiniteSets

CONSTANTS
    Instance,
    Setups,             \* sets of what is switched on, of "ocsp" and "ari"
    Lifetime,
    RatioDenominator,   \* RenewalWindowRatio is 1 / RatioDenominator
    RenewCheckInterval,
    OCSPCheckInterval,
    Validity,           \* of an OCSP response
    MaxAge,             \* of an OCSP response when it is handed out
    RetryAfter,         \* of the renewal info
    WindowLength,       \* of the suggested renewal window
    Windows,            \* where the windows start that the CA may suggest
    MaxFailures         \* bound on the requests of an instance that fail in a row

ASSUME IntervalsAssumption ==
    /\ {Lifetime, RatioDenominator, RenewCheckInterval, OCSPCheckInterval, Validity,
        RetryAfter} \subseteq Nat \ {0}
    /\ {MaxAge, WindowLength, MaxFailures} \subseteq Nat
ASSUME ResponderAssumption == 2 * MaxAge <= Validity
ASSUME WindowsAssumption ==
    Windows # {} /\ \A w \in Windows : w \in Nat /\ w + WindowLength <= Lifetime
ASSUME SetupsAssumption == Setups \subseteq SUBSET {"ocsp", "ari"}

Horizon == Lifetime + 1
Time == 0 .. Horizon
Never == Horizon + 1
None == -1              \* there is no OCSP response

Zero == -Horizon        \* the zero time.Time: no renewal time was selected

VARIABLES
    now,
    setup,      \* what is switched on
    revokedAt,  \* when the CA revoked the certificate
    window,     \* the start of the renewal window the CA suggests
    movedAt,    \* when it was last changed
    file,       \* when the OCSP response in storage was made
    meta,       \* the renewal info in storage
    cleaning,   \* CleanStorage has found the OCSP response in storage expired
    pc, why,    \* where an instance is, in starting or in its maintenance
    since,      \* when it was started
    renewTimer, ocspTimer,
    resp,       \* when the OCSP response it staples was made
    ari,        \* the renewal info of the certificate in its cache
    queued,     \* how often it has queued a renewal
    fails,      \* requests that have failed since the last answer (history)
    rejected    \* whether it has rejected a response (history)

environment == <<setup, revokedAt, window, movedAt>>
stored == <<file, meta, cleaning>>
timers == <<renewTimer, ocspTimer>>
vars == <<now, setup, revokedAt, window, movedAt, file, meta, cleaning, pc, why, since,
          renewTimer, ocspTimer, resp, ari, queued, fails, rejected>>

ARI == [start : Time, time : Time \cup {Zero}, until : 0 .. Horizon + RetryAfter]

\* A response that is used does not outlive the certificate.
Stapled == {t \in Time : t + Validity <= Lifetime}

\* The types of the variables (cache, storage and tickers of maintainAssets).
TypeOK ==
    /\ now \in Time /\ setup \in Setups
    /\ revokedAt \in Time \cup {Never}
    /\ window \in Time /\ movedAt \in Time
    /\ file \in Stapled \cup {None} /\ meta \in ARI /\ cleaning \in BOOLEAN
    /\ pc \in [Instance -> {"off", "idle", "load", "ask", "manage", "forced"}]
    /\ why \in [Instance -> {"start", "maintain"}]
    /\ since \in [Instance -> Time]
    /\ renewTimer \in [Instance -> 0 .. RenewCheckInterval]
    /\ ocspTimer \in [Instance -> 0 .. OCSPCheckInterval]
    /\ resp \in [Instance -> Stapled \cup {None}]
    /\ ari \in [Instance -> ARI]
    /\ queued \in [Instance -> Nat]
    /\ fails \in [Instance -> [ocsp : 0 .. MaxFailures, ari : 0 .. MaxFailures]]
    /\ rejected \in [Instance -> BOOLEAN]

\* The times that may be selected in a window.
Selection(w) == w .. w + WindowLength

Init ==
    /\ now = 0 /\ setup \in Setups
    /\ revokedAt = Never
    /\ window \in IF "ari" \in setup THEN Windows ELSE {0}
    /\ movedAt = 0
    /\ file = None /\ cleaning = FALSE
    /\ meta \in [start : {window}, until : {RetryAfter},
                time : {Zero} \cup IF "ari" \in setup THEN Selection(window) ELSE {}]
    /\ pc = [p \in Instance |-> "off"] /\ why = [p \in Instance |-> "start"]
    /\ since = [p \in Instance |-> 0]
    /\ renewTimer = [p \in Instance |-> RenewCheckInterval]
    /\ ocspTimer = [p \in Instance |-> OCSPCheckInterval]
    /\ resp = [p \in Instance |-> None]
    /\ ari = [p \in Instance |-> meta]
    /\ queued = [p \in Instance |-> 0]
    /\ fails = [p \in Instance |-> [ocsp |-> 0, ari |-> 0]]
    /\ rejected = [p \in Instance |-> FALSE]

Goto(p, l) == pc' = [pc EXCEPT ![p] = l]
AfterStapling(p) == IF why[p] = "start" THEN "manage" ELSE "idle"

-----------------------------------------------------------------------------
(* stapleOCSP *)

\* Mutant of FreshOCSP: a response is fresh as long as it is valid.
ValidOCSP(made) == made # None /\ now <= made + Validity

\* freshOCSP: before the middle of its validity.
FreshOCSP(made) == made # None /\ 2 * (now - made) < Validity

\* A fresh response in storage is used ...
LoadStaple(p) ==
    /\ pc[p] = "load"
    /\ IF FreshOCSP(file)
          THEN /\ resp' = [resp EXCEPT ![p] = file]
               /\ Goto(p, AfterStapling(p))
          ELSE Goto(p, "ask") /\ UNCHANGED resp
    /\ UNCHANGED <<now, environment, stored, why, since, timers, ari, queued, fails,
                   rejected>>

\* When the responses were made that a responder may answer with now.
Answers == {t \in Time : t <= now /\ now <= t + MaxAge}

\* ... or else the responder is asked.  A response that outlives the
\* certificate is rejected, a good one is stapled and stored, and one that says
\* "revoked" makes the instance replace the certificate.
Ask(p) ==
    /\ pc[p] = "ask"
    /\ fails' = [fails EXCEPT ![p].ocsp = 0]
    /\ \E made \in Answers :
          \/ /\ made + Validity > Lifetime
             /\ rejected' = [rejected EXCEPT ![p] = TRUE]
             /\ Goto(p, AfterStapling(p))
             /\ UNCHANGED <<resp, file>>
          \/ /\ made + Validity <= Lifetime /\ made < revokedAt
             /\ resp' = [resp EXCEPT ![p] = made]
             /\ file' = made
             /\ Goto(p, AfterStapling(p))
             /\ UNCHANGED rejected
          \/ /\ made + Validity <= Lifetime /\ made >= revokedAt
             /\ Goto(p, "forced")
             /\ UNCHANGED <<resp, file, rejected>>
    /\ UNCHANGED <<now, environment, meta, cleaning, why, since, timers, ari, queued>>

\* No answer ...
AskFails(p) ==
    /\ pc[p] = "ask"
    /\ fails[p].ocsp < MaxFailures
    /\ fails' = [fails EXCEPT ![p].ocsp = @ + 1]
    /\ Goto(p, AfterStapling(p))
    /\ UNCHANGED <<now, environment, stored, why, since, timers, resp, ari, queued, rejected>>

\* ... or a good one that could not be stored: the maintenance drops it then.
StapleNotStored(p) ==
    /\ pc[p] = "ask"
    /\ fails[p].ocsp < MaxFailures
    /\ fails' = [fails EXCEPT ![p].ocsp = @ + 1]
    /\ \E made \in Answers :
          /\ made + Validity <= Lifetime /\ made < revokedAt
          /\ resp' = [resp EXCEPT ![p] = IF why[p] = "start" THEN made ELSE @]
    /\ Goto(p, AfterStapling(p))
    /\ UNCHANGED <<now, environment, stored, why, since, timers, ari, queued, rejected>>

\* updateOCSPStaples, every OCSPCheckInterval.
UpdateOCSPStaples(p) ==
    /\ pc[p] = "idle" /\ ocspTimer[p] = 0
    /\ ocspTimer' = [ocspTimer EXCEPT ![p] = OCSPCheckInterval]
    /\ why' = [why EXCEPT ![p] = "maintain"]
    /\ Goto(p, IF "ocsp" \notin setup \/ now > Lifetime \/ FreshOCSP(resp[p]) THEN "idle"
                                                                            ELSE "load")
    /\ UNCHANGED <<now, environment, stored, since, renewTimer, resp, ari, queued, fails, rejected>>

-----------------------------------------------------------------------------
(* certNeedsRenewal and updateARI *)

\* currentlyInRenewalWindow, for a window of 1/d of the lifetime.
CurrentlyInRenewalWindow(d) == (Lifetime - now) * d < Lifetime

\* Mutant of NeedsRenewal: only a single interval before the expiration.
NeedsRenewalLate(i) ==
    \/ /\ "ari" \in setup
       /\ now > i.time - RenewCheckInterval \/ CurrentlyInRenewalWindow(20)
    \/ CurrentlyInRenewalWindow(RatioDenominator)
    \/ CurrentlyInRenewalWindow(50)
    \/ Lifetime - now < RenewCheckInterval

\* Mutant of NeedsRenewal: the selected time must have come.
NeedsRenewalAfter(i) ==
    \/ /\ "ari" \in setup
       /\ now > i.time \/ CurrentlyInRenewalWindow(20)
    \/ CurrentlyInRenewalWindow(RatioDenominator)
    \/ CurrentlyInRenewalWindow(50)
    \/ Lifetime - now < 5 * RenewCheckInterval

\* certNeedsRenewal.  Where no time was selected it computes one from the window
\* but then compares with the selected time all the same, which is zero.
NeedsRenewal(i) ==
    \/ /\ "ari" \in setup
       /\ now > i.time - RenewCheckInterval \/ CurrentlyInRenewalWindow(20)
    \/ CurrentlyInRenewalWindow(RatioDenominator)
    \/ CurrentlyInRenewalWindow(50)
    \/ Lifetime - now < 5 * RenewCheckInterval

NeedsRefresh(i) == now > i.until

\* Mutant of UpdateARI: what is in storage is always preferred.
UpdateARIFromStorage(p) ==
    /\ ari' = [ari EXCEPT ![p] = meta]
    /\ UNCHANGED <<meta, fails>>

\* updateARI: the renewal info in storage if it is newer, or else that of the
\* CA, which keeps the selected time if the window is the same.
UpdateARI(p) ==
    \/ /\ meta.until > ari[p].until
       /\ ari' = [ari EXCEPT ![p] = meta]
       /\ UNCHANGED <<meta, fails>>
    \/ /\ meta.until <= ari[p].until
       /\ \E t \in Selection(window) :
             /\ ari[p].start = window /\ ari[p].time # Zero => t = ari[p].time
             /\ meta' = [start |-> window, time |-> t, until |-> now + RetryAfter]
       /\ ari' = [ari EXCEPT ![p] = meta']
       /\ fails' = [fails EXCEPT ![p].ari = 0]
    \/ /\ meta.until <= ari[p].until
       /\ fails[p].ari < MaxFailures
       /\ fails' = [fails EXCEPT ![p].ari = @ + 1]
       /\ UNCHANGED <<ari, meta>>

\* The renewal info is refreshed when it is time to.
RefreshARI(p) ==
    IF "ari" \in setup /\ NeedsRefresh(ari[p]) THEN UpdateARI(p)
                                              ELSE UNCHANGED <<ari, meta, fails>>

Queue(p, due) == queued' = [queued EXCEPT ![p] = IF due THEN @ + 1 ELSE @]

\* RenewManagedCertificates, every RenewCheckInterval: the certificate is queued
\* if it is due by the renewal info it has, or by the one it gets.
RenewManagedCertificates(p) ==
    /\ pc[p] = "idle" /\ renewTimer[p] = 0
    /\ renewTimer' = [renewTimer EXCEPT ![p] = RenewCheckInterval]
    /\ RefreshARI(p)
    /\ Queue(p, \/ NeedsRenewal(ari[p])
                \/ ari[p].start # ari'[p].start /\ NeedsRenewal(ari'[p]))
    /\ UNCHANGED <<now, environment, file, cleaning, pc, why, since, ocspTimer, resp, rejected>>

-----------------------------------------------------------------------------
(* manageOne, which loads the certificate *)

Start(p) ==
    /\ pc[p] = "off" /\ now < Lifetime
    /\ Goto(p, IF "ocsp" \in setup THEN "load" ELSE "manage")
    /\ since' = [since EXCEPT ![p] = now]
    /\ ari' = [ari EXCEPT ![p] = meta]
    /\ UNCHANGED <<now, environment, stored, why, timers, resp, queued, fails, rejected>>

\* The certificate is not revoked, or it would have been replaced.
Manage(p) ==
    /\ pc[p] = "manage"
    /\ Goto(p, "idle")
    /\ RefreshARI(p)
    /\ Queue(p, NeedsRenewal(ari'[p]))
    /\ UNCHANGED <<now, environment, file, cleaning, why, since, timers, resp, rejected>>

-----------------------------------------------------------------------------
(* CleanStorage: deleteOldOCSPStaples, of any instance *)

FindOldStaple ==
    /\ ~cleaning /\ file # None /\ now > file + Validity
    /\ cleaning' = TRUE
    /\ UNCHANGED <<now, environment, file, meta, pc, why, since, timers, resp, ari, queued,
                   fails, rejected>>

DeleteOldStaple ==
    /\ cleaning
    /\ cleaning' = FALSE
    /\ file' = None
    /\ UNCHANGED <<now, environment, meta, pc, why, since, timers, resp, ari, queued, fails, rejected>>

-----------------------------------------------------------------------------
(* The world around *)

Revoke ==
    /\ "ocsp" \in setup /\ revokedAt = Never
    /\ revokedAt' = now
    /\ UNCHANGED <<now, setup, window, movedAt, stored, pc, why, since, timers, resp, ari,
                   queued, fails, rejected>>

MoveWindow ==
    /\ "ari" \in setup /\ movedAt = 0 /\ now > 0
    /\ window' \in Windows \ {window}
    /\ movedAt' = now
    /\ UNCHANGED <<now, setup, revokedAt, stored, pc, why, since, timers, resp, ari, queued,
                   fails, rejected>>

\* Time does not pass while an instance has something to do, and not before one
\* is running: the certificate is new when the first instance loads it.
Settled(p) ==
    \/ pc[p] \in {"off", "forced"}
    \/ pc[p] = "idle" /\ renewTimer[p] > 0 /\ ocspTimer[p] > 0

Pass ==
    /\ now < Horizon
    /\ \A p \in Instance : Settled(p)
    /\ \E p \in Instance : pc[p] # "off"
    /\ now' = now + 1
    /\ renewTimer' = [p \in Instance |-> renewTimer[p] - IF pc[p] = "idle" THEN 1 ELSE 0]
    /\ ocspTimer' = [p \in Instance |-> ocspTimer[p] - IF pc[p] = "idle" THEN 1 ELSE 0]
    /\ UNCHANGED <<environment, stored, pc, why, since, resp, ari, queued, fails,
                   rejected>>

Next ==
    \/ \E p \in Instance :
          \/ Start(p) \/ LoadStaple(p) \/ Ask(p) \/ AskFails(p) \/ StapleNotStored(p)
          \/ Manage(p) \/ UpdateOCSPStaples(p) \/ RenewManagedCertificates(p)
    \/ FindOldStaple \/ DeleteOldStaple
    \/ Revoke \/ MoveWindow \/ Pass

Spec == Init /\ [][Next]_vars

-----------------------------------------------------------------------------
(* Properties *)

Larger(a, b) == IF a > b THEN a ELSE b

\* Half of the validity of a response, rounded up.
Half == (Validity + 1) \div 2

\* An instance has time to try five times before the certificate expires, once
\* in every RenewCheckInterval, whatever the CA suggests, however short-lived
\* the certificate is and whenever the instance was started (certNeedsRenewal).
TriedInTime ==
    LET begin == Lifetime - 5 * RenewCheckInterval
    IN  \A p \in Instance :
           pc[p] = "idle" /\ Settled(p) /\ since[p] <= begin /\ now >= begin
             => queued[p] >= (now - begin) \div RenewCheckInterval

\* When the CA has moved the renewal window, every instance that runs has queued
\* a renewal by the end of it, or as soon as it learns of it: one round of
\* maintenance after the renewal info was to be refreshed, though what another
\* instance has put in storage may be outdated too, and one more for every
\* request that failed.  Renewal info is good for a round at least (updateARI,
\* RenewManagedCertificates).
WindowFollowed ==
    \A p \in Instance :
       pc[p] = "idle" /\ Settled(p) /\ "ari" \in setup
         /\ now >= Larger(window + WindowLength,
                         Larger(since[p], movedAt + RetryAfter + RenewCheckInterval)
                           + fails[p].ari * RenewCheckInterval)
         => queued[p] > 0

\* An instance that has had the time to learn of a later window, by the same
\* measure, does not renew before it, unless the certificate is about to expire
\* or its renewal info never had a selected time (updateARI, certNeedsRenewal).
WindowAwaited ==
    [][\A p \in Instance :
          /\ queued'[p] > queued[p] /\ "ari" \in setup
          /\ now > Larger(since[p], movedAt + RetryAfter + RenewCheckInterval)
                     + fails[p].ari * RenewCheckInterval
          => \/ now > window - RenewCheckInterval
             \/ ari[p].time = Zero
             \/ CurrentlyInRenewalWindow(RatioDenominator) \/ CurrentlyInRenewalWindow(20)
             \/ Lifetime - now < 5 * RenewCheckInterval]_vars

\* An instance staples an expired response only if all of the requests it had
\* time for in the second half of the validity have failed, or if a response
\* was rejected because it outlives the certificate (stapleOCSP, freshOCSP,
\* updateOCSPStaples); a certificate that has expired is not looked after.
StapleValid ==
    \A p \in Instance :
       pc[p] = "idle" /\ Settled(p) /\ resp[p] # None /\ now > resp[p] + Validity /\ now <= Lifetime
         => \/ fails[p].ocsp >= (Validity - Half + 1) \div OCSPCheckInterval
            \/ rejected[p]

\* The responses that instances take from each other through storage do not add
\* up: each of them notices a revocation when the response of before it is half
\* through its validity, or when the responder has caught up, one round later,
\* and one more for every request that failed.  A response that outlives the
\* certificate is rejected even if it says "revoked" (stapleOCSP).
RevocationNoticed ==
    \A p \in Instance :
       /\ "ocsp" \in setup /\ pc[p] = "idle" /\ Settled(p)
       /\ now >= Larger(since[p], revokedAt + Larger(Half, MaxAge) + OCSPCheckInterval)
                   + fails[p].ocsp * OCSPCheckInterval
       => rejected[p] \/ now > Lifetime

\* A certificate's staple is never replaced by an older response, though the
\* responder, the storage and the cleaning of it are not synchronized
\* (stapleOCSP, updateOCSPStaples).
StapleAdvances ==
    [][\A p \in Instance : resp'[p] >= resp[p]]_vars
=============================================================================
