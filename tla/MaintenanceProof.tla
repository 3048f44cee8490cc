-------------------------- MODULE MaintenanceProof --------------------------
(***************************************************************************)
(* Proof that an instance tries to renew a certificate five times before it *)
(* expires (TriedInTime), for every lifetime, every interval, any number of *)
(* instances and whatever OCSP, the renewal info and the failures do.      *)
(*                                                                         *)
(* TriedInTime says how often a renewal has been queued at the times when  *)
(* no ticker is due.  The invariant (Pace) also counts the part of the     *)
(* current interval that has passed: the time since five intervals before  *)
(* the expiration is at most the intervals in which a renewal was queued   *)
(* and that part.  It is kept when time passes, as both sides grow, and    *)
(* when the ticker fires, as the part becomes zero and, if those five      *)
(* intervals have begun, certNeedsRenewal says that the certificate is due. *)
(*                                                                         *)
(* Proof that no staple is replaced by an older one (StapleAdvances), with *)
(* the types: whoever looks for a response has none that is fresh, while   *)
(* those in storage are used only if they are, and those of a responder    *)
(* were made within half of their validity (ResponderAssumption).          *)
(*                                                                         *)
(* Proofs of how late an instance may be with OCSP (StapleValid,           *)
(* RevocationNoticed).  The invariant (OInv) bounds the time of the next   *)
(* check by the age of the response that is stapled, by that of a          *)
(* revocation and by the time of the start, with one round for each failed *)
(* request and for a check under way.  It rests on that no response, in    *)
(* storage or stapled, is from after now or from after a revocation.       *)
(*                                                                         *)
(* Proofs that a renewal window is followed and awaited (WindowFollowed,   *)
(* WindowAwaited), provided that renewal info is good for a round of       *)
(* maintenance.  The invariant (RInv) says of renewal info of another      *)
(* window that it was fetched before the window was moved, and of what is  *)
(* in storage, if an instance has something else, that it was fetched      *)
(* after the last check of that instance: so what it takes from storage    *)
(* can make it late only by the one round that is allowed for.             *)
(***************************************************************************)
EXTENDS Maintenance, TLAPS

\* The types of the variables that the argument is about.
Shape ==
    /\ now \in Nat
    /\ pc \in [Instance -> {"off", "idle", "load", "ask", "manage", "forced"}]
    /\ since \in [Instance -> Nat]
    /\ renewTimer \in [Instance -> 0 .. RenewCheckInterval]
    /\ queued \in [Instance -> Nat]

Begins == Lifetime - 5 * RenewCheckInterval

\* The time an instance has accounted for.
Counted(q, timer) == q * RenewCheckInterval + RenewCheckInterval - timer

Pace ==
    \A p \in Instance :
       pc[p] \notin {"off", "forced"} /\ since[p] <= Begins
         => Counted(queued[p], renewTimer[p]) >= now - Begins

IInv == Shape /\ Pace

-----------------------------------------------------------------------------
\* The constants are natural numbers.
LEMMA Intervals ==
    /\ RenewCheckInterval \in Nat /\ RenewCheckInterval > 0
    /\ Lifetime \in Nat /\ Begins \in Int
BY IntervalsAssumption DEF Begins

\* What is counted is never negative; one more renewal counts for one interval
\* and one tick of the clock for one.
LEMMA CountedFacts ==
  ASSUME NEW q \in Nat, NEW t \in 0 .. RenewCheckInterval
  PROVE  /\ Counted(q, t) \in Nat
         /\ Counted(q + 1, t) = Counted(q, t) + RenewCheckInterval
         /\ Counted(q, t - 1) = Counted(q, t) + 1
         /\ Counted(q + 1, RenewCheckInterval) = Counted(q, 0)
<1> DEFINE i == RenewCheckInterval
<1>1. i \in Nat /\ t \in Nat /\ t <= i
  BY Intervals
<1>2. q * i \in Nat /\ (q + 1) * i = q * i + i
  BY <1>1
<1> HIDE DEF i
<1>3. \A r, u : Counted(r, u) = r * i + i - u
  BY Zenon DEF Counted, i
<1>4. /\ Counted(q, t) \in Nat
      /\ Counted(q + 1, t) = Counted(q, t) + i
      /\ Counted(q, t - 1) = Counted(q, t) + 1
      /\ Counted(q + 1, i) = Counted(q, 0)
  BY <1>1, <1>2, <1>3
<1> QED
  BY <1>4, Zenon DEF i

\* In the last five intervals the certificate is due, whatever else it is.
LEMMA DueAtLast ==
  ASSUME NEW i, now \in Nat, now > Begins
  PROVE  NeedsRenewal(i)
<1>1. Lifetime - now < 5 * RenewCheckInterval
  BY Intervals DEF Begins
<1> QED
  BY <1>1, Zenon DEF NeedsRenewal

-----------------------------------------------------------------------------
\* A step that changes neither the clock nor what is counted, and neither starts
\* an instance nor brings one back, keeps the invariant.
LEMMA NothingCounted ==
  ASSUME IInv, UNCHANGED <<now, since, renewTimer, queued>>,
         pc' \in [Instance -> {"off", "idle", "load", "ask", "manage", "forced"}],
         \A p \in Instance : pc[p] \in {"off", "forced"} => pc'[p] \in {"off", "forced"}
  PROVE  IInv'
BY Zenon DEF IInv, Shape, Pace

\* The number of queued renewals of the instance after RenewManagedCertificates
\* or Manage.
LEMMA QueueShape ==
  ASSUME Shape, NEW p \in Instance, NEW due \in BOOLEAN, Queue(p, due)
  PROVE  /\ queued' \in [Instance -> Nat]
         /\ \A o \in Instance : o # p => queued'[o] = queued[o]
         /\ due => queued'[p] = queued[p] + 1
         /\ queued'[p] \in {queued[p], queued[p] + 1}
BY DEF Shape, Queue

\* Every step keeps the pace.
LEMMA IInvStep ==
  ASSUME IInv, [Next]_vars
  PROVE  IInv'
<1> USE Intervals
<1>1. ASSUME NEW p \in Instance, Start(p) PROVE IInv'
  <2>1. Shape'
    BY <1>1, Zenon DEF IInv, Shape, Start, Goto, timers
  <2>2. ASSUME NEW o \in Instance, pc'[o] \notin {"off", "forced"}, since'[o] <= Begins
        PROVE  Counted(queued'[o], renewTimer'[o]) >= now' - Begins
    <3>1. CASE o = p
      <4>1. now' - Begins <= 0 /\ now' \in Nat
        BY <1>1, <2>2, <3>1 DEF IInv, Shape, Start
      <4>2. Counted(queued'[o], renewTimer'[o]) \in Nat
        BY <2>1, CountedFacts, Zenon DEF Shape
      <4> QED
        BY <4>1, <4>2
    <3>2. CASE o # p
      BY <1>1, <2>2, <3>2, Zenon DEF IInv, Shape, Pace, Start, Goto, timers
    <3> QED
      BY <3>1, <3>2, Zenon
  <2> QED
    BY <2>1, <2>2, Zenon DEF IInv, Pace
<1>2. ASSUME NEW p \in Instance, LoadStaple(p) PROVE IInv'
  BY <1>2, NothingCounted, Zenon DEF LoadStaple, IInv, Shape, Goto, AfterStapling, timers
<1>3. ASSUME NEW p \in Instance, Ask(p) PROVE IInv'
  BY <1>3, NothingCounted, Zenon DEF Ask, IInv, Shape, Goto, AfterStapling, timers
<1>4. ASSUME NEW p \in Instance, AskFails(p) PROVE IInv'
  BY <1>4, NothingCounted, Zenon DEF AskFails, IInv, Shape, Goto, AfterStapling, timers
<1>5. ASSUME NEW p \in Instance, StapleNotStored(p) PROVE IInv'
  BY <1>5, NothingCounted, Zenon DEF StapleNotStored, IInv, Shape, Goto, AfterStapling, timers
<1>6. ASSUME NEW p \in Instance, UpdateOCSPStaples(p) PROVE IInv'
  BY <1>6, NothingCounted, Zenon DEF UpdateOCSPStaples, IInv, Shape, Goto, AfterStapling, timers
<1>7. ASSUME NEW p \in Instance, Manage(p) PROVE IInv'
  <2>1. PICK due \in BOOLEAN : Queue(p, due)
    BY <1>7, Zenon DEF Manage, Queue
  <2>2. Shape' /\ \A o \in Instance : queued'[o] \in {queued[o], queued[o] + 1}
    BY <1>7, <2>1, QueueShape, Zenon DEF IInv, Shape, Manage, Goto, timers
  <2>3. ASSUME NEW o \in Instance, pc'[o] \notin {"off", "forced"}, since'[o] <= Begins
        PROVE  Counted(queued'[o], renewTimer'[o]) >= now' - Begins
    <3>1. Counted(queued[o], renewTimer[o]) >= now - Begins
      BY <1>7, <2>3, Zenon DEF IInv, Shape, Pace, Manage, Goto
    <3>2. UNCHANGED <<now, renewTimer>>
      BY <1>7, Zenon DEF Manage, timers
    <3>3. /\ Counted(queued[o], renewTimer[o]) \in Nat
          /\ Counted(queued[o] + 1, renewTimer[o])
                = Counted(queued[o], renewTimer[o]) + RenewCheckInterval
      BY CountedFacts, Zenon DEF IInv, Shape
    <3>4. now \in Nat
      BY Zenon DEF IInv, Shape
    <3>5. CASE queued'[o] = queued[o]
      BY <3>1, <3>2, <3>5, Zenon
    <3>6. CASE queued'[o] = queued[o] + 1
      BY <3>1, <3>2, <3>3, <3>4, <3>6
    <3> QED
      BY <2>2, <3>5, <3>6, Zenon
  <2> QED
    BY <2>2, <2>3, Zenon DEF IInv, Pace
<1>8. ASSUME NEW p \in Instance, RenewManagedCertificates(p) PROVE IInv'
  <2>1. /\ pc[p] = "idle" /\ renewTimer[p] = 0
        /\ renewTimer' = [renewTimer EXCEPT ![p] = RenewCheckInterval]
        /\ UNCHANGED <<now, pc, since>>
    BY <1>8, Zenon DEF RenewManagedCertificates
  <2>2. PICK due \in BOOLEAN : Queue(p, due) /\ (NeedsRenewal(ari[p]) => due)
    BY <1>8, Zenon DEF RenewManagedCertificates, Queue
  <2>3. Shape'
    BY <2>1, <2>2, QueueShape DEF IInv, Shape
  <2>4. ASSUME NEW o \in Instance, pc'[o] \notin {"off", "forced"}, since'[o] <= Begins
        PROVE  Counted(queued'[o], renewTimer'[o]) >= now' - Begins
    <3>1. Counted(queued[o], renewTimer[o]) >= now - Begins /\ now \in Nat
      BY <2>1, <2>4, Zenon DEF IInv, Shape, Pace
    <3>2. CASE o # p
      BY <2>1, <2>2, <3>1, <3>2, QueueShape, Zenon DEF IInv, Shape
    <3>3. CASE o = p /\ due
      <4>1. queued'[p] = queued[p] + 1 /\ renewTimer'[p] = RenewCheckInterval
        BY <2>1, <2>2, <3>3, QueueShape, Zenon DEF IInv, Shape
      <4>2. Counted(queued[p] + 1, RenewCheckInterval) = Counted(queued[p], 0)
        BY CountedFacts, Zenon DEF IInv, Shape
      <4> QED
        BY <2>1, <3>1, <3>3, <4>1, <4>2, Zenon
    <3>4. CASE o = p /\ ~due
      <4>1. now <= Begins
        BY <2>2, <3>1, <3>4, DueAtLast
      <4>2. Counted(queued'[p], renewTimer'[p]) \in Nat
        BY <2>3, CountedFacts, Zenon DEF Shape
      <4> QED
        BY <2>1, <3>1, <3>4, <4>1, <4>2
    <3> QED
      BY <3>2, <3>3, <3>4, Zenon
  <2> QED
    BY <2>3, <2>4, Zenon DEF IInv, Pace
<1>9. CASE FindOldStaple
  BY <1>9, NothingCounted, Zenon DEF FindOldStaple, IInv, Shape, timers
<1>10. CASE DeleteOldStaple
  BY <1>10, NothingCounted, Zenon DEF DeleteOldStaple, IInv, Shape, timers
<1>11. CASE Revoke
  BY <1>11, NothingCounted, Zenon DEF Revoke, IInv, Shape, timers
<1>12. CASE MoveWindow
  BY <1>12, NothingCounted, Zenon DEF MoveWindow, IInv, Shape, timers
<1>13. CASE Pass
  <2>1. /\ \A o \in Instance : Settled(o)
        /\ now' = now + 1
        /\ renewTimer' = [o \in Instance |-> renewTimer[o] - IF pc[o] = "idle" THEN 1 ELSE 0]
        /\ UNCHANGED <<pc, since, queued>>
    BY <1>13, Zenon DEF Pass
  <2>2. Shape'
    BY <2>1 DEF IInv, Shape, Settled
  <2>3. ASSUME NEW o \in Instance, pc'[o] \notin {"off", "forced"}, since'[o] <= Begins
        PROVE  Counted(queued'[o], renewTimer'[o]) >= now' - Begins
    <3>1. Counted(queued[o], renewTimer[o]) >= now - Begins /\ now \in Nat
      BY <2>1, <2>3, Zenon DEF IInv, Shape, Pace
    <3>2. renewTimer'[o] = renewTimer[o] - 1
      BY <2>1, <2>3, Zenon DEF Settled
    <3>3. /\ Counted(queued[o], renewTimer[o]) \in Nat
          /\ Counted(queued[o], renewTimer[o] - 1) = Counted(queued[o], renewTimer[o]) + 1
      BY CountedFacts, Zenon DEF IInv, Shape
    <3> QED
      BY <2>1, <3>1, <3>2, <3>3
  <2> QED
    BY <2>2, <2>3, Zenon DEF IInv, Pace
<1>14. CASE UNCHANGED vars
  BY <1>14, NothingCounted, Zenon DEF vars, IInv, Shape
<1> QED
  BY <1>1, <1>2, <1>3, <1>4, <1>5, <1>6, <1>7, <1>8, <1>9, <1>10, <1>11, <1>12,
     <1>13, <1>14, Zenon DEF Next

\* The invariant holds in every state.
THEOREM IInvInvariant == Spec => []IInv
<1>1. Init => IInv
  BY Intervals DEF Init, IInv, Shape, Pace
<1>2. IInv /\ [Next]_vars => IInv'
  BY IInvStep, Zenon
<1> QED
  BY <1>1, <1>2, PTL DEF Spec

\* A number that is less than q + 1 intervals has at most q whole ones in it.
LEMMA WholeIntervals ==
  ASSUME NEW q \in Nat, NEW e \in Nat, NEW t \in 1 .. RenewCheckInterval, Counted(q, t) >= e
  PROVE  q >= e \div RenewCheckInterval
<1> DEFINE i == RenewCheckInterval
<1> DEFINE d == e \div i
<1>1. i \in Nat /\ i > 0 /\ t \in Nat /\ t >= 1
  BY Intervals
<1>2. d \in Nat /\ d * i <= e
  BY <1>1
<1>3. e < q * i + i
  BY <1>1 DEF Counted
<1>4. q \in Nat
  BY Zenon
<1> HIDE DEF i, d
<1>5. d <= q
  <2> SUFFICES ASSUME d >= q + 1 PROVE FALSE
    BY <1>2, <1>4
  <2>1. d * i >= (q + 1) * i /\ (q + 1) * i = q * i + i /\ d * i \in Nat /\ q * i \in Nat
    BY <1>1, <1>2, <1>4
  <2> QED
    BY <1>1, <1>2, <1>3, <2>1
<1> QED
  BY <1>2, <1>5, Zenon DEF i, d

\* An instance that was started in time has queued a renewal in every one of the
\* last five intervals before the expiration that is over (certNeedsRenewal,
\* RenewManagedCertificates, manageOne), for every value of the constants.
THEOREM RenewalsTriedInTime == Spec => []TriedInTime
<1>1. IInv => TriedInTime
  <2> SUFFICES ASSUME IInv, NEW p \in Instance, pc[p] = "idle", Settled(p),
                      since[p] <= Begins, now >= Begins
               PROVE  queued[p] >= (now - Begins) \div RenewCheckInterval
    BY Zenon DEF TriedInTime, Begins
  <2>1. queued[p] \in Nat /\ renewTimer[p] \in 1 .. RenewCheckInterval /\ now - Begins \in Nat
    BY Intervals DEF IInv, Shape, Settled
  <2>2. Counted(queued[p], renewTimer[p]) >= now - Begins
    BY Zenon DEF IInv, Pace
  <2> QED
    BY <2>1, <2>2, WholeIntervals, Zenon
<1> QED
  BY IInvInvariant, <1>1, PTL

-----------------------------------------------------------------------------
\* An instance that looks for a response has none that is fresh.
NoneFresh == \A p \in Instance : pc[p] \in {"load", "ask"} => ~FreshOCSP(resp[p])

\* An instance that is not running has none at all.
NoneYet == \A p \in Instance : pc[p] = "off" => resp[p] = None

\* The windows the CA suggests are among those it may.
Suggested == "ari" \in setup => window \in Windows

SInv == TypeOK /\ NoneFresh /\ NoneYet /\ Suggested

\* The constants, and what is built from them.
LEMMA Constants ==
    /\ Lifetime \in Nat /\ Horizon = Lifetime + 1 /\ Validity \in Nat /\ MaxAge \in Nat
    /\ 2 * MaxAge <= Validity
    /\ RenewCheckInterval \in Nat \ {0} /\ OCSPCheckInterval \in Nat \ {0}
    /\ RetryAfter \in Nat /\ WindowLength \in Nat /\ MaxFailures \in Nat
    /\ Time = 0 .. Lifetime + 1 /\ Stapled \subseteq Time /\ None = -1
    /\ Never = Lifetime + 2
BY IntervalsAssumption, ResponderAssumption DEF Horizon, Time, Stapled, None, Never

\* Times are natural numbers, and None is not one of them.
LEMMA TimeTypes == Time \subseteq Nat /\ Stapled \subseteq Nat /\ None = -1
<1>1. Time \subseteq Nat
  BY IntervalsAssumption DEF Time, Horizon
<1> QED
  BY <1>1, Zenon DEF Stapled, None

\* The windows, and the times that may be selected in them, are times.
LEMMA WindowTimes ==
  ASSUME NEW w \in Windows
  PROVE  w \in Time /\ Selection(w) \subseteq Time
<1>1. w \in Nat /\ w + WindowLength <= Lifetime
  BY WindowsAssumption, Zenon
<1>2. Lifetime \in Nat /\ WindowLength \in Nat /\ Time = 0 .. Lifetime + 1
  BY Constants, Zenon
<1>3. w \in Time
  BY <1>1, <1>2
<1>4. \A t \in Selection(w) : t \in Time
  BY <1>1, <1>2 DEF Selection
<1> QED
  BY <1>3, <1>4, Zenon

\* What is not fresh is older than what is, and than what a responder hands out.
LEMMA FresherIsNewer ==
  ASSUME now \in Time, NEW old \in Stapled \cup {None}, ~FreshOCSP(old),
         NEW made \in Stapled, FreshOCSP(made) \/ made \in Answers
  PROVE  made >= old
<1>1. now \in Nat /\ made \in Nat /\ old \in Int /\ (old = None \/ old \in Nat)
  BY TimeTypes
<1>2. CASE old = None
  BY <1>1, <1>2, TimeTypes
<1>3. CASE old # None
  <2>1. 2 * (now - old) >= Validity
    BY <1>1, <1>3, Constants, SMTT(30) DEF FreshOCSP
  <2>2. 2 * (now - made) <= Validity
    BY <1>1, Constants, SMTT(30) DEF FreshOCSP, Answers
  <2>3. Validity \in Nat
    BY Constants, Zenon
  <2> QED
    BY <1>1, <2>1, <2>2, <2>3
<1> QED
  BY <1>2, <1>3, Zenon

\* The renewal info that an instance has after its maintenance or a start.
LEMMA RefreshTypes ==
  ASSUME SInv, NEW p \in Instance, RefreshARI(p)
  PROVE  /\ ari' \in [Instance -> ARI] /\ meta' \in ARI
         /\ fails' \in [Instance -> [ocsp : 0 .. MaxFailures, ari : 0 .. MaxFailures]]
<1>1. CASE UNCHANGED <<ari, meta, fails>>
  BY <1>1, Zenon DEF SInv, TypeOK
<1>2. CASE "ari" \in setup /\ UpdateARI(p)
  <2>1. /\ ari \in [Instance -> ARI] /\ meta \in ARI
        /\ fails \in [Instance -> [ocsp : 0 .. MaxFailures, ari : 0 .. MaxFailures]]
        /\ now \in Time /\ window \in Time
    BY Zenon DEF SInv, TypeOK
  <2>2. CASE ari' = [ari EXCEPT ![p] = meta] /\ UNCHANGED <<meta, fails>>
    BY <2>1, <2>2, Zenon
  <2>3. ASSUME NEW t \in Selection(window),
               meta' = [start |-> window, time |-> t, until |-> now + RetryAfter],
               ari' = [ari EXCEPT ![p] = meta'], fails' = [fails EXCEPT ![p].ari = 0]
        PROVE  /\ ari' \in [Instance -> ARI] /\ meta' \in ARI
               /\ fails' \in [Instance -> [ocsp : 0 .. MaxFailures, ari : 0 .. MaxFailures]]
    <3>1. window \in Windows
      BY <1>2, Zenon DEF SInv, Suggested
    <3>2. t \in Time
      BY <2>3, <3>1, WindowTimes, Zenon
    <3>3. now + RetryAfter \in 0 .. Horizon + RetryAfter
      BY <2>1, Constants
    <3>4. meta' \in ARI
      BY <2>1, <2>3, <3>2, <3>3, Zenon DEF ARI
    <3>5. 0 \in 0 .. MaxFailures
      BY Constants
    <3> QED
      BY <2>1, <2>3, <3>4, <3>5, Zenon
  <2>4. CASE /\ fails[p].ari < MaxFailures /\ fails' = [fails EXCEPT ![p].ari = @ + 1]
             /\ UNCHANGED <<ari, meta>>
    <3>1. fails[p].ari + 1 \in 0 .. MaxFailures
      <4>1. fails[p].ari \in 0 .. MaxFailures /\ MaxFailures \in Nat
        BY <2>1, Constants, Zenon
      <4> QED
        BY <2>4, <4>1
    <3> QED
      BY <2>1, <2>4, <3>1, Zenon
  <2> QED
    BY <1>2, <2>2, <2>3, <2>4, Zenon DEF UpdateARI
<1> QED
  BY <1>1, <1>2, Zenon DEF RefreshARI

\* The responses that instances staple are given by when they were made.
LEMMA RespTypes ==
  ASSUME SInv
  PROVE  /\ resp \in [Instance -> Stapled \cup {None}]
         /\ \A p \in Instance : resp[p] \in Int /\ resp[p] >= resp[p]
<1>1. Stapled \cup {None} \subseteq Int
  BY TimeTypes
<1>2. resp \in [Instance -> Stapled \cup {None}]
  BY Zenon DEF SInv, TypeOK
<1>3. \A p \in Instance : resp[p] \in Int
  BY <1>1, <1>2, Zenon
<1> QED
  BY <1>2, <1>3

\* A step of an instance that looks for a response: it goes on, keeps its staple
\* or gets a newer one, and leaves the clock and the renewal info alone.
LEMMA StapleStep ==
  ASSUME SInv, NEW p \in Instance, pc[p] \in {"load", "ask"},
         NEW l \in {"idle", "ask", "manage", "forced"}, pc' = [pc EXCEPT ![p] = l],
         NEW made \in Stapled \cup {None}, resp' = [resp EXCEPT ![p] = made], made >= resp[p],
         l = "ask" => made = resp[p],
         file' \in Stapled \cup {None}, rejected' \in [Instance -> BOOLEAN],
         fails' \in [Instance -> [ocsp : 0 .. MaxFailures, ari : 0 .. MaxFailures]],
         UNCHANGED <<now, environment, meta, cleaning, why, since, timers, ari, queued>>
  PROVE  SInv' /\ \A o \in Instance : resp'[o] >= resp[o]
<1>1. TypeOK'
  BY Zenon DEF SInv, TypeOK, environment, timers
<1>2. \A o \in Instance : o # p => resp'[o] = resp[o] /\ pc'[o] = pc[o] /\ resp[o] \in Int
  BY RespTypes, Zenon DEF SInv, TypeOK
<1>3. resp'[p] = made /\ pc'[p] = l
  BY Zenon DEF SInv, TypeOK
<1>4. NoneFresh' /\ NoneYet'
  BY <1>2, <1>3 DEF SInv, NoneFresh, NoneYet, FreshOCSP
<1>5. Suggested'
  BY Zenon DEF SInv, Suggested, environment
<1> QED
  BY <1>1, <1>2, <1>3, <1>4, <1>5 DEF SInv

\* Every step keeps the types and what they rest on, and no staple gets older.
LEMMA SInvStep ==
  ASSUME SInv, [Next]_vars
  PROVE  SInv' /\ \A p \in Instance : resp'[p] >= resp[p]
<1> DEFINE Newer == \A p \in Instance : resp'[p] >= resp[p]
<1> DEFINE FailsType == [Instance -> [ocsp : 0 .. MaxFailures, ari : 0 .. MaxFailures]]
<1>a. UNCHANGED resp => Newer
  BY RespTypes, Zenon
<1>b. ASSUME UNCHANGED <<resp, now, pc, setup, window>>, TypeOK' PROVE SInv' /\ Newer
  BY <1>a, <1>b, Zenon DEF SInv, NoneFresh, NoneYet, Suggested, FreshOCSP
<1>c. ASSUME NEW p \in Instance PROVE AfterStapling(p) \in {"idle", "manage"}
  BY Zenon DEF AfterStapling
<1>d. ASSUME NEW p \in Instance
      PROVE  /\ resp[p] \in Stapled \cup {None} /\ resp[p] >= resp[p]
             /\ resp = [resp EXCEPT ![p] = resp[p]]
  BY RespTypes, Zenon
<1>e. /\ fails \in FailsType /\ file \in Stapled \cup {None}
      /\ rejected \in [Instance -> BOOLEAN] /\ now \in Time
  BY Zenon DEF SInv, TypeOK
<1>f. ASSUME NEW p \in Instance, fails[p].ocsp < MaxFailures,
             fails' = [fails EXCEPT ![p].ocsp = @ + 1]
      PROVE  fails' \in FailsType
  <2>1. fails[p].ocsp + 1 \in 0 .. MaxFailures
    <3>1. fails[p].ocsp \in 0 .. MaxFailures
      BY <1>e, Zenon
    <3>2. MaxFailures \in Nat
      BY Constants, Zenon
    <3> QED
      BY <1>f, <3>1, <3>2
  <2> QED
    BY <1>e, <1>f, <2>1, Zenon
<1>1. ASSUME NEW p \in Instance, Start(p) PROVE SInv' /\ Newer
  <2>1. /\ pc[p] = "off" /\ UNCHANGED <<now, environment, stored, why, timers, resp, queued>>
        /\ UNCHANGED <<fails, rejected>>
        /\ since' = [since EXCEPT ![p] = now] /\ ari' = [ari EXCEPT ![p] = meta]
    BY <1>1, Zenon DEF Start
  <2>2. PICK l \in {"load", "manage"} : pc' = [pc EXCEPT ![p] = l]
    BY <1>1, Zenon DEF Start, Goto
  <2>3. TypeOK'
    BY <2>1, <2>2, Zenon DEF SInv, TypeOK, environment, stored, timers
  <2>4. NoneFresh' /\ NoneYet'
    BY <2>1, <2>2, Zenon DEF SInv, TypeOK, NoneFresh, NoneYet, FreshOCSP
  <2> QED
    BY <1>a, <2>1, <2>3, <2>4, Zenon DEF SInv, Suggested, environment
<1>2. ASSUME NEW p \in Instance, LoadStaple(p) PROVE SInv' /\ Newer
  <2>1. /\ pc[p] = "load"
        /\ UNCHANGED <<now, environment, stored, why, since, timers, ari, queued, fails, rejected>>
    BY <1>2, Zenon DEF LoadStaple
  <2>2. CASE FreshOCSP(file)
    <3>1. resp' = [resp EXCEPT ![p] = file] /\ pc' = [pc EXCEPT ![p] = AfterStapling(p)]
      BY <1>2, <2>2, Zenon DEF LoadStaple, Goto
    <3>2. file \in Stapled /\ ~FreshOCSP(resp[p])
      BY <1>e, <2>1, <2>2, Zenon DEF SInv, NoneFresh, FreshOCSP
    <3>3. file >= resp[p]
      BY <1>d, <1>e, <2>2, <3>2, FresherIsNewer, Zenon
    <3> QED
      BY <1>c, <1>e, <2>1, <3>1, <3>2, <3>3, StapleStep, Zenon DEF stored
  <2>3. CASE ~FreshOCSP(file)
    <3>1. resp' = [resp EXCEPT ![p] = resp[p]] /\ pc' = [pc EXCEPT ![p] = "ask"]
      BY <1>2, <1>d, <2>3, Zenon DEF LoadStaple, Goto
    <3> QED
      BY <1>d, <1>e, <2>1, <3>1, StapleStep, Zenon DEF stored
  <2> QED
    BY <2>2, <2>3, Zenon
<1>3. ASSUME NEW p \in Instance, Ask(p) PROVE SInv' /\ Newer
  <2>1. /\ pc[p] = "ask"
        /\ UNCHANGED <<now, environment, meta, cleaning, why, since, timers, ari, queued>>
    BY <1>3, Zenon DEF Ask
  <2>2. fails' \in FailsType
    <3>1. fails' = [fails EXCEPT ![p].ocsp = 0] /\ 0 \in 0 .. MaxFailures
      BY <1>3, Constants DEF Ask
    <3> QED
      BY <1>e, <3>1, Zenon
  <2>3. CASE /\ rejected' = [rejected EXCEPT ![p] = TRUE] /\ Goto(p, AfterStapling(p))
             /\ UNCHANGED <<resp, file>>
    BY <1>c, <1>d, <1>e, <2>1, <2>2, <2>3, StapleStep, Zenon DEF Goto
  <2>4. ASSUME NEW made \in Answers, made + Validity <= Lifetime,
               resp' = [resp EXCEPT ![p] = made], file' = made, Goto(p, AfterStapling(p)),
               UNCHANGED rejected
        PROVE  SInv' /\ Newer
    <3>1. made \in Stapled /\ ~FreshOCSP(resp[p])
      BY <2>1, <2>4, Zenon DEF Answers, Stapled, SInv, NoneFresh
    <3>2. made >= resp[p]
      BY <1>d, <1>e, <2>4, <3>1, FresherIsNewer, Zenon
    <3> QED
      BY <1>c, <1>e, <2>1, <2>2, <2>4, <3>1, <3>2, StapleStep, Zenon DEF Goto
  <2>5. CASE Goto(p, "forced") /\ UNCHANGED <<resp, file, rejected>>
    BY <1>d, <1>e, <2>1, <2>2, <2>5, StapleStep, Zenon DEF Goto
  <2> QED
    BY <1>3, <2>3, <2>4, <2>5, Zenon DEF Ask
<1>4. ASSUME NEW p \in Instance, AskFails(p) PROVE SInv' /\ Newer
  <2>1. /\ pc[p] = "ask" /\ fails' \in FailsType
        /\ UNCHANGED <<now, environment, stored, why, since, timers, resp, ari, queued, rejected>>
        /\ pc' = [pc EXCEPT ![p] = AfterStapling(p)]
    BY <1>4, <1>f, Zenon DEF AskFails, Goto
  <2> QED
    BY <1>c, <1>d, <1>e, <2>1, StapleStep, Zenon DEF stored
<1>5. ASSUME NEW p \in Instance, StapleNotStored(p) PROVE SInv' /\ Newer
  <2>1. /\ pc[p] = "ask" /\ fails' \in FailsType
        /\ UNCHANGED <<now, environment, stored, why, since, timers, ari, queued, rejected>>
        /\ pc' = [pc EXCEPT ![p] = AfterStapling(p)]
    BY <1>5, <1>f, Zenon DEF StapleNotStored, Goto
  <2>2. PICK made \in Answers :
           /\ made + Validity <= Lifetime
           /\ resp' = [resp EXCEPT ![p] = IF why[p] = "start" THEN made ELSE @]
    BY <1>5, Zenon DEF StapleNotStored
  <2>3. made \in Stapled /\ ~FreshOCSP(resp[p])
    BY <2>1, <2>2, Zenon DEF Answers, Stapled, SInv, NoneFresh
  <2>4. made >= resp[p]
    BY <1>d, <1>e, <2>2, <2>3, FresherIsNewer, Zenon
  <2>5. PICK m \in {made, resp[p]} : resp' = [resp EXCEPT ![p] = m]
    BY <2>2, Zenon
  <2>6. m \in Stapled \cup {None} /\ m >= resp[p]
    BY <1>d, <2>3, <2>4, <2>5, Zenon
  <2> QED
    BY <1>c, <1>e, <2>1, <2>5, <2>6, StapleStep, Zenon DEF stored
<1>6. ASSUME NEW p \in Instance, UpdateOCSPStaples(p) PROVE SInv' /\ Newer
  <2>1. /\ pc[p] = "idle"
        /\ ocspTimer' = [ocspTimer EXCEPT ![p] = OCSPCheckInterval]
        /\ why' = [why EXCEPT ![p] = "maintain"]
        /\ UNCHANGED <<now, environment, stored, since, renewTimer, resp, ari, queued, fails, rejected>>
    BY <1>6, Zenon DEF UpdateOCSPStaples
  <2>2. PICK l \in {"idle", "load"} : /\ pc' = [pc EXCEPT ![p] = l]
                                      /\ l = "load" => ~FreshOCSP(resp[p])
    BY <1>6, Zenon DEF UpdateOCSPStaples, Goto
  <2>3. TypeOK'
    BY <2>1, <2>2, Constants DEF SInv, TypeOK, environment, stored
  <2>4. NoneFresh' /\ NoneYet'
    BY <2>1, <2>2, Zenon DEF SInv, TypeOK, NoneFresh, NoneYet, FreshOCSP
  <2> QED
    BY <1>a, <2>1, <2>3, <2>4, Zenon DEF SInv, Suggested, environment
<1>7. ASSUME NEW p \in Instance, Manage(p) PROVE SInv' /\ Newer
  <2>1. /\ pc[p] = "manage" /\ pc' = [pc EXCEPT ![p] = "idle"] /\ RefreshARI(p)
        /\ UNCHANGED <<now, environment, file, cleaning, why, since, timers, resp, rejected>>
    BY <1>7, Zenon DEF Manage, Goto
  <2>2. queued' \in [Instance -> Nat]
    BY <1>7 DEF Manage, Queue, SInv, TypeOK
  <2>3. TypeOK'
    BY <2>1, <2>2, RefreshTypes, Zenon DEF SInv, TypeOK, environment, timers
  <2>4. NoneFresh' /\ NoneYet'
    BY <2>1, Zenon DEF SInv, TypeOK, NoneFresh, NoneYet, FreshOCSP
  <2> QED
    BY <1>a, <2>1, <2>3, <2>4, Zenon DEF SInv, Suggested, environment
<1>8. ASSUME NEW p \in Instance, RenewManagedCertificates(p) PROVE SInv' /\ Newer
  <2>1. /\ renewTimer' = [renewTimer EXCEPT ![p] = RenewCheckInterval] /\ RefreshARI(p)
        /\ UNCHANGED <<now, environment, file, cleaning, pc, why, since, ocspTimer, resp, rejected>>
    BY <1>8, Zenon DEF RenewManagedCertificates
  <2>2. queued' \in [Instance -> Nat]
    BY <1>8 DEF RenewManagedCertificates, Queue, SInv, TypeOK
  <2>3. renewTimer' \in [Instance -> 0 .. RenewCheckInterval]
    <3>1. RenewCheckInterval \in 0 .. RenewCheckInterval
      BY Constants
    <3> QED
      BY <2>1, <3>1, Zenon DEF SInv, TypeOK
  <2>4. TypeOK'
    BY <2>1, <2>2, <2>3, RefreshTypes, Zenon DEF SInv, TypeOK, environment
  <2> QED
    BY <1>b, <2>1, <2>4, Zenon DEF environment
<1>9. CASE FindOldStaple \/ DeleteOldStaple
  <2>1. /\ file' \in {file, None} /\ cleaning' \in BOOLEAN
        /\ UNCHANGED <<now, environment, meta, pc, why, since, timers, resp, ari, queued>>
        /\ UNCHANGED <<fails, rejected>>
    BY <1>9, Zenon DEF FindOldStaple, DeleteOldStaple
  <2>2. TypeOK'
    BY <2>1, Zenon DEF SInv, TypeOK, environment, timers
  <2> QED
    BY <1>b, <2>1, <2>2, Zenon DEF environment
<1>10. CASE Revoke
  <2>1. TypeOK'
    BY <1>10, Zenon DEF Revoke, SInv, TypeOK, stored, timers
  <2> QED
    BY <1>10, <1>b, <2>1, Zenon DEF Revoke
<1>11. CASE MoveWindow
  <2>1. /\ window' \in Windows /\ movedAt' = now
        /\ UNCHANGED <<now, setup, revokedAt, stored, pc, why, since, timers, resp, ari, queued>>
        /\ UNCHANGED <<fails, rejected>>
    BY <1>11, Zenon DEF MoveWindow
  <2>2. window' \in Time
    BY <2>1, WindowTimes, Zenon
  <2>3. TypeOK'
    BY <2>1, <2>2, SMTT(30) DEF SInv, TypeOK, stored, timers
  <2> QED
    BY <1>a, <2>1, <2>3, Zenon DEF SInv, NoneFresh, NoneYet, Suggested, FreshOCSP
<1>12. CASE Pass
  <2>1. /\ now < Horizon /\ now' = now + 1 /\ \A p \in Instance : Settled(p)
        /\ renewTimer' = [p \in Instance |-> renewTimer[p] - IF pc[p] = "idle" THEN 1 ELSE 0]
        /\ ocspTimer' = [p \in Instance |-> ocspTimer[p] - IF pc[p] = "idle" THEN 1 ELSE 0]
        /\ UNCHANGED <<environment, stored, pc, why, since, resp, ari, queued, fails, rejected>>
    BY <1>12, Zenon DEF Pass
  <2>2. now' \in Time
    BY <1>e, <2>1, Constants
  <2>3. /\ renewTimer' \in [Instance -> 0 .. RenewCheckInterval]
        /\ ocspTimer' \in [Instance -> 0 .. OCSPCheckInterval]
    <3>1. ASSUME NEW p \in Instance
          PROVE  /\ renewTimer'[p] \in 0 .. RenewCheckInterval
                 /\ ocspTimer'[p] \in 0 .. OCSPCheckInterval
      <4>1. /\ renewTimer[p] \in 0 .. RenewCheckInterval /\ ocspTimer[p] \in 0 .. OCSPCheckInterval
            /\ RenewCheckInterval \in Nat /\ OCSPCheckInterval \in Nat
        BY Constants, Zenon DEF SInv, TypeOK
      <4>2. pc[p] = "idle" => renewTimer[p] > 0 /\ ocspTimer[p] > 0
        BY <2>1, Zenon DEF Settled
      <4> QED
        BY <2>1, <4>1, <4>2
    <3> QED
      BY <2>1, <3>1, Zenon
  <2>4. TypeOK'
    BY <2>1, <2>2, <2>3, SMTT(30) DEF SInv, TypeOK, environment, stored
  <2>5. NoneFresh' /\ NoneYet'
    BY <2>1, Zenon DEF SInv, NoneFresh, NoneYet, Settled
  <2> QED
    BY <1>a, <2>1, <2>4, <2>5, Zenon DEF SInv, Suggested, environment
<1>13. CASE UNCHANGED vars
  <2>1. TypeOK'
    BY <1>13, Zenon DEF vars, SInv, TypeOK
  <2> QED
    BY <1>13, <1>b, <2>1, Zenon DEF vars
<1> QED
  BY <1>1, <1>2, <1>3, <1>4, <1>5, <1>6, <1>7, <1>8, <1>9, <1>10, <1>11, <1>12, <1>13, Zenon DEF Next

\* The types and what they rest on hold in every state.
THEOREM SInvInvariant == Spec => []SInv
<1>1. Init => SInv
  <2> SUFFICES ASSUME Init PROVE SInv
    BY Zenon
  <2>1. window \in Time /\ ("ari" \in setup => window \in Windows)
    <3>1. 0 \in Time
      BY Constants
    <3> QED
      BY <3>1, WindowTimes, Zenon DEF Init
  <2>2. meta \in ARI
    <3>1. "ari" \in setup => Selection(window) \subseteq Time
      BY <2>1, WindowTimes, Zenon
    <3>2. meta.time \in Time \cup {Zero} /\ RetryAfter \in 0 .. Horizon + RetryAfter
      BY <3>1, Constants DEF Init
    <3> QED
      BY <2>1, <3>2, Zenon DEF Init, ARI
  <2>3. TypeOK
    <3>1. /\ 0 \in Time /\ 0 \in Nat /\ 0 \in 0 .. MaxFailures
          /\ RenewCheckInterval \in 0 .. RenewCheckInterval
          /\ OCSPCheckInterval \in 0 .. OCSPCheckInterval
      BY Constants
    <3> QED
      BY <2>1, <2>2, <3>1, Zenon DEF Init, TypeOK
  <2> QED
    BY <2>1, <2>3, Zenon DEF SInv, Init, NoneFresh, NoneYet, Suggested
<1>2. SInv /\ [Next]_vars => SInv'
  BY SInvStep, Zenon
<1> QED
  BY <1>1, <1>2, PTL DEF Spec

\* The clock, the cache, storage and the tickers of maintainAssets keep their
\* types; in particular no response is used that outlives the certificate.
THEOREM MaintenanceTypes == Spec => []TypeOK
<1>1. SInv => TypeOK
  BY Zenon DEF SInv
<1> QED
  BY SInvInvariant, <1>1, PTL

\* No instance replaces the response it staples by an older one, wherever it
\* comes from (stapleOCSP, updateOCSPStaples), for every value of the constants:
\* it looks for one only when its own is not fresh, and takes one from storage
\* only if that is, or one that the responder has made recently.
THEOREM StaplesNeverOlder == Spec => StapleAdvances
<1>1. SInv /\ [Next]_vars => [\A p \in Instance : resp'[p] >= resp[p]]_vars
  BY SInvStep, Zenon
<1> QED
  BY SInvInvariant, <1>1, PTL DEF Spec, StapleAdvances

-----------------------------------------------------------------------------
Running(p) == pc[p] \in {"idle", "load", "ask", "manage"}

\* What a response says of no time later than now, nor of one after a revocation.
Dated(t) == t <= now /\ t <= revokedAt

\* The checks since the last one that was answered, with the one under way, and
\* the time that a number of checks takes.
OCSPRounds(p) == fails[p].ocsp + IF pc[p] \in {"load", "ask"} THEN 1 ELSE 0
OCSPTime(n) == n * OCSPCheckInterval

\* An instance without OCSP staples nothing and looks for no response.
OCSPOnly(p) == "ocsp" \notin setup => resp[p] = None /\ pc[p] \notin {"load", "ask"}

\* How long a response has been stapled that is not fresh any more: the next
\* check is due within a round, and one round more for every failure.
StapleLag(p) ==
    Running(p) /\ resp[p] # None /\ ~rejected[p] /\ now <= Lifetime
      => now + ocspTimer[p] <= resp[p] + Half + OCSPTime(OCSPRounds(p) + 1)

\* How long a revocation has gone unnoticed, by the same measure, or how long
\* the instance has been running if the first requests failed.
RevocationLag(p) ==
    "ocsp" \in setup /\ Running(p) /\ ~rejected[p] /\ now <= Lifetime
      => \/ now + ocspTimer[p] <= revokedAt + Larger(Half, MaxAge) + OCSPTime(OCSPRounds(p) + 1)
         \/ now + ocspTimer[p] <= since[p] + OCSPTime(OCSPRounds(p))

OCSPKept(p) == Dated(resp[p]) /\ OCSPOnly(p) /\ StapleLag(p) /\ RevocationLag(p)
OInv == SInv /\ Dated(file) /\ \A p \in Instance : OCSPKept(p)

\* What takes part in the argument are numbers.
LEMMA OCSPNumbers ==
  ASSUME TypeOK, NEW p \in Instance
  PROVE  /\ now \in Nat /\ revokedAt \in Nat /\ since[p] \in Nat
         /\ resp[p] \in Int /\ (resp[p] # None => resp[p] \in Nat)
         /\ file \in Int /\ (file # None => file \in Nat)
         /\ ocspTimer[p] \in Nat /\ ocspTimer[p] <= OCSPCheckInterval
         /\ fails[p].ocsp \in Nat /\ rejected[p] \in BOOLEAN
<1>1. now \in Nat /\ since[p] \in Nat
  BY TimeTypes, Zenon DEF TypeOK
<1>2. revokedAt \in Nat
  BY TimeTypes, Constants DEF TypeOK
<1>3. /\ resp[p] \in Int /\ (resp[p] # None => resp[p] \in Nat)
      /\ file \in Int /\ (file # None => file \in Nat)
  <2>1. \A t \in Stapled \cup {None} : t \in Int /\ (t # None => t \in Nat)
    BY TimeTypes
  <2>2. resp[p] \in Stapled \cup {None} /\ file \in Stapled \cup {None}
    BY Zenon DEF TypeOK
  <2> QED
    BY <2>1, <2>2, Zenon
<1>4. ocspTimer[p] \in 0 .. OCSPCheckInterval /\ OCSPCheckInterval \in Nat
  BY Constants, Zenon DEF TypeOK
<1>5. fails[p].ocsp \in 0 .. MaxFailures /\ MaxFailures \in Nat
  BY Constants, Zenon DEF TypeOK
<1> QED
  BY <1>1, <1>2, <1>3, <1>4, <1>5 DEF TypeOK

\* The same after a step.
LEMMA OCSPNumbersNext ==
  ASSUME TypeOK', NEW p \in Instance
  PROVE  /\ now' \in Nat /\ revokedAt' \in Nat /\ since'[p] \in Nat
         /\ resp'[p] \in Int /\ (resp'[p] # None => resp'[p] \in Nat)
         /\ file' \in Int /\ (file' # None => file' \in Nat)
         /\ ocspTimer'[p] \in Nat /\ ocspTimer'[p] <= OCSPCheckInterval
         /\ fails'[p].ocsp \in Nat /\ rejected'[p] \in BOOLEAN
<1>1. now' \in Nat /\ since'[p] \in Nat
  BY TimeTypes, Zenon DEF TypeOK
<1>2. revokedAt' \in Nat
  BY TimeTypes, Constants DEF TypeOK
<1>3. /\ resp'[p] \in Int /\ (resp'[p] # None => resp'[p] \in Nat)
      /\ file' \in Int /\ (file' # None => file' \in Nat)
  <2>1. \A t \in Stapled \cup {None} : t \in Int /\ (t # None => t \in Nat)
    BY TimeTypes
  <2>2. resp'[p] \in Stapled \cup {None} /\ file' \in Stapled \cup {None}
    BY Zenon DEF TypeOK
  <2> QED
    BY <2>1, <2>2, Zenon
<1>4. ocspTimer'[p] \in 0 .. OCSPCheckInterval /\ OCSPCheckInterval \in Nat
  BY Constants, Zenon DEF TypeOK
<1>5. fails'[p].ocsp \in 0 .. MaxFailures /\ MaxFailures \in Nat
  BY Constants, Zenon DEF TypeOK
<1> QED
  BY <1>1, <1>2, <1>3, <1>4, <1>5 DEF TypeOK

\* One check more takes one interval more.
LEMMA OCSPTimes ==
  ASSUME NEW n \in Nat
  PROVE  /\ OCSPTime(n) \in Nat /\ OCSPTime(n + 1) = OCSPTime(n) + OCSPCheckInterval
         /\ OCSPCheckInterval \in Nat /\ OCSPCheckInterval > 0
<1> DEFINE i == OCSPCheckInterval
<1>1. i \in Nat /\ i > 0
  BY Constants
<1> HIDE DEF i
<1>2. n * i \in Nat /\ (n + 1) * i = n * i + i
  BY <1>1
<1> QED
  BY <1>1, <1>2, Zenon DEF OCSPTime, i

\* Half of the validity, and what a responder hands out is not older than that.
LEMMA Halves == /\ Half \in Nat /\ Validity \in Nat /\ Validity <= 2 * Half
                /\ 2 * Half <= Validity + 1 /\ MaxAge \in Nat /\ MaxAge <= Half
                /\ Larger(Half, MaxAge) = Half
<1>1. Validity \in Nat /\ MaxAge \in Nat /\ 2 * MaxAge <= Validity
  BY Constants, Zenon
<1>2. Half \in Nat /\ Validity <= 2 * Half /\ 2 * Half <= Validity + 1
  BY <1>1 DEF Half
<1>3. MaxAge <= Half
  BY <1>1, <1>2
<1>4. Larger(Half, MaxAge) = Half
  BY <1>1, <1>2, <1>3 DEF Larger
<1> QED
  BY <1>1, <1>2, <1>3, <1>4, Zenon

\* A response that is fresh, or handed out by a responder, has been made within
\* half of its validity.
LEMMA RecentlyMade ==
  ASSUME NEW n \in Nat, NEW made \in Int, 2 * (n - made) < Validity \/ n <= made + MaxAge
  PROVE  n <= made + Half
BY Halves

\* A recent response from before a revocation puts everything right.
LEMMA StapledInTime ==
  ASSUME TypeOK', NEW p \in Instance, Dated(resp[p])', "ocsp" \in setup',
         2 * (now' - resp'[p]) < Validity \/ now' <= resp'[p] + MaxAge
  PROVE  OCSPKept(p)'
<1>1. /\ now' \in Nat /\ revokedAt' \in Nat /\ resp'[p] \in Int
      /\ ocspTimer'[p] \in Nat /\ ocspTimer'[p] <= OCSPCheckInterval /\ fails'[p].ocsp \in Nat
  BY OCSPNumbersNext, Zenon
<1>2. now' <= resp'[p] + Half
  BY <1>1, RecentlyMade, Zenon
<1>3. PICK n \in Nat : n = OCSPRounds(p)'
  BY <1>1 DEF OCSPRounds
<1>4. /\ OCSPTime(n) \in Nat /\ OCSPTime(n + 1) = OCSPTime(n) + OCSPCheckInterval
      /\ OCSPCheckInterval \in Nat
  BY OCSPTimes, Zenon
<1>5. OCSPTime(OCSPRounds(p) + 1)' = OCSPTime(n + 1)
  BY <1>3, Zenon DEF OCSPTime
<1>6. now' + ocspTimer'[p] <= resp'[p] + Half + OCSPTime(n + 1)
  BY <1>1, <1>2, <1>4, Halves
<1>7. now' + ocspTimer'[p] <= revokedAt' + Larger(Half, MaxAge) + OCSPTime(n + 1)
  BY <1>1, <1>2, <1>4, Halves DEF Dated
<1>8. StapleLag(p)'
  BY <1>5, <1>6, Zenon DEF StapleLag
<1>9. RevocationLag(p)'
  BY <1>5, <1>7, Zenon DEF RevocationLag
<1> QED
  BY <1>8, <1>9, Zenon DEF OCSPKept, OCSPOnly

\* An instance keeps what it has if it has its staple, its timer and the same
\* number of checks still, or if it does not count any more.
LEMMA OCSPUntouched ==
  ASSUME NEW p \in Instance, OCSPKept(p), UNCHANGED <<now, setup, revokedAt>>,
         resp'[p] = resp[p], OCSPOnly(p)',
         Running(p)' /\ ~rejected'[p] =>
            /\ Running(p) /\ ~rejected[p] /\ ocspTimer'[p] = ocspTimer[p] /\ since'[p] = since[p]
            /\ OCSPRounds(p)' = OCSPRounds(p)
  PROVE  OCSPKept(p)'
<1>1. Dated(resp[p])'
  BY Zenon DEF OCSPKept, Dated
<1>2. OCSPRounds(p)' = OCSPRounds(p) =>
         /\ OCSPTime(OCSPRounds(p) + 1)' = OCSPTime(OCSPRounds(p) + 1)
         /\ OCSPTime(OCSPRounds(p))' = OCSPTime(OCSPRounds(p))
  BY Zenon DEF OCSPTime
<1>3. StapleLag(p)'
  BY <1>2, Zenon DEF OCSPKept, StapleLag
<1>4. RevocationLag(p)'
  BY <1>2, Zenon DEF OCSPKept, RevocationLag
<1> QED
  BY <1>1, <1>3, <1>4, Zenon DEF OCSPKept

\* A step that leaves an instance alone.
LEMMA OCSPOthers ==
  ASSUME NEW p \in Instance, OCSPKept(p), UNCHANGED <<now, setup, revokedAt>>,
         pc'[p] = pc[p], resp'[p] = resp[p], fails'[p].ocsp = fails[p].ocsp,
         ocspTimer'[p] = ocspTimer[p], since'[p] = since[p], rejected'[p] = rejected[p]
  PROVE  OCSPKept(p)'
<1>1. OCSPOnly(p)'
  BY Zenon DEF OCSPKept, OCSPOnly
<1>2. Running(p)' = Running(p) /\ OCSPRounds(p)' = OCSPRounds(p)
  BY Zenon DEF Running, OCSPRounds
<1> QED
  BY <1>1, <1>2, OCSPUntouched, Zenon

\* An instance that starts has had no time to fail.
LEMMA OCSPStarts ==
  ASSUME OInv, SInv', NEW p \in Instance, Start(p)
  PROVE  OCSPKept(p)'
<1>1. /\ pc[p] = "off" /\ since'[p] = now /\ UNCHANGED <<now, setup, revokedAt, resp, ocspTimer>>
      /\ UNCHANGED <<fails, rejected>>
  BY Zenon DEF Start, OInv, SInv, TypeOK, environment, timers
<1>2. pc'[p] = IF "ocsp" \in setup THEN "load" ELSE "manage"
  BY Zenon DEF Start, Goto, OInv, SInv, TypeOK
<1>3. resp'[p] = None /\ Dated(resp[p])'
  BY <1>1, Zenon DEF OInv, OCSPKept, Dated, SInv, NoneYet
<1>4. OCSPOnly(p)'
  BY <1>1, <1>2, <1>3, Zenon DEF OCSPOnly
<1>5. StapleLag(p)'
  BY <1>3, Zenon DEF StapleLag
<1>6. RevocationLag(p)'
  <2> SUFFICES ASSUME "ocsp" \in setup PROVE RevocationLag(p)'
    BY <1>1, Zenon DEF RevocationLag
  <2>1. now \in Nat /\ ocspTimer[p] \in Nat /\ ocspTimer[p] <= OCSPCheckInterval /\ fails[p].ocsp \in Nat
    BY OCSPNumbers, Zenon DEF OInv, SInv
  <2>2. PICK n \in Nat : n = fails[p].ocsp
    BY <2>1, Zenon
  <2>3. OCSPRounds(p)' = n + 1
    BY <1>1, <1>2, <2>2, Zenon DEF OCSPRounds
  <2>4. OCSPTime(OCSPRounds(p))' = OCSPTime(n + 1)
    BY <2>3, Zenon DEF OCSPTime
  <2>5. /\ OCSPTime(n) \in Nat /\ OCSPTime(n + 1) = OCSPTime(n) + OCSPCheckInterval
        /\ OCSPCheckInterval \in Nat
    BY OCSPTimes, Zenon
  <2>6. now' + ocspTimer'[p] <= since'[p] + OCSPTime(n + 1)
    BY <1>1, <2>1, <2>5
  <2> QED
    BY <2>4, <2>6, Zenon DEF RevocationLag
<1> QED
  BY <1>3, <1>4, <1>5, <1>6, Zenon DEF OCSPKept

\* A check of an instance: it is not needed, or it is counted from now on.
LEMMA OCSPChecks ==
  ASSUME OInv, SInv', NEW p \in Instance, UpdateOCSPStaples(p)
  PROVE  OCSPKept(p)'
<1>1. /\ pc[p] = "idle" /\ ocspTimer[p] = 0 /\ ocspTimer'[p] = OCSPCheckInterval
      /\ UNCHANGED <<now, setup, revokedAt, resp, since, fails, rejected>>
  BY DEF UpdateOCSPStaples, OInv, SInv, TypeOK, environment
<1>2. pc'[p] = IF "ocsp" \notin setup \/ now > Lifetime \/ FreshOCSP(resp[p]) THEN "idle" ELSE "load"
  BY Zenon DEF UpdateOCSPStaples, Goto, OInv, SInv, TypeOK
<1>3. OCSPKept(p)
  BY Zenon DEF OInv
<1>4. Dated(resp[p])' /\ OCSPOnly(p)'
  BY <1>1, <1>2, <1>3, Zenon DEF OCSPKept, Dated, OCSPOnly
<1>5. CASE "ocsp" \notin setup
  BY <1>1, <1>3, <1>4, <1>5, Zenon DEF OCSPKept, OCSPOnly, StapleLag, RevocationLag
<1>6. CASE now > Lifetime
  <2>1. ~(now <= Lifetime)
    BY <1>6, OCSPNumbers, Intervals DEF OInv, SInv
  <2> QED
    BY <1>1, <1>4, <2>1, Zenon DEF OCSPKept, StapleLag, RevocationLag
<1>7. CASE "ocsp" \in setup /\ FreshOCSP(resp[p])
  <2>1. 2 * (now' - resp'[p]) < Validity
    BY <1>1, <1>7, Zenon DEF FreshOCSP
  <2> QED
    BY <1>1, <1>4, <1>7, <2>1, StapledInTime, Zenon DEF SInv
<1>8. CASE pc'[p] = "load"
  <2>1. /\ now \in Nat /\ revokedAt \in Nat /\ resp[p] \in Int /\ since[p] \in Nat
        /\ fails[p].ocsp \in Nat
    BY OCSPNumbers, Zenon DEF OInv, SInv
  <2>2. PICK n \in Nat : n = fails[p].ocsp
    BY <2>1, Zenon
  <2>3. /\ OCSPRounds(p) = n /\ OCSPRounds(p)' = n + 1
        /\ Running(p)
    BY <1>1, <1>8, <2>2 DEF OCSPRounds, Running
  <2>4. /\ OCSPTime(OCSPRounds(p)) = OCSPTime(n) /\ OCSPTime(OCSPRounds(p) + 1) = OCSPTime(n + 1)
        /\ OCSPTime(OCSPRounds(p))' = OCSPTime(n + 1)
        /\ OCSPTime(OCSPRounds(p) + 1)' = OCSPTime(n + 1 + 1)
    BY <2>3, Zenon DEF OCSPTime
  <2>5. /\ OCSPTime(n) \in Nat /\ OCSPTime(n + 1) = OCSPTime(n) + OCSPCheckInterval
        /\ OCSPTime(n + 1) \in Nat /\ OCSPTime(n + 1 + 1) = OCSPTime(n + 1) + OCSPCheckInterval
        /\ OCSPCheckInterval \in Nat
    BY OCSPTimes
  <2>6. ASSUME resp[p] # None, ~rejected[p], now <= Lifetime
        PROVE  now + OCSPCheckInterval <= resp[p] + Half + OCSPTime(n + 1 + 1)
    <3>1. now + 0 <= resp[p] + Half + OCSPTime(n + 1)
      BY <1>1, <1>3, <2>3, <2>4, <2>6, Zenon DEF OCSPKept, StapleLag
    <3> QED
      BY <2>1, <2>5, <3>1, Halves
  <2>7. ASSUME "ocsp" \in setup, ~rejected[p], now <= Lifetime
        PROVE  \/ now + OCSPCheckInterval <= revokedAt + Larger(Half, MaxAge) + OCSPTime(n + 1 + 1)
               \/ now + OCSPCheckInterval <= since[p] + OCSPTime(n + 1)
    <3>1. \/ now + 0 <= revokedAt + Larger(Half, MaxAge) + OCSPTime(n + 1)
          \/ now + 0 <= since[p] + OCSPTime(n)
      BY <1>1, <1>3, <2>3, <2>4, <2>7, Zenon DEF OCSPKept, RevocationLag
    <3>2. Larger(Half, MaxAge) \in Nat
      BY Halves, Zenon
    <3> QED
      BY <2>1, <2>5, <3>1, <3>2
  <2>8. StapleLag(p)'
    BY <1>1, <2>4, <2>6, Zenon DEF StapleLag
  <2>9. RevocationLag(p)'
    BY <1>1, <2>4, <2>7, Zenon DEF RevocationLag
  <2> QED
    BY <1>4, <2>8, <2>9, Zenon DEF OCSPKept
<1> QED
  BY <1>2, <1>5, <1>6, <1>7, <1>8, Zenon

\* An instance that has got no answer, one that could not be stored, or nothing
\* from storage has its check counted already.
LEMMA OCSPGoesOn ==
  ASSUME OInv, NEW p \in Instance, pc[p] \in {"load", "ask"},
         UNCHANGED <<now, setup, revokedAt, since, ocspTimer, rejected>>, resp'[p] = resp[p],
         \/ pc'[p] = "ask" /\ fails'[p].ocsp = fails[p].ocsp
         \/ pc'[p] \in {"idle", "manage"} /\ fails'[p].ocsp = fails[p].ocsp + 1
  PROVE  OCSPKept(p)'
<1>1. OCSPKept(p) /\ "ocsp" \in setup
  BY Zenon DEF OInv, OCSPKept, OCSPOnly
<1>2. fails[p].ocsp \in Nat
  BY OCSPNumbers, Zenon DEF OInv, SInv
<1>3. Running(p) /\ Running(p)' /\ OCSPRounds(p)' = OCSPRounds(p)
  BY <1>2 DEF Running, OCSPRounds
<1> QED
  BY <1>1, <1>3, OCSPUntouched, Zenon DEF OCSPOnly

\* An instance that looks for a response.
LEMMA OCSPLooks ==
  ASSUME OInv, SInv', NEW p \in Instance,
         LoadStaple(p) \/ Ask(p) \/ AskFails(p) \/ StapleNotStored(p)
  PROVE  OCSPKept(p)' /\ Dated(file)'
<1>1. /\ pc[p] \in {"load", "ask"}
      /\ UNCHANGED <<now, setup, revokedAt, since, ocspTimer>>
  BY Zenon DEF LoadStaple, Ask, AskFails, StapleNotStored, environment, timers
<1>2. OCSPKept(p) /\ "ocsp" \in setup /\ Dated(file)
  BY <1>1, Zenon DEF OInv, OCSPKept, OCSPOnly
<1>3. /\ pc \in [Instance -> {"off", "idle", "load", "ask", "manage", "forced"}]
      /\ resp \in [Instance -> Stapled \cup {None}] /\ rejected \in [Instance -> BOOLEAN]
      /\ fails \in [Instance -> [ocsp : 0 .. MaxFailures, ari : 0 .. MaxFailures]]
      /\ AfterStapling(p) \in {"idle", "manage"} /\ now \in Nat /\ revokedAt \in Nat
  BY OCSPNumbers, Zenon DEF OInv, SInv, TypeOK, AfterStapling
<1>4. UNCHANGED file => Dated(file)'
  BY <1>1, <1>2, Zenon DEF Dated
<1>5. ASSUME NEW made \in Answers, made < revokedAt
      PROVE  made \in Nat /\ made <= now /\ now <= made + MaxAge /\ made <= revokedAt
  BY <1>3, <1>5, TimeTypes DEF Answers
<1>6. CASE LoadStaple(p)
  <2>1. UNCHANGED <<file, fails, rejected>>
    BY <1>6, Zenon DEF LoadStaple, stored
  <2>2. CASE FreshOCSP(file)
    <3>1. resp'[p] = file
      BY <1>3, <1>6, <2>2, Zenon DEF LoadStaple
    <3>2. 2 * (now' - resp'[p]) < Validity /\ Dated(resp[p])'
      BY <1>1, <1>2, <2>2, <3>1, Zenon DEF FreshOCSP, Dated
    <3> QED
      BY <1>1, <1>2, <1>4, <2>1, <3>2, StapledInTime, Zenon DEF SInv
  <2>3. CASE ~FreshOCSP(file)
    <3>1. pc'[p] = "ask" /\ resp'[p] = resp[p]
      BY <1>3, <1>6, <2>3, Zenon DEF LoadStaple, Goto
    <3> QED
      BY <1>1, <1>4, <2>1, <3>1, OCSPGoesOn, Zenon
  <2> QED
    BY <2>2, <2>3, Zenon
<1>7. CASE Ask(p)
  <2>1. PICK made \in Answers :
          \/ /\ rejected' = [rejected EXCEPT ![p] = TRUE] /\ UNCHANGED <<resp, file>>
          \/ /\ made < revokedAt /\ resp' = [resp EXCEPT ![p] = made] /\ file' = made
          \/ Goto(p, "forced") /\ UNCHANGED <<resp, file, rejected>>
    BY <1>7, Zenon DEF Ask
  <2>2. CASE rejected' = [rejected EXCEPT ![p] = TRUE] /\ UNCHANGED <<resp, file>>
    <3>1. rejected'[p] /\ resp'[p] = resp[p]
      BY <1>3, <2>2, Zenon
    <3> QED
      BY <1>1, <1>2, <1>4, <2>2, <3>1, OCSPUntouched, Zenon DEF OCSPOnly
  <2>3. CASE made < revokedAt /\ resp' = [resp EXCEPT ![p] = made] /\ file' = made
    <3>1. resp'[p] = made
      BY <1>3, <2>3, Zenon
    <3>2. now' <= resp'[p] + MaxAge /\ Dated(resp[p])' /\ Dated(file)'
      BY <1>1, <1>5, <2>3, <3>1, Zenon DEF Dated
    <3> QED
      BY <1>1, <1>2, <3>2, StapledInTime, Zenon DEF SInv
  <2>4. CASE Goto(p, "forced") /\ UNCHANGED <<resp, file, rejected>>
    <3>1. ~Running(p)'
      BY <1>3, <2>4, Zenon DEF Goto, Running
    <3> QED
      BY <1>1, <1>2, <1>4, <2>4, <3>1, OCSPUntouched, Zenon DEF OCSPOnly
  <2> QED
    BY <2>1, <2>2, <2>3, <2>4, Zenon
<1>8. CASE AskFails(p)
  <2>1. /\ UNCHANGED <<file, resp, rejected>> /\ fails' = [fails EXCEPT ![p].ocsp = @ + 1]
        /\ pc' = [pc EXCEPT ![p] = AfterStapling(p)]
    BY <1>8, Zenon DEF AskFails, Goto, stored
  <2>2. pc'[p] \in {"idle", "manage"} /\ fails'[p].ocsp = fails[p].ocsp + 1
    BY <1>3, <2>1, Zenon
  <2> QED
    BY <1>1, <1>4, <2>1, <2>2, OCSPGoesOn, Zenon
<1>9. CASE StapleNotStored(p)
  <2>1. /\ UNCHANGED <<file, rejected>> /\ fails' = [fails EXCEPT ![p].ocsp = @ + 1]
        /\ pc' = [pc EXCEPT ![p] = AfterStapling(p)]
    BY <1>9, Zenon DEF StapleNotStored, Goto, stored
  <2>2. pc'[p] \in {"idle", "manage"} /\ fails'[p].ocsp = fails[p].ocsp + 1
    BY <1>3, <2>1, Zenon
  <2>3. PICK made \in Answers :
           /\ made < revokedAt
           /\ resp' = [resp EXCEPT ![p] = IF why[p] = "start" THEN made ELSE @]
    BY <1>9, Zenon DEF StapleNotStored
  <2>4. CASE why[p] = "start"
    <3>1. resp'[p] = made
      BY <1>3, <2>3, <2>4, Zenon
    <3>2. now' <= resp'[p] + MaxAge /\ Dated(resp[p])'
      BY <1>1, <1>5, <2>3, <3>1, Zenon DEF Dated
    <3> QED
      BY <1>1, <1>2, <1>4, <2>1, <3>2, StapledInTime, Zenon DEF SInv
  <2>5. CASE why[p] # "start"
    <3>1. resp'[p] = resp[p]
      BY <1>3, <2>3, <2>5, Zenon
    <3> QED
      BY <1>1, <1>4, <2>1, <2>2, <3>1, OCSPGoesOn, Zenon
  <2> QED
    BY <2>4, <2>5, Zenon
<1> QED
  BY <1>6, <1>7, <1>8, <1>9, Zenon

\* A revocation cannot have gone unnoticed yet.
LEMMA OCSPRevoked ==
  ASSUME OInv, SInv', Revoke, NEW p \in Instance
  PROVE  OCSPKept(p)'
<1>1. revokedAt' = now /\ UNCHANGED <<now, setup, pc, since, ocspTimer, resp, fails, rejected>>
  BY Zenon DEF Revoke, timers
<1>2. OCSPKept(p)
  BY Zenon DEF OInv
<1>3. Dated(resp[p])' /\ OCSPOnly(p)'
  BY <1>1, <1>2, Zenon DEF OCSPKept, Dated, OCSPOnly
<1>4. PICK n \in Nat : n = OCSPRounds(p)
  BY OCSPNumbers DEF OCSPRounds, OInv, SInv
<1>5. OCSPRounds(p)' = n
  BY <1>1, <1>4, Zenon DEF OCSPRounds
<1>6. OCSPTime(OCSPRounds(p) + 1) = OCSPTime(n + 1) /\ OCSPTime(OCSPRounds(p) + 1)' = OCSPTime(n + 1)
  BY <1>4, <1>5, Zenon DEF OCSPTime
<1>7. StapleLag(p)'
  BY <1>1, <1>2, <1>6, Zenon DEF OCSPKept, StapleLag, Running
<1>8. now' + ocspTimer'[p] <= revokedAt' + Larger(Half, MaxAge) + OCSPTime(n + 1)
  <2>1. now \in Nat /\ ocspTimer[p] \in Nat /\ ocspTimer[p] <= OCSPCheckInterval
    BY OCSPNumbers, Zenon DEF OInv, SInv
  <2>2. /\ OCSPTime(n) \in Nat /\ OCSPTime(n + 1) = OCSPTime(n) + OCSPCheckInterval
        /\ OCSPCheckInterval \in Nat
    BY OCSPTimes, Zenon
  <2>3. Larger(Half, MaxAge) \in Nat
    BY Halves, Zenon
  <2> QED
    BY <1>1, <2>1, <2>2, <2>3
<1>9. RevocationLag(p)'
  BY <1>6, <1>8, Zenon DEF RevocationLag
<1> QED
  BY <1>3, <1>7, <1>9, Zenon DEF OCSPKept

\* When time passes the tickers do, too.
LEMMA OCSPPass ==
  ASSUME OInv, Pass, NEW p \in Instance
  PROVE  OCSPKept(p)'
<1>1. /\ now' = now + 1 /\ Settled(p)
      /\ ocspTimer'[p] = ocspTimer[p] - IF pc[p] = "idle" THEN 1 ELSE 0
      /\ UNCHANGED <<setup, revokedAt, pc, since, resp, fails, rejected>>
  BY Zenon DEF Pass, environment
<1>2. OCSPKept(p)
  BY Zenon DEF OInv
<1>3. /\ now \in Nat /\ ocspTimer[p] \in Nat /\ resp[p] \in Int /\ revokedAt \in Nat
      /\ since[p] \in Nat
  BY OCSPNumbers, Zenon DEF OInv, SInv
<1>4. Dated(resp[p])' /\ OCSPOnly(p)'
  BY <1>1, <1>2, <1>3 DEF OCSPKept, Dated, OCSPOnly
<1>5. Running(p)' = Running(p) /\ (Running(p) => pc[p] = "idle")
  BY <1>1, Zenon DEF Running, Settled
<1>6. pc[p] = "idle" => now' + ocspTimer'[p] = now + ocspTimer[p]
  BY <1>1, <1>3
<1>7. OCSPRounds(p)' = OCSPRounds(p)
  BY <1>1, Zenon DEF OCSPRounds
<1>8. /\ OCSPTime(OCSPRounds(p) + 1)' = OCSPTime(OCSPRounds(p) + 1)
      /\ OCSPTime(OCSPRounds(p))' = OCSPTime(OCSPRounds(p))
  BY <1>7, Zenon DEF OCSPTime
<1>9. now' <= Lifetime => now <= Lifetime
  BY <1>1, <1>3, Intervals
<1>10. StapleLag(p)'
  BY <1>1, <1>2, <1>5, <1>6, <1>8, <1>9, Zenon DEF OCSPKept, StapleLag
<1>11. RevocationLag(p)'
  BY <1>1, <1>2, <1>5, <1>6, <1>8, <1>9, Zenon DEF OCSPKept, RevocationLag
<1> QED
  BY <1>4, <1>10, <1>11, Zenon DEF OCSPKept

\* The failed requests for a response after the renewal info was refreshed.
LEMMA RefreshKeepsOCSP ==
  ASSUME SInv, NEW p \in Instance, RefreshARI(p), NEW o \in Instance
  PROVE  fails'[o].ocsp = fails[o].ocsp
<1>1. fails \in [Instance -> [ocsp : 0 .. MaxFailures, ari : 0 .. MaxFailures]]
  BY Zenon DEF SInv, TypeOK
<1>2. \/ UNCHANGED fails
      \/ fails' = [fails EXCEPT ![p].ari = 0]
      \/ fails' = [fails EXCEPT ![p].ari = @ + 1]
  BY Zenon DEF RefreshARI, UpdateARI
<1> QED
  BY <1>1, <1>2

\* Every step keeps how late an instance may be.
LEMMA OInvStep ==
  ASSUME OInv, [Next]_vars
  PROVE  OInv'
<1>1. SInv'
  BY SInvStep, Zenon DEF OInv
<1> DEFINE Kept == Dated(file)' /\ \A p \in Instance : OCSPKept(p)'
<1>2. \A p \in Instance : OCSPKept(p)
  BY Zenon DEF OInv
<1>3. UNCHANGED <<now, revokedAt, file>> => Dated(file)'
  BY Zenon DEF OInv, Dated
<1>4. /\ pc \in [Instance -> {"off", "idle", "load", "ask", "manage", "forced"}]
      /\ resp \in [Instance -> Stapled \cup {None}] /\ rejected \in [Instance -> BOOLEAN]
      /\ fails \in [Instance -> [ocsp : 0 .. MaxFailures, ari : 0 .. MaxFailures]]
      /\ since \in [Instance -> Time] /\ ocspTimer \in [Instance -> 0 .. OCSPCheckInterval]
  BY Zenon DEF OInv, SInv, TypeOK
<1>5. ASSUME UNCHANGED <<now, setup, revokedAt, pc, since, ocspTimer, resp, fails, rejected>>,
             Dated(file)'
      PROVE  Kept
  BY <1>2, <1>5, OCSPOthers, Zenon
<1>6. ASSUME NEW p \in Instance, Start(p) PROVE Kept
  <2>1. /\ UNCHANGED <<now, setup, revokedAt, file, ocspTimer, resp, fails, rejected>>
        /\ since' = [since EXCEPT ![p] = now]
        /\ pc' = [pc EXCEPT ![p] = IF "ocsp" \in setup THEN "load" ELSE "manage"]
    BY <1>6, Zenon DEF Start, Goto, environment, stored, timers
  <2>2. \A o \in Instance : o # p => pc'[o] = pc[o] /\ since'[o] = since[o]
    BY <1>4, <2>1, Zenon
  <2>3. \A o \in Instance : o # p => OCSPKept(o)'
    BY <1>2, <2>1, <2>2, OCSPOthers, Zenon
  <2> QED
    BY <1>1, <1>3, <1>6, <2>1, <2>3, OCSPStarts, Zenon
<1>7. ASSUME NEW p \in Instance, LoadStaple(p) \/ Ask(p) \/ AskFails(p) \/ StapleNotStored(p)
      PROVE  Kept
  <2>1. /\ UNCHANGED <<now, setup, revokedAt, since, ocspTimer>>
        /\ \E l : pc' = [pc EXCEPT ![p] = l]
        /\ UNCHANGED resp \/ \E r : resp' = [resp EXCEPT ![p] = r]
        /\ UNCHANGED rejected \/ rejected' = [rejected EXCEPT ![p] = TRUE]
        /\ UNCHANGED fails \/ \E n : fails' = [fails EXCEPT ![p].ocsp = n]
    <3>1. CASE LoadStaple(p)
      BY <3>1, Zenon DEF LoadStaple, Goto, environment, timers
    <3>2. CASE Ask(p)
      BY <3>2, Zenon DEF Ask, Goto, environment, timers
    <3>3. CASE AskFails(p)
      BY <3>3, Zenon DEF AskFails, Goto, environment, timers
    <3>4. CASE StapleNotStored(p)
      BY <3>4, Zenon DEF StapleNotStored, Goto, environment, timers
    <3> QED
      BY <1>7, <3>1, <3>2, <3>3, <3>4, Zenon
  <2>2. ASSUME NEW o \in Instance, o # p
        PROVE  /\ pc'[o] = pc[o] /\ resp'[o] = resp[o] /\ rejected'[o] = rejected[o]
               /\ fails'[o].ocsp = fails[o].ocsp
    BY <1>4, <2>1, <2>2, Zenon
  <2>3. \A o \in Instance : o # p => OCSPKept(o)'
    BY <1>2, <2>1, <2>2, OCSPOthers, Zenon
  <2> QED
    BY <1>1, <1>7, <2>3, OCSPLooks, Zenon
<1>8. ASSUME NEW p \in Instance, UpdateOCSPStaples(p) PROVE Kept
  <2>1. /\ UNCHANGED <<now, setup, revokedAt, file, since, resp, fails, rejected>>
        /\ ocspTimer' = [ocspTimer EXCEPT ![p] = OCSPCheckInterval]
        /\ \E l : pc' = [pc EXCEPT ![p] = l]
    BY <1>8, Zenon DEF UpdateOCSPStaples, Goto, environment, stored
  <2>2. \A o \in Instance : o # p => pc'[o] = pc[o] /\ ocspTimer'[o] = ocspTimer[o]
    BY <1>4, <2>1, Zenon
  <2>3. \A o \in Instance : o # p => OCSPKept(o)'
    BY <1>2, <2>1, <2>2, OCSPOthers, Zenon
  <2> QED
    BY <1>1, <1>3, <1>8, <2>1, <2>3, OCSPChecks, Zenon
<1>9. ASSUME NEW p \in Instance, Manage(p) PROVE Kept
  <2>1. /\ UNCHANGED <<now, setup, revokedAt, file, since, ocspTimer, resp, rejected>>
        /\ pc[p] = "manage" /\ pc' = [pc EXCEPT ![p] = "idle"] /\ RefreshARI(p)
    BY <1>9, Zenon DEF Manage, Goto, environment, timers
  <2>2. \A o \in Instance : fails'[o].ocsp = fails[o].ocsp
    BY <2>1, RefreshKeepsOCSP, Zenon DEF OInv
  <2>3. pc'[p] = "idle" /\ \A o \in Instance : o # p => pc'[o] = pc[o]
    BY <1>4, <2>1, Zenon
  <2>4. \A o \in Instance : o # p => OCSPKept(o)'
    BY <1>2, <2>1, <2>2, <2>3, OCSPOthers, Zenon
  <2>5. /\ Running(p) /\ OCSPRounds(p)' = OCSPRounds(p) /\ OCSPKept(p)
        /\ OCSPOnly(p)'
    BY <1>2, <2>1, <2>2, <2>3, Zenon DEF Running, OCSPRounds, OCSPKept, OCSPOnly
  <2> QED
    BY <1>3, <2>1, <2>4, <2>5, OCSPUntouched, Zenon
<1>10. ASSUME NEW p \in Instance, RenewManagedCertificates(p) PROVE Kept
  <2>1. /\ UNCHANGED <<now, setup, revokedAt, file, pc, since, ocspTimer, resp, rejected>>
        /\ RefreshARI(p)
    BY <1>10, Zenon DEF RenewManagedCertificates, environment
  <2>2. \A o \in Instance : fails'[o].ocsp = fails[o].ocsp
    BY <2>1, RefreshKeepsOCSP, Zenon DEF OInv
  <2> QED
    BY <1>2, <1>3, <2>1, <2>2, OCSPOthers, Zenon
<1>11. ASSUME FindOldStaple PROVE Kept
  BY <1>3, <1>5, <1>11, Zenon DEF FindOldStaple, environment, timers
<1>12. ASSUME DeleteOldStaple PROVE Kept
  <2>1. /\ UNCHANGED <<now, setup, revokedAt, pc, since, ocspTimer, resp, fails, rejected>>
        /\ file' = None
    BY <1>12, Zenon DEF DeleteOldStaple, environment, timers
  <2>2. now \in Nat /\ revokedAt \in Nat
    BY TimeTypes, Constants DEF OInv, SInv, TypeOK
  <2>3. Dated(file)'
    BY <2>1, <2>2, TimeTypes DEF Dated
  <2> QED
    BY <1>5, <2>1, <2>3, Zenon
<1>13. ASSUME Revoke PROVE Kept
  <2>1. revokedAt' = now /\ UNCHANGED <<now, file>>
    BY <1>13, Zenon DEF Revoke, stored
  <2>2. Dated(file)'
    BY <2>1, Zenon DEF OInv, Dated
  <2> QED
    BY <1>1, <1>13, <2>2, OCSPRevoked, Zenon
<1>14. ASSUME MoveWindow PROVE Kept
  BY <1>3, <1>5, <1>14, Zenon DEF MoveWindow, stored, timers
<1>15. ASSUME Pass PROVE Kept
  <2>1. now' = now + 1 /\ UNCHANGED <<revokedAt, file>>
    BY <1>15, Zenon DEF Pass, environment, stored
  <2>2. now \in Nat /\ file \in Int
    <3>1. \A t \in Stapled \cup {None} : t \in Int
      BY TimeTypes
    <3> QED
      BY <3>1, TimeTypes, Zenon DEF OInv, SInv, TypeOK
  <2>3. Dated(file)'
    BY <2>1, <2>2 DEF OInv, Dated
  <2> QED
    BY <1>15, <2>3, OCSPPass, Zenon
<1>16. ASSUME UNCHANGED vars PROVE Kept
  BY <1>3, <1>5, <1>16, Zenon DEF vars
<1> QED
  BY <1>1, <1>6, <1>7, <1>8, <1>9, <1>10, <1>11, <1>12, <1>13, <1>14, <1>15, <1>16, Zenon DEF Next, OInv

\* How late an instance may be with OCSP holds in every state.
THEOREM OInvInvariant == Spec => []OInv
<1>1. Init /\ SInv => OInv
  <2> SUFFICES ASSUME Init, SInv PROVE OInv
    BY Zenon
  <2>1. now = 0 /\ revokedAt \in Nat /\ file = None /\ None = -1
    BY TimeTypes, Constants DEF Init
  <2>2. \A p \in Instance : resp[p] = None /\ pc[p] = "off"
    BY Zenon DEF Init
  <2>3. Dated(None)
    BY <2>1 DEF Dated
  <2> QED
    BY <2>1, <2>2, <2>3, Zenon DEF OInv, OCSPKept, OCSPOnly, StapleLag, RevocationLag, Running
<1>2. OInv /\ [Next]_vars => OInv'
  BY OInvStep, Zenon
<1> QED
  BY <1>1, <1>2, SInvInvariant, PTL DEF Spec

\* A number that is less than q + 1 intervals has at most q whole ones in it.
LEMMA WholeOCSPRounds ==
  ASSUME NEW q \in Nat, NEW e \in Nat, e < OCSPTime(q + 1)
  PROVE  q >= e \div OCSPCheckInterval
<1> DEFINE i == OCSPCheckInterval
<1> DEFINE d == e \div i
<1>1. i \in Nat /\ i > 0
  BY Constants
<1>2. d \in Nat /\ d * i <= e
  BY <1>1
<1>3. e < (q + 1) * i
  BY Zenon DEF OCSPTime
<1>4. q \in Nat /\ e \in Nat
  BY Zenon
<1> HIDE DEF i, d
<1>5. d <= q
  <2> SUFFICES ASSUME d >= q + 1 PROVE FALSE
    BY <1>2, <1>4
  <2>1. d * i >= (q + 1) * i /\ (q + 1) * i \in Nat /\ d * i \in Nat
    BY <1>1, <1>2, <1>4
  <2> QED
    BY <1>2, <1>3, <1>4, <2>1
<1> QED
  BY <1>2, <1>5, Zenon DEF i, d

\* While the certificate is valid, an instance staples an expired response only
\* if every request it had time for has failed or a response was rejected
\* (stapleOCSP, freshOCSP, updateOCSPStaples), for every value of the constants
\* and whatever the instances take from each other through storage.
THEOREM StaplesValid == Spec => []StapleValid
<1>1. OInv => StapleValid
  <2> SUFFICES ASSUME OInv, NEW p \in Instance, pc[p] = "idle", Settled(p), resp[p] # None,
                      now > resp[p] + Validity, now <= Lifetime, ~rejected[p]
               PROVE  fails[p].ocsp >= (Validity - Half + 1) \div OCSPCheckInterval
    BY Zenon DEF StapleValid
  <2>1. /\ now \in Nat /\ resp[p] \in Nat /\ ocspTimer[p] \in Nat /\ fails[p].ocsp \in Nat
    BY OCSPNumbers, Zenon DEF OInv, SInv
  <2>2. ocspTimer[p] >= 1
    BY <2>1 DEF Settled
  <2>3. PICK n \in Nat : n = fails[p].ocsp
    BY <2>1, Zenon
  <2>4. Running(p) /\ OCSPRounds(p) = n
    BY <2>3 DEF Running, OCSPRounds
  <2>5. now + ocspTimer[p] <= resp[p] + Half + OCSPTime(n + 1)
    BY <2>4, Zenon DEF OInv, OCSPKept, StapleLag
  <2>6. OCSPTime(n + 1) \in Nat
    BY OCSPTimes
  <2>7. Validity - Half + 1 \in Nat /\ Validity - Half + 1 < OCSPTime(n + 1)
    BY <2>1, <2>2, <2>5, <2>6, Halves
  <2> QED
    BY <2>3, <2>7, WholeOCSPRounds, Zenon
<1> QED
  BY OInvInvariant, <1>1, PTL

\* An instance learns of a revocation one round after the response of before it
\* is half through its validity, and one round later for every request that
\* failed (stapleOCSP, updateOCSPStaples), for every value of the constants: the
\* responses that instances take from each other do not add up.
THEOREM RevocationsNoticed == Spec => []RevocationNoticed
<1>1. OInv => RevocationNoticed
  <2> SUFFICES ASSUME OInv, NEW p \in Instance, "ocsp" \in setup, pc[p] = "idle", Settled(p),
                      now >= Larger(since[p], revokedAt + Larger(Half, MaxAge) + OCSPCheckInterval)
                               + fails[p].ocsp * OCSPCheckInterval,
                      ~rejected[p], ~(now > Lifetime)
               PROVE  FALSE
    BY Zenon DEF RevocationNoticed
  <2>1. /\ now \in Nat /\ revokedAt \in Nat /\ since[p] \in Nat /\ ocspTimer[p] \in Nat
        /\ fails[p].ocsp \in Nat
    BY OCSPNumbers, Zenon DEF OInv, SInv
  <2>2. ocspTimer[p] >= 1 /\ now <= Lifetime
    BY <2>1, Intervals DEF Settled
  <2>3. PICK n \in Nat : n = fails[p].ocsp
    BY <2>1, Zenon
  <2>4. Running(p) /\ OCSPRounds(p) = n
    BY <2>3 DEF Running, OCSPRounds
  <2>5. \/ now + ocspTimer[p] <= revokedAt + Larger(Half, MaxAge) + OCSPTime(n + 1)
        \/ now + ocspTimer[p] <= since[p] + OCSPTime(n)
    BY <2>2, <2>4, Zenon DEF OInv, OCSPKept, RevocationLag
  <2>6. /\ OCSPTime(n) \in Nat /\ OCSPTime(n + 1) = OCSPTime(n) + OCSPCheckInterval
        /\ OCSPCheckInterval \in Nat
    BY OCSPTimes, Zenon
  <2>7. PICK l \in Nat : l = Larger(Half, MaxAge)
    BY Halves, Zenon
  <2>8. now >= Larger(since[p], revokedAt + l + OCSPCheckInterval) + OCSPTime(n)
    BY <2>3, <2>7, Zenon DEF OCSPTime
  <2>9. now >= since[p] + OCSPTime(n) /\ now >= revokedAt + l + OCSPCheckInterval + OCSPTime(n)
    BY <2>1, <2>6, <2>8 DEF Larger
  <2> QED
    BY <2>1, <2>2, <2>5, <2>6, <2>7, <2>9
<1> QED
  BY OInvInvariant, <1>1, PTL

-----------------------------------------------------------------------------
\* When an instance last had a look at the certificate.
LastCheck(p) == now + renewTimer[p] - RenewCheckInterval
RenewTime(n) == n * RenewCheckInterval

\* An instance that is starting does so at once; after that it keeps checking.
Starting(p) == pc[p] \in {"off", "manage"} \/ (pc[p] \in {"load", "ask"} /\ why[p] = "start")
AtOnce(p) ==
    /\ pc[p] = "off" => why[p] = "start"
    /\ pc[p] # "off" /\ Starting(p) => now = since[p]
Checks(p) == Running(p) /\ ~Starting(p)

\* What can be said of renewal info, wherever it is: that of another window is
\* from before the window was moved.
Info(i) ==
    /\ i.until <= now + RetryAfter
    /\ i.start # window => movedAt > 0 /\ i.until <= movedAt + RetryAfter
    /\ i.time # Zero => i.time \in Selection(i.start)

\* The renewal info in storage was the last to be fetched, which was after
\* whatever an instance has was to be refreshed, and after its last check.
StoredIsNewer(p) ==
    ari[p].until # meta.until
      => /\ ari[p].until + RetryAfter < meta.until
         /\ Running(p) => LastCheck(p) + RetryAfter <= meta.until

\* An instance that knows the window has queued a renewal if it has had a look
\* less than a round before the end of the window.
NotMissed(p) ==
    Checks(p) /\ queued[p] = 0 /\ ari[p].start = window
      => LastCheck(p) + RenewCheckInterval <= window + WindowLength

\* An instance that does not know the window had its last look before it was to
\* refresh what it has, or one round later for every request that failed.
Outdated(p) ==
    Checks(p) /\ ari[p].start # window
      => \/ LastCheck(p) <= movedAt + RetryAfter + RenewTime(fails[p].ari)
         \/ LastCheck(p) + RenewCheckInterval <= since[p] + RenewTime(fails[p].ari)

ARIKept(p) == Info(ari[p]) /\ AtOnce(p) /\ NotMissed(p) /\ Outdated(p)
ARIInv == /\ movedAt <= now /\ Info(meta)
          /\ \A p \in Instance : ARIKept(p) /\ StoredIsNewer(p)
RInv == SInv /\ ("ari" \in setup => ARIInv)

\* What takes part in the argument are numbers.
LEMMA ARINumbers ==
  ASSUME TypeOK
  PROVE  /\ now \in Nat /\ window \in Nat /\ movedAt \in Nat /\ meta \in ARI
         /\ \A p \in Instance :
               /\ since[p] \in Nat /\ ari[p] \in ARI /\ queued[p] \in Nat
               /\ renewTimer[p] \in Nat /\ renewTimer[p] <= RenewCheckInterval
               /\ fails[p].ari \in Nat
         /\ RenewCheckInterval \in Nat /\ RenewCheckInterval > 0
         /\ RetryAfter \in Nat /\ WindowLength \in Nat
<1>1. /\ RenewCheckInterval \in Nat /\ RenewCheckInterval > 0
      /\ RetryAfter \in Nat /\ WindowLength \in Nat /\ MaxFailures \in Nat
  BY Constants
<1>2. now \in Nat /\ window \in Nat /\ movedAt \in Nat /\ meta \in ARI
  BY TimeTypes, Zenon DEF TypeOK
<1>3. ASSUME NEW p \in Instance
      PROVE  /\ since[p] \in Nat /\ ari[p] \in ARI /\ queued[p] \in Nat
             /\ renewTimer[p] \in Nat /\ renewTimer[p] <= RenewCheckInterval
             /\ fails[p].ari \in Nat
  <2>1. since[p] \in Nat /\ ari[p] \in ARI /\ queued[p] \in Nat
    BY TimeTypes, Zenon DEF TypeOK
  <2>2. renewTimer[p] \in 0 .. RenewCheckInterval /\ fails[p].ari \in 0 .. MaxFailures
    BY Zenon DEF TypeOK
  <2> QED
    BY <1>1, <2>1, <2>2
<1> QED
  BY <1>1, <1>2, <1>3, Zenon

\* So are the parts of renewal info.
LEMMA InfoNumbers ==
  ASSUME NEW i \in ARI
  PROVE  i.start \in Nat /\ i.until \in Nat /\ i.time \in Int /\ Zero \in Int /\ Zero <= 0
<1>1. Lifetime \in Nat /\ RetryAfter \in Nat /\ Horizon = Lifetime + 1
  BY Constants, Zenon
<1>2. Zero \in Int /\ Zero <= 0
  BY <1>1 DEF Zero
<1>3. i.start \in Time /\ i.time \in Time \cup {Zero} /\ i.until \in 0 .. Horizon + RetryAfter
  BY Zenon DEF ARI
<1>4. i.start \in Nat /\ i.time \in Int
  <2>1. \A t \in Time : t \in Nat /\ t \in Int
    BY TimeTypes
  <2>2. CASE i.time = Zero
    BY <1>2, <1>3, <2>1, <2>2, Zenon
  <2>3. CASE i.time \in Time
    BY <1>3, <2>1, <2>3, Zenon
  <2> QED
    BY <1>3, <2>2, <2>3, Zenon
<1>5. i.until \in Nat
  BY <1>1, <1>3
<1> QED
  BY <1>2, <1>4, <1>5, Zenon

\* One check more takes one interval more.
LEMMA RenewTimes ==
  ASSUME NEW n \in Nat
  PROVE  RenewTime(n) \in Nat /\ RenewTime(n + 1) = RenewTime(n) + RenewCheckInterval
<1> DEFINE i == RenewCheckInterval
<1>1. i \in Nat
  BY Intervals, Zenon
<1> HIDE DEF i
<1>2. n * i \in Nat /\ (n + 1) * i = n * i + i
  BY <1>1
<1> QED
  BY <1>2, Zenon DEF RenewTime, i

\* A certificate that is not due by its renewal info is more than one round
\* before the end of the window.
LEMMA NotDue ==
  ASSUME TypeOK, "ari" \in setup, NEW i \in ARI, i.time # Zero => i.time \in Selection(i.start),
         ~NeedsRenewal(i)
  PROVE  now + RenewCheckInterval <= i.start + WindowLength
<1>1. /\ now \in Nat /\ RenewCheckInterval \in Nat /\ WindowLength \in Nat
      /\ i.start \in Nat /\ i.time \in Int /\ Zero <= 0 /\ Zero \in Int /\ RenewCheckInterval > 0
  BY ARINumbers, InfoNumbers, Zenon
<1>2. ~(now > i.time - RenewCheckInterval)
  BY Zenon DEF NeedsRenewal
<1>3. i.time # Zero
  BY <1>1, <1>2
<1>4. i.time <= i.start + WindowLength
  BY <1>1, <1>3 DEF Selection
<1> QED
  BY <1>1, <1>2, <1>4

\* What refreshing the renewal info comes to: it is not needed, somebody else has
\* done it, it is done, or it fails.
LEMMA RefreshCases ==
  ASSUME SInv, "ari" \in setup, NEW p \in Instance, RefreshARI(p)
  PROVE  /\ \A o \in Instance : o # p => ari'[o] = ari[o] /\ fails'[o].ari = fails[o].ari
         /\ \/ now <= ari[p].until /\ UNCHANGED <<ari, meta, fails>>
            \/ meta.until > ari[p].until /\ ari'[p] = meta /\ UNCHANGED <<meta, fails>>
            \/ /\ now > ari[p].until /\ meta.until <= ari[p].until /\ ari'[p] = meta'
               /\ meta'.start = window /\ meta'.until = now + RetryAfter
               /\ meta'.time \in Selection(window)
            \/ /\ now > ari[p].until /\ meta.until <= ari[p].until /\ UNCHANGED <<ari, meta>>
               /\ fails'[p].ari = fails[p].ari + 1
<1>1. /\ ari \in [Instance -> ARI]
      /\ fails \in [Instance -> [ocsp : 0 .. MaxFailures, ari : 0 .. MaxFailures]]
      /\ now \in Nat /\ ari[p].until \in Nat
  BY ARINumbers, InfoNumbers, Zenon DEF SInv, TypeOK
<1>2. CASE ~NeedsRefresh(ari[p])
  <2>1. UNCHANGED <<ari, meta, fails>>
    BY <1>2, Zenon DEF RefreshARI
  <2>2. now <= ari[p].until
    BY <1>1, <1>2 DEF NeedsRefresh
  <2> QED
    BY <2>1, <2>2, Zenon
<1>3. CASE NeedsRefresh(ari[p])
  <2>1. UpdateARI(p) /\ now > ari[p].until
    BY <1>3, Zenon DEF RefreshARI, NeedsRefresh
  <2>2. CASE /\ meta.until > ari[p].until /\ ari' = [ari EXCEPT ![p] = meta]
             /\ UNCHANGED <<meta, fails>>
    BY <1>1, <2>2, Zenon
  <2>3. ASSUME meta.until <= ari[p].until, NEW t \in Selection(window),
               meta' = [start |-> window, time |-> t, until |-> now + RetryAfter],
               ari' = [ari EXCEPT ![p] = meta'], fails' = [fails EXCEPT ![p].ari = 0]
        PROVE  /\ \A o \in Instance : o # p => ari'[o] = ari[o] /\ fails'[o].ari = fails[o].ari
               /\ meta.until <= ari[p].until /\ ari'[p] = meta'
               /\ meta'.start = window /\ meta'.until = now + RetryAfter
               /\ meta'.time \in Selection(window)
    BY <1>1, <2>3, Zenon
  <2>4. CASE /\ meta.until <= ari[p].until /\ fails' = [fails EXCEPT ![p].ari = @ + 1]
             /\ UNCHANGED <<ari, meta>>
    BY <1>1, <2>1, <2>4, Zenon
  <2> QED
    BY <2>1, <2>2, <2>3, <2>4, Zenon DEF UpdateARI
<1> QED
  BY <1>2, <1>3, Zenon

\* Renewal info stays what it is while time passes ...
LEMMA InfoStays ==
  ASSUME NEW i \in ARI, Info(i), now \in Nat, now' \in Nat, now <= now',
         UNCHANGED <<window, movedAt>>
  PROVE  Info(i)'
<1>1. i.until \in Nat /\ RetryAfter \in Nat
  BY InfoNumbers, Constants, Zenon
<1>2. i.until <= now' + RetryAfter
  BY <1>1 DEF Info
<1> QED
  BY <1>2, Zenon DEF Info

\* ... and is outdated when the window moves.
LEMMA InfoMoved ==
  ASSUME NEW i \in ARI, Info(i), MoveWindow
  PROVE  Info(i)'
BY Zenon DEF Info, MoveWindow

\* An instance keeps what it has if it has the same renewal info and no check
\* took place.
LEMMA ARIUntouched ==
  ASSUME NEW p \in Instance, ARIKept(p), ari[p] \in ARI, now \in Nat,
         UNCHANGED <<now, window, movedAt>>, AtOnce(p)', ari'[p] = ari[p],
         Checks(p)' => /\ Checks(p) /\ queued'[p] = queued[p] /\ renewTimer'[p] = renewTimer[p]
                       /\ since'[p] = since[p] /\ fails'[p].ari = fails[p].ari
  PROVE  ARIKept(p)'
<1>1. Info(ari[p])'
  BY Zenon DEF ARIKept, Info
<1>2. NotMissed(p)'
  BY Zenon DEF ARIKept, NotMissed, LastCheck
<1>3. Outdated(p)'
  BY Zenon DEF ARIKept, Outdated, LastCheck, RenewTime
<1> QED
  BY <1>1, <1>2, <1>3, Zenon DEF ARIKept

\* The same for what is in storage.
LEMMA StoredUntouched ==
  ASSUME NEW p \in Instance, StoredIsNewer(p), UNCHANGED <<now, meta>>,
         ari'[p] = ari[p], Running(p)' => Running(p) /\ renewTimer'[p] = renewTimer[p]
  PROVE  StoredIsNewer(p)'
BY Zenon DEF StoredIsNewer, LastCheck

\* A step that leaves an instance alone.
LEMMA ARIOthers ==
  ASSUME NEW p \in Instance, ARIKept(p), ari[p] \in ARI, now \in Nat,
         UNCHANGED <<now, window, movedAt>>, pc'[p] = pc[p], why'[p] = why[p], ari'[p] = ari[p],
         queued'[p] = queued[p], renewTimer'[p] = renewTimer[p], since'[p] = since[p],
         fails'[p].ari = fails[p].ari
  PROVE  ARIKept(p)' /\ (StoredIsNewer(p) /\ UNCHANGED meta => StoredIsNewer(p)')
<1>1. AtOnce(p)' /\ Checks(p)' = Checks(p) /\ Running(p)' = Running(p)
  BY Zenon DEF ARIKept, AtOnce, Starting, Checks, Running
<1> QED
  BY <1>1, ARIUntouched, StoredUntouched, Zenon

\* After a check of an instance the renewal info in storage is newer than what
\* any of them has, or the same.
LEMMA StoredRefreshed ==
  ASSUME SInv, "ari" \in setup, ARIInv, NEW p \in Instance, RefreshARI(p), UNCHANGED now,
         renewTimer'[p] \in Nat, renewTimer'[p] <= RenewCheckInterval,
         NEW o \in Instance,
         o # p => pc'[o] = pc[o] /\ renewTimer'[o] = renewTimer[o]
  PROVE  StoredIsNewer(o)'
<1>1. /\ now \in Nat /\ meta.until \in Nat /\ ari[p].until \in Nat /\ ari[o].until \in Nat
      /\ renewTimer[o] \in Nat /\ renewTimer[o] <= RenewCheckInterval
      /\ RenewCheckInterval \in Nat /\ RetryAfter \in Nat
  BY ARINumbers, InfoNumbers, Zenon DEF SInv
<1>2. StoredIsNewer(o) /\ StoredIsNewer(p)
  BY Zenon DEF ARIInv
<1>3. ari[o].until <= meta.until
  BY <1>1, <1>2 DEF StoredIsNewer
<1>4. CASE o # p
  <2>1. ari'[o] = ari[o] /\ Running(o)' = Running(o)
    BY <1>4, RefreshCases, Zenon DEF Running
  <2>2. CASE UNCHANGED meta
    BY <1>2, <1>4, <2>1, <2>2, StoredUntouched, Zenon
  <2>3. CASE /\ now > ari[p].until /\ meta.until <= ari[p].until /\ meta'.until = now + RetryAfter
    <3>1. ari[o].until < now
      BY <1>1, <1>3, <2>3
    <3>2. LastCheck(o)' <= now
      BY <1>1, <1>4 DEF LastCheck
    <3>3. LastCheck(o)' \in Int
      BY <1>1, <1>4 DEF LastCheck
    <3>4. /\ ari'[o].until + RetryAfter < meta'.until
          /\ LastCheck(o)' + RetryAfter <= meta'.until
      BY <1>1, <2>1, <2>3, <3>1, <3>2, <3>3
    <3> QED
      BY <3>4, Zenon DEF StoredIsNewer
  <2> QED
    BY <2>2, <2>3, RefreshCases, Zenon
<1>5. CASE o = p
  <2>1. CASE ari'[p] = meta'
    BY <1>5, <2>1, Zenon DEF StoredIsNewer
  <2>2. CASE meta.until <= ari[p].until /\ UNCHANGED <<ari, meta>>
    <3>1. ari[p].until = meta.until
      BY <1>1, <1>3, <1>5, <2>2
    <3> QED
      BY <1>5, <2>2, <3>1, Zenon DEF StoredIsNewer
  <2>3. CASE now <= ari[p].until /\ UNCHANGED <<ari, meta>>
    <3>1. LastCheck(p)' \in Int /\ LastCheck(p)' <= now
      BY <1>1 DEF LastCheck
    <3>2. ari[p].until # meta.until => LastCheck(p)' + RetryAfter <= meta.until
      BY <1>1, <1>2, <2>3, <3>1 DEF StoredIsNewer
    <3> QED
      BY <1>2, <1>5, <2>3, <3>2, Zenon DEF StoredIsNewer
  <2> QED
    BY <2>1, <2>2, <2>3, RefreshCases, Zenon
<1> QED
  BY <1>4, <1>5, Zenon

\* Refreshed renewal info is sound.
LEMMA InfoRefreshed ==
  ASSUME SInv, "ari" \in setup, ARIInv, NEW p \in Instance, RefreshARI(p),
         UNCHANGED <<now, window, movedAt>>
  PROVE  Info(meta)' /\ \A o \in Instance : Info(ari[o])'
<1>1. Info(meta) /\ \A o \in Instance : Info(ari[o])
  BY Zenon DEF ARIInv, ARIKept
<1>3. now \in Nat /\ RetryAfter \in Nat
  BY ARINumbers, Zenon DEF SInv
<1>4. Info(meta)'
  <2>1. CASE UNCHANGED meta
    BY <1>1, <2>1, Zenon DEF Info
  <2>2. CASE /\ meta'.start = window /\ meta'.until = now + RetryAfter
             /\ meta'.time \in Selection(window)
    BY <1>3, <2>2 DEF Info
  <2> QED
    BY <2>1, <2>2, RefreshCases, Zenon
<1>5. ASSUME NEW o \in Instance PROVE Info(ari[o])'
  <2>1. CASE ari'[o] = ari[o]
    BY <1>1, <2>1, Zenon DEF Info
  <2>2. CASE ari'[o] = meta'
    BY <1>4, <2>2, Zenon DEF Info
  <2> QED
    BY <2>1, <2>2, RefreshCases, Zenon
<1> QED
  BY <1>4, <1>5, Zenon

\* A check that does not queue a renewal is more than a round before the end of
\* the window, if the instance knows it.
LEMMA NotMissedChecked ==
  ASSUME SInv, "ari" \in setup, ARIInv, NEW p \in Instance, RefreshARI(p),
         UNCHANGED <<now, window, movedAt>>,
         renewTimer'[p] \in Nat, renewTimer'[p] <= RenewCheckInterval,
         queued'[p] = 0 => \/ ~NeedsRenewal(ari'[p])
                           \/ ~NeedsRenewal(ari[p]) /\ ari[p].start = ari'[p].start
  PROVE  NotMissed(p)'
<1> SUFFICES ASSUME queued'[p] = 0, ari'[p].start = window
             PROVE  LastCheck(p)' + RenewCheckInterval <= window + WindowLength
  BY Zenon DEF NotMissed
<1>1. /\ now \in Nat /\ window \in Nat /\ RenewCheckInterval \in Nat /\ WindowLength \in Nat
      /\ ari[p] \in ARI /\ ari'[p] \in ARI
  BY ARINumbers, RefreshTypes, Zenon DEF SInv
<1>2. Info(ari[p])' /\ Info(ari[p])
  BY InfoRefreshed, Zenon DEF ARIInv, ARIKept
<1>3. /\ ari[p].time # Zero => ari[p].time \in Selection(ari[p].start)
      /\ ari'[p].time # Zero => ari'[p].time \in Selection(ari'[p].start)
  BY <1>2, Zenon DEF Info
<1>4. now + RenewCheckInterval <= window + WindowLength
  <2>1. CASE ~NeedsRenewal(ari'[p])
    BY <1>1, <1>3, <2>1, NotDue, Zenon DEF SInv
  <2>2. CASE ~NeedsRenewal(ari[p]) /\ ari[p].start = ari'[p].start
    BY <1>1, <1>3, <2>2, NotDue, Zenon DEF SInv
  <2> QED
    BY <2>1, <2>2, Zenon
<1> QED
  BY <1>1, <1>4 DEF LastCheck

\* A check after which an instance does not know the window was made before the
\* renewal info was to be refreshed, or the request failed.
LEMMA OutdatedChecked ==
  ASSUME SInv, "ari" \in setup, ARIInv, NEW p \in Instance, RefreshARI(p),
         RenewCheckInterval <= RetryAfter,
         pc[p] = "idle", renewTimer[p] = 0, renewTimer'[p] = RenewCheckInterval,
         UNCHANGED <<now, window, movedAt, since>>
  PROVE  Outdated(p)'
<1> SUFFICES ASSUME ari'[p].start # window
             PROVE  \/ LastCheck(p)' <= movedAt + RetryAfter + RenewTime(fails'[p].ari)
                    \/ LastCheck(p)' + RenewCheckInterval <= since[p] + RenewTime(fails'[p].ari)
  BY Zenon DEF Outdated, RenewTime
<1>1. /\ now \in Nat /\ movedAt \in Nat /\ since[p] \in Nat /\ fails[p].ari \in Nat
      /\ RenewCheckInterval \in Nat /\ RetryAfter \in Nat
      /\ meta.until \in Nat /\ ari[p].until \in Nat
  BY ARINumbers, InfoNumbers, Zenon DEF SInv
<1>2. PICK n \in Nat : n = fails[p].ari
  BY <1>1, Zenon
<1>3. RenewTime(n) \in Nat /\ RenewTime(n + 1) = RenewTime(n) + RenewCheckInterval
  BY RenewTimes, Zenon
<1>4. LastCheck(p) = now - RenewCheckInterval /\ LastCheck(p)' = now
  BY <1>1 DEF LastCheck
<1>5. Info(meta) /\ Info(ari[p]) /\ Outdated(p) /\ StoredIsNewer(p) /\ Checks(p) /\ Running(p)
  BY Zenon DEF ARIInv, ARIKept, Checks, Running, Starting
<1>6. CASE now <= ari[p].until /\ UNCHANGED <<ari, meta, fails>>
  <2>1. now <= movedAt + RetryAfter
    BY <1>1, <1>5, <1>6 DEF Info
  <2> QED
    BY <1>1, <1>2, <1>3, <1>4, <1>6, <2>1
<1>7. CASE meta.until > ari[p].until /\ ari'[p] = meta /\ UNCHANGED <<meta, fails>>
  <2>1. meta.until <= movedAt + RetryAfter
    BY <1>5, <1>7, Zenon DEF Info
  <2>2. now - RenewCheckInterval + RetryAfter <= meta.until
    BY <1>1, <1>4, <1>5, <1>7 DEF StoredIsNewer
  <2>3. now <= movedAt + RetryAfter
    BY <1>1, <2>1, <2>2
  <2> QED
    BY <1>1, <1>2, <1>3, <1>4, <1>7, <2>3
<1>8. CASE UNCHANGED ari /\ fails'[p].ari = fails[p].ari + 1
  <2>1. \/ now - RenewCheckInterval <= movedAt + RetryAfter + RenewTime(n)
        \/ now - RenewCheckInterval + RenewCheckInterval <= since[p] + RenewTime(n)
    BY <1>2, <1>4, <1>5, <1>8, Zenon DEF Outdated
  <2>2. \/ now <= movedAt + RetryAfter + RenewTime(n + 1)
        \/ now + RenewCheckInterval <= since[p] + RenewTime(n + 1)
    BY <1>1, <1>3, <2>1
  <2> QED
    BY <1>2, <1>4, <1>8, <2>2, Zenon
<1> QED
  BY <1>6, <1>7, <1>8, RefreshCases, Zenon

\* The same when an instance starts.
LEMMA OutdatedStarted ==
  ASSUME SInv, "ari" \in setup, ARIInv, NEW p \in Instance, RefreshARI(p),
         pc[p] = "manage", UNCHANGED <<now, window, movedAt, since, renewTimer>>
  PROVE  Outdated(p)'
<1> SUFFICES ASSUME ari'[p].start # window
             PROVE  \/ LastCheck(p)' <= movedAt + RetryAfter + RenewTime(fails'[p].ari)
                    \/ LastCheck(p)' + RenewCheckInterval <= since[p] + RenewTime(fails'[p].ari)
  BY Zenon DEF Outdated, RenewTime
<1>1. /\ now \in Nat /\ movedAt \in Nat /\ since[p] \in Nat /\ fails[p].ari \in Nat
      /\ RenewCheckInterval \in Nat /\ RetryAfter \in Nat
      /\ meta.until \in Nat /\ ari[p].until \in Nat
      /\ renewTimer[p] \in Nat /\ renewTimer[p] <= RenewCheckInterval
  BY ARINumbers, InfoNumbers, Zenon DEF SInv
<1>2. PICK n \in Nat : n = fails[p].ari
  BY <1>1, Zenon
<1>3. RenewTime(n) \in Nat /\ RenewTime(n + 1) = RenewTime(n) + RenewCheckInterval
  BY RenewTimes, Zenon
<1>4. PICK c \in Int : c = LastCheck(p) /\ c <= now /\ LastCheck(p)' = c
  BY <1>1 DEF LastCheck
<1>5. Info(meta) /\ Info(ari[p]) /\ AtOnce(p) /\ StoredIsNewer(p) /\ Running(p) /\ Starting(p)
  BY Zenon DEF ARIInv, ARIKept, Running, Starting
<1>6. CASE now <= ari[p].until /\ UNCHANGED <<ari, meta, fails>>
  <2>1. now <= movedAt + RetryAfter
    BY <1>1, <1>5, <1>6 DEF Info
  <2> QED
    BY <1>1, <1>2, <1>3, <1>4, <1>6, <2>1
<1>7. CASE meta.until > ari[p].until /\ ari'[p] = meta /\ UNCHANGED <<meta, fails>>
  <2>1. meta.until <= movedAt + RetryAfter
    BY <1>5, <1>7, Zenon DEF Info
  <2>2. c + RetryAfter <= meta.until
    BY <1>1, <1>4, <1>5, <1>7 DEF StoredIsNewer
  <2> QED
    BY <1>1, <1>2, <1>3, <1>4, <1>7, <2>1, <2>2
<1>8. CASE UNCHANGED ari /\ fails'[p].ari = fails[p].ari + 1
  <2>1. now = since[p]
    BY <1>5, Zenon DEF AtOnce
  <2>2. c + RenewCheckInterval <= since[p] + RenewTime(n + 1)
    BY <1>1, <1>3, <1>4, <2>1
  <2> QED
    BY <1>2, <1>4, <1>8, <2>2, Zenon
<1> QED
  BY <1>6, <1>7, <1>8, RefreshCases, Zenon

\* A step of an instance that looks for an OCSP response.
LEMMA ARIStapling ==
  ASSUME SInv, ARIInv, NEW p \in Instance,
         LoadStaple(p) \/ Ask(p) \/ AskFails(p) \/ StapleNotStored(p), NEW o \in Instance
  PROVE  ARIKept(o)' /\ StoredIsNewer(o)'
<1>1. /\ pc \in [Instance -> {"off", "idle", "load", "ask", "manage", "forced"}]
      /\ fails \in [Instance -> [ocsp : 0 .. MaxFailures, ari : 0 .. MaxFailures]]
      /\ ari[o] \in ARI /\ now \in Nat
  BY ARINumbers, Zenon DEF SInv, TypeOK
<1>2. ARIKept(o) /\ StoredIsNewer(o)
  BY Zenon DEF ARIInv
<1>3. /\ UNCHANGED <<now, window, movedAt, meta, why, since, renewTimer, ari, queued>>
      /\ pc[p] \in {"load", "ask"}
      /\ \E l \in {"ask", "forced", AfterStapling(p)} : pc' = [pc EXCEPT ![p] = l]
      /\ UNCHANGED fails \/ \E n : fails' = [fails EXCEPT ![p].ocsp = n]
  <2>1. CASE LoadStaple(p)
    BY <2>1, Zenon DEF LoadStaple, Goto, environment, timers, stored
  <2>2. CASE Ask(p)
    BY <2>2, Zenon DEF Ask, Goto, environment, timers
  <2>3. CASE AskFails(p)
    BY <2>3, Zenon DEF AskFails, Goto, environment, timers, stored
  <2>4. CASE StapleNotStored(p)
    BY <2>4, Zenon DEF StapleNotStored, Goto, environment, timers, stored
  <2> QED
    BY <2>1, <2>2, <2>3, <2>4, Zenon
<1>4. fails'[o].ari = fails[o].ari
  BY <1>1, <1>3
<1>5. CASE o # p
  <2>1. pc'[o] = pc[o]
    BY <1>1, <1>3, <1>5, Zenon
  <2> QED
    BY <1>1, <1>2, <1>3, <1>4, <2>1, ARIOthers, Zenon
<1>6. CASE o = p
  <2>1. pc'[p] \in {"ask", "forced", AfterStapling(p)}
    BY <1>1, <1>3, Zenon
  <2>2. AtOnce(p)'
    BY <1>2, <1>3, <1>6, <2>1, Zenon DEF ARIKept, AtOnce, Starting, AfterStapling
  <2>3. Running(p) /\ (Checks(p)' => Checks(p))
    BY <1>3, <2>1, Zenon DEF Checks, Running, Starting, AfterStapling
  <2> QED
    BY <1>1, <1>2, <1>3, <1>4, <1>6, <2>2, <2>3, ARIUntouched, StoredUntouched, Zenon
<1> QED
  BY <1>5, <1>6, Zenon

\* A check of the certificate.
LEMMA ARIChecked ==
  ASSUME SInv, SInv', "ari" \in setup, ARIInv, RenewCheckInterval <= RetryAfter,
         NEW p \in Instance, RenewManagedCertificates(p)
  PROVE  ARIInv'
<1>1. /\ pc[p] = "idle" /\ renewTimer[p] = 0 /\ RefreshARI(p)
      /\ renewTimer' = [renewTimer EXCEPT ![p] = RenewCheckInterval]
      /\ UNCHANGED <<now, window, movedAt, pc, why, since>>
  BY Zenon DEF RenewManagedCertificates, environment
<1>2. Queue(p, NeedsRenewal(ari[p]) \/ (ari[p].start # ari'[p].start /\ NeedsRenewal(ari'[p])))
  BY Zenon DEF RenewManagedCertificates
<1>3. /\ queued \in [Instance -> Nat] /\ renewTimer \in [Instance -> 0 .. RenewCheckInterval]
      /\ RenewCheckInterval \in Nat /\ now \in Nat
  BY ARINumbers, Zenon DEF SInv, TypeOK
<1>4. /\ renewTimer'[p] = RenewCheckInterval
      /\ \A o \in Instance : o # p => renewTimer'[o] = renewTimer[o] /\ queued'[o] = queued[o]
  BY <1>1, <1>2, <1>3, Zenon DEF Queue
<1>5. queued'[p] = 0 => \/ ~NeedsRenewal(ari'[p])
                        \/ ~NeedsRenewal(ari[p]) /\ ari[p].start = ari'[p].start
  BY <1>2, <1>3 DEF Queue
<1>6. Info(meta)' /\ \A o \in Instance : Info(ari[o])'
  BY <1>1, InfoRefreshed, Zenon
<1>7. \A o \in Instance : StoredIsNewer(o)'
  BY <1>1, <1>3, <1>4, StoredRefreshed
<1>8. NotMissed(p)' /\ Outdated(p)'
  BY <1>1, <1>3, <1>4, <1>5, NotMissedChecked, OutdatedChecked
<1>9. AtOnce(p)'
  BY <1>1, Zenon DEF AtOnce, Starting
<1>10. ASSUME NEW o \in Instance, o # p PROVE ARIKept(o)'
  <2>1. ari'[o] = ari[o] /\ fails'[o].ari = fails[o].ari
    BY <1>1, <1>10, RefreshCases, Zenon
  <2>2. ARIKept(o) /\ ari[o] \in ARI
    BY ARINumbers, Zenon DEF ARIInv, SInv
  <2> QED
    BY <1>1, <1>3, <1>4, <1>10, <2>1, <2>2, ARIOthers, Zenon
<1>11. (movedAt <= now)'
  BY <1>1, Zenon DEF ARIInv
<1> QED
  BY <1>6, <1>7, <1>8, <1>9, <1>10, <1>11, Zenon DEF ARIInv, ARIKept

\* The first look at the certificate.
LEMMA ARIManaged ==
  ASSUME SInv, SInv', "ari" \in setup, ARIInv, NEW p \in Instance, Manage(p)
  PROVE  ARIInv'
<1>1. /\ pc[p] = "manage" /\ RefreshARI(p) /\ Queue(p, NeedsRenewal(ari'[p]))
      /\ pc' = [pc EXCEPT ![p] = "idle"]
      /\ UNCHANGED <<now, window, movedAt, why, since, renewTimer>>
  BY Zenon DEF Manage, Goto, environment, timers
<1>2. /\ queued \in [Instance -> Nat] /\ now \in Nat
      /\ pc \in [Instance -> {"off", "idle", "load", "ask", "manage", "forced"}]
      /\ renewTimer[p] \in Nat /\ renewTimer[p] <= RenewCheckInterval
  BY ARINumbers, Zenon DEF SInv, TypeOK
<1>3. pc'[p] = "idle" /\ \A o \in Instance : o # p => pc'[o] = pc[o] /\ queued'[o] = queued[o]
  BY <1>1, <1>2, Zenon DEF Queue
<1>4. queued'[p] = 0 => ~NeedsRenewal(ari'[p])
  BY <1>1, <1>2 DEF Queue
<1>5. Info(meta)' /\ \A o \in Instance : Info(ari[o])'
  BY <1>1, InfoRefreshed, Zenon
<1>6. \A o \in Instance : StoredIsNewer(o)'
  BY <1>1, <1>2, <1>3, StoredRefreshed, Zenon
<1>7. NotMissed(p)' /\ Outdated(p)'
  BY <1>1, <1>2, <1>4, NotMissedChecked, OutdatedStarted, Zenon
<1>8. AtOnce(p)'
  BY <1>3, Zenon DEF AtOnce, Starting
<1>9. ASSUME NEW o \in Instance, o # p PROVE ARIKept(o)'
  <2>1. ari'[o] = ari[o] /\ fails'[o].ari = fails[o].ari
    BY <1>1, <1>9, RefreshCases, Zenon
  <2>2. ARIKept(o) /\ ari[o] \in ARI
    BY ARINumbers, Zenon DEF ARIInv, SInv
  <2> QED
    BY <1>1, <1>2, <1>3, <1>9, <2>1, <2>2, ARIOthers, Zenon
<1>10. (movedAt <= now)'
  BY <1>1, Zenon DEF ARIInv
<1> QED
  BY <1>5, <1>6, <1>7, <1>8, <1>9, <1>10, Zenon DEF ARIInv, ARIKept

\* The instance that starts takes the renewal info from storage.
LEMMA ARIStarts ==
  ASSUME SInv, ARIInv, NEW p \in Instance, Start(p)
  PROVE  ARIInv'
<1>1. /\ pc[p] = "off" /\ since' = [since EXCEPT ![p] = now] /\ ari' = [ari EXCEPT ![p] = meta]
      /\ pc' = [pc EXCEPT ![p] = IF "ocsp" \in setup THEN "load" ELSE "manage"]
      /\ UNCHANGED <<now, window, movedAt, meta, why, renewTimer, queued, fails>>
  BY Zenon DEF Start, Goto, environment, stored, timers
<1>2. /\ now \in Nat /\ ari \in [Instance -> ARI] /\ since \in [Instance -> Time]
      /\ pc \in [Instance -> {"off", "idle", "load", "ask", "manage", "forced"}]
  BY ARINumbers, Zenon DEF SInv, TypeOK
<1>3. /\ since'[p] = now /\ ari'[p] = meta /\ pc'[p] \in {"load", "manage"}
      /\ \A o \in Instance : o # p => pc'[o] = pc[o] /\ since'[o] = since[o] /\ ari'[o] = ari[o]
  BY <1>1, <1>2, Zenon
<1>4. Info(meta)' /\ (movedAt <= now)'
  BY <1>1, Zenon DEF ARIInv, Info
<1>5. ASSUME NEW o \in Instance, o # p PROVE ARIKept(o)' /\ StoredIsNewer(o)'
  <2>1. ARIKept(o) /\ StoredIsNewer(o) /\ ari[o] \in ARI
    BY <1>2, Zenon DEF ARIInv
  <2> QED
    BY <1>1, <1>2, <1>3, <1>5, <2>1, ARIOthers, Zenon
<1>6. StoredIsNewer(p)'
  BY <1>1, <1>3, Zenon DEF StoredIsNewer
<1>7. Info(ari[p])'
  BY <1>1, <1>3, <1>4, Zenon DEF Info
<1>8. why'[p] = "start"
  BY <1>1, Zenon DEF ARIInv, ARIKept, AtOnce
<1>9. AtOnce(p)' /\ ~Checks(p)'
  BY <1>1, <1>3, <1>8, Zenon DEF AtOnce, Checks, Starting
<1> QED
  BY <1>4, <1>5, <1>6, <1>7, <1>9, Zenon DEF ARIInv, ARIKept, NotMissed, Outdated

\* A check of the OCSP response does not concern the renewal info.
LEMMA ARIUpdateOCSP ==
  ASSUME SInv, ARIInv, NEW p \in Instance, UpdateOCSPStaples(p), NEW o \in Instance
  PROVE  ARIKept(o)' /\ StoredIsNewer(o)'
<1>1. /\ pc[p] = "idle" /\ why' = [why EXCEPT ![p] = "maintain"]
      /\ UNCHANGED <<now, window, movedAt, meta, since, renewTimer, ari, queued, fails>>
      /\ \E l \in {"idle", "load"} : pc' = [pc EXCEPT ![p] = l]
  BY Zenon DEF UpdateOCSPStaples, Goto, environment, stored
<1>2. /\ pc \in [Instance -> {"off", "idle", "load", "ask", "manage", "forced"}]
      /\ why \in [Instance -> {"start", "maintain"}] /\ ari[o] \in ARI /\ now \in Nat
  BY ARINumbers, Zenon DEF SInv, TypeOK
<1>3. ARIKept(o) /\ StoredIsNewer(o)
  BY Zenon DEF ARIInv
<1>4. CASE o # p
  <2>1. pc'[o] = pc[o] /\ why'[o] = why[o]
    BY <1>1, <1>2, <1>4, Zenon
  <2> QED
    BY <1>1, <1>2, <1>3, <2>1, ARIOthers, Zenon
<1>5. CASE o = p
  <2>1. pc'[p] \in {"idle", "load"} /\ why'[p] = "maintain"
    BY <1>1, <1>2, Zenon
  <2>2. AtOnce(p)' /\ Checks(p) /\ Running(p)
    BY <1>1, <2>1, Zenon DEF AtOnce, Starting, Checks, Running
  <2> QED
    BY <1>1, <1>2, <1>3, <1>5, <2>2, ARIUntouched, StoredUntouched, Zenon
<1> QED
  BY <1>4, <1>5, Zenon

\* Nobody knows a window that has just been moved.
LEMMA ARIMoved ==
  ASSUME SInv, ARIInv, MoveWindow
  PROVE  ARIInv'
<1>1. /\ movedAt = 0 /\ now > 0 /\ movedAt' = now /\ window' # window
      /\ UNCHANGED <<now, meta, pc, why, since, renewTimer, ari, queued, fails>>
  BY Zenon DEF MoveWindow, stored, timers
<1>2. now \in Nat /\ meta \in ARI /\ \A p \in Instance : ari[p] \in ARI
  BY ARINumbers, Zenon DEF SInv
<1>3. (movedAt <= now)' /\ Info(meta)'
  <2>1. Info(meta)
    BY Zenon DEF ARIInv
  <2>2. PICK i \in ARI : i = meta
    BY <1>2, Zenon
  <2>3. Info(i)'
    BY <2>1, <2>2, InfoMoved, Zenon
  <2> QED
    BY <1>1, <1>2, <2>2, <2>3 DEF Info
<1>4. ASSUME NEW p \in Instance PROVE ARIKept(p)' /\ StoredIsNewer(p)'
  <2>1. ARIKept(p) /\ StoredIsNewer(p)
    BY Zenon DEF ARIInv
  <2>2. PICK i \in ARI : i = ari[p]
    BY <1>2, Zenon
  <2>3. Info(i) /\ ari'[p] = i
    BY <1>1, <2>1, <2>2, Zenon DEF ARIKept
  <2>4. Info(i)'
    BY <2>3, InfoMoved, Zenon
  <2>5. Info(ari[p])'
    BY <2>3, <2>4, Zenon DEF Info
  <2>6. ari'[p].start # window'
    BY <1>1, <2>3 DEF Info
  <2>7. NotMissed(p)'
    BY <2>6, Zenon DEF NotMissed
  <2>8. Outdated(p)'
    <3>1. /\ renewTimer[p] \in Nat /\ renewTimer[p] <= RenewCheckInterval
          /\ RenewCheckInterval \in Nat /\ RetryAfter \in Nat /\ fails[p].ari \in Nat
      BY ARINumbers, Zenon DEF SInv
    <3>2. RenewTime(fails[p].ari) \in Nat
      BY <3>1, RenewTimes, Zenon
    <3>3. LastCheck(p)' <= movedAt' + RetryAfter + RenewTime(fails[p].ari)
      BY <1>1, <1>2, <3>1, <3>2 DEF LastCheck
    <3>4. RenewTime(fails[p].ari)' = RenewTime(fails[p].ari)
      BY <1>1, Zenon DEF RenewTime
    <3> QED
      BY <3>3, <3>4, Zenon DEF Outdated
  <2>9. AtOnce(p)'
    BY <1>1, <2>1, Zenon DEF ARIKept, AtOnce, Starting
  <2>10. StoredIsNewer(p)'
    BY <1>1, <2>1, StoredUntouched, Zenon DEF Running
  <2> QED
    BY <2>5, <2>7, <2>8, <2>9, <2>10, Zenon DEF ARIKept
<1> QED
  BY <1>3, <1>4, Zenon DEF ARIInv

\* When time passes the ticker does, too.
LEMMA ARIPass ==
  ASSUME SInv, SInv', ARIInv, Pass
  PROVE  ARIInv'
<1>1. /\ now' = now + 1 /\ UNCHANGED <<window, movedAt, meta, pc, why, since, ari, queued, fails>>
  BY Zenon DEF Pass, environment, stored
<1>2. now \in Nat /\ now' \in Nat /\ meta \in ARI /\ movedAt \in Nat
  BY <1>1, ARINumbers DEF SInv
<1>3. (movedAt <= now)' /\ Info(meta)'
  <2>1. PICK i \in ARI : i = meta
    BY <1>2, Zenon
  <2>2. Info(i)'
    BY <1>1, <1>2, <2>1, InfoStays DEF ARIInv
  <2> QED
    BY <1>1, <1>2, <2>1, <2>2 DEF Info, ARIInv
<1>4. ASSUME NEW p \in Instance PROVE ARIKept(p)' /\ StoredIsNewer(p)'
  <2>1. /\ Settled(p) /\ renewTimer'[p] = renewTimer[p] - IF pc[p] = "idle" THEN 1 ELSE 0
    BY Zenon DEF Pass
  <2>2. ARIKept(p) /\ StoredIsNewer(p) /\ ari[p] \in ARI /\ renewTimer[p] \in Nat
    BY ARINumbers, Zenon DEF ARIInv, SInv
  <2>3. RenewCheckInterval \in Nat
    BY Intervals, Zenon
  <2>4. /\ Running(p)' = Running(p) /\ Checks(p)' = Checks(p)
        /\ Running(p) => pc[p] = "idle"
    BY <1>1, <2>1, Zenon DEF Running, Checks, Starting, Settled
  <2>5. pc[p] = "idle" => LastCheck(p)' = LastCheck(p)
    BY <1>1, <1>2, <2>1, <2>2, <2>3 DEF LastCheck
  <2>6. Info(ari[p])'
    <3>1. PICK i \in ARI : i = ari[p]
      BY <2>2, Zenon
    <3>2. Info(i)'
      BY <1>1, <1>2, <2>2, <3>1, InfoStays DEF ARIKept
    <3> QED
      BY <1>1, <3>1, <3>2, Zenon DEF Info
  <2>7. AtOnce(p)'
    BY <1>1, <2>1, <2>2, Zenon DEF ARIKept, AtOnce, Starting, Settled
  <2>8. NotMissed(p)'
    BY <1>1, <2>2, <2>4, <2>5, Zenon DEF ARIKept, NotMissed, Checks
  <2>9. Outdated(p)'
    BY <1>1, <2>2, <2>4, <2>5, Zenon DEF ARIKept, Outdated, Checks, RenewTime
  <2>10. StoredIsNewer(p)'
    BY <1>1, <2>2, <2>4, <2>5, Zenon DEF StoredIsNewer
  <2> QED
    BY <2>6, <2>7, <2>8, <2>9, <2>10, Zenon DEF ARIKept
<1> QED
  BY <1>3, <1>4, Zenon DEF ARIInv

\* Every step keeps what the instances know of the renewal window.
LEMMA RInvStep ==
  ASSUME RenewCheckInterval <= RetryAfter, RInv, [Next]_vars
  PROVE  RInv'
<1>1. SInv /\ SInv'
  BY SInvStep, Zenon DEF RInv
<1>2. UNCHANGED setup
  BY Zenon DEF Next, vars, Start, LoadStaple, Ask, AskFails, StapleNotStored, Manage, UpdateOCSPStaples,
         RenewManagedCertificates, FindOldStaple, DeleteOldStaple, Revoke, MoveWindow, Pass,
         environment
<1> SUFFICES ASSUME "ari" \in setup, ARIInv PROVE ARIInv'
  BY <1>1, <1>2, Zenon DEF RInv
<1>3. ASSUME UNCHANGED <<now, window, movedAt, meta>>,
             \A o \in Instance : ARIKept(o)' /\ StoredIsNewer(o)'
      PROVE  ARIInv'
  BY <1>3, Zenon DEF ARIInv, Info
<1>4. ASSUME UNCHANGED <<now, window, movedAt, meta, pc, why, since, renewTimer, ari, queued, fails>>
      PROVE  ARIInv'
  <2>1. \A o \in Instance : ARIKept(o) /\ StoredIsNewer(o) /\ ari[o] \in ARI
    BY <1>1, ARINumbers, Zenon DEF ARIInv, SInv
  <2>2. now \in Nat
    BY <1>1, ARINumbers, Zenon DEF SInv
  <2>3. \A o \in Instance : ARIKept(o)' /\ StoredIsNewer(o)'
    BY <1>4, <2>1, <2>2, ARIOthers, Zenon
  <2> QED
    BY <1>3, <1>4, <2>3, Zenon
<1>5. ASSUME NEW p \in Instance, Start(p) PROVE ARIInv'
  BY <1>1, <1>5, ARIStarts, Zenon
<1>6. ASSUME NEW p \in Instance, LoadStaple(p) \/ Ask(p) \/ AskFails(p) \/ StapleNotStored(p)
      PROVE  ARIInv'
  <2>1. UNCHANGED <<now, window, movedAt, meta>>
    BY <1>6, Zenon DEF LoadStaple, Ask, AskFails, StapleNotStored, environment, stored
  <2> QED
    BY <1>1, <1>3, <1>6, <2>1, ARIStapling, Zenon
<1>7. ASSUME NEW p \in Instance, Manage(p) PROVE ARIInv'
  BY <1>1, <1>7, ARIManaged, Zenon
<1>8. ASSUME NEW p \in Instance, UpdateOCSPStaples(p) PROVE ARIInv'
  <2>1. UNCHANGED <<now, window, movedAt, meta>>
    BY <1>8, Zenon DEF UpdateOCSPStaples, environment, stored
  <2> QED
    BY <1>1, <1>3, <1>8, <2>1, ARIUpdateOCSP, Zenon
<1>9. ASSUME NEW p \in Instance, RenewManagedCertificates(p) PROVE ARIInv'
  BY <1>1, <1>9, ARIChecked, Zenon
<1>10. ASSUME FindOldStaple \/ DeleteOldStaple PROVE ARIInv'
  BY <1>4, <1>10, Zenon DEF FindOldStaple, DeleteOldStaple, environment, timers
<1>11. CASE Revoke
  BY <1>4, <1>11, Zenon DEF Revoke, stored, timers
<1>12. CASE MoveWindow
  BY <1>1, <1>12, ARIMoved, Zenon
<1>13. CASE Pass
  BY <1>1, <1>13, ARIPass, Zenon
<1>14. CASE UNCHANGED vars
  BY <1>4, <1>14, Zenon DEF vars
<1> QED
  BY <1>5, <1>6, <1>7, <1>8, <1>9, <1>10, <1>11, <1>12, <1>13, <1>14, Zenon DEF Next

\* What the instances know of the renewal window holds in every state, if
\* renewal info is good for a round of maintenance.
THEOREM RInvInvariant ==
  ASSUME RenewCheckInterval <= RetryAfter
  PROVE  Spec => []RInv
<1>1. Init /\ SInv => RInv
  <2> SUFFICES ASSUME Init, SInv, "ari" \in setup PROVE ARIInv
    BY Zenon DEF RInv
  <2>1. /\ now = 0 /\ movedAt = 0 /\ meta.start = window /\ meta.until = RetryAfter
        /\ meta.time # Zero => meta.time \in Selection(window)
        /\ \A p \in Instance : ari[p] = meta /\ pc[p] = "off" /\ why[p] = "start"
    BY Zenon DEF Init
  <2>2. RetryAfter \in Nat
    BY Constants, Zenon
  <2>3. Info(meta)
    BY <2>1, <2>2 DEF Info
  <2> QED
    BY <2>1, <2>3 DEF ARIInv, ARIKept, StoredIsNewer, AtOnce, NotMissed, Outdated, Checks, Running
<1>2. RInv /\ [Next]_vars => RInv'
  BY RInvStep, Zenon
<1> QED
  BY <1>1, <1>2, SInvInvariant, PTL DEF Spec

\* When the CA has moved the renewal window, every instance that runs has queued
\* a renewal by the end of it or as soon as it can have learned of it (updateARI,
\* RenewManagedCertificates), for every value of the constants with which the
\* renewal info is good for a round of maintenance.
THEOREM WindowsFollowed ==
  ASSUME RenewCheckInterval <= RetryAfter
  PROVE  Spec => []WindowFollowed
<1>1. RInv => WindowFollowed
  <2> SUFFICES ASSUME RInv, NEW p \in Instance, pc[p] = "idle", Settled(p), "ari" \in setup,
                      now >= Larger(window + WindowLength,
                                    Larger(since[p], movedAt + RetryAfter + RenewCheckInterval)
                                      + fails[p].ari * RenewCheckInterval),
                      ~(queued[p] > 0)
               PROVE  FALSE
    BY Zenon DEF WindowFollowed
  <2>1. /\ now \in Nat /\ window \in Nat /\ movedAt \in Nat /\ since[p] \in Nat
        /\ queued[p] \in Nat /\ renewTimer[p] \in Nat /\ fails[p].ari \in Nat
        /\ RenewCheckInterval \in Nat /\ RetryAfter \in Nat /\ WindowLength \in Nat
    BY ARINumbers, Zenon DEF RInv, SInv
  <2>2. renewTimer[p] >= 1 /\ queued[p] = 0
    BY <2>1 DEF Settled
  <2>3. Checks(p) /\ NotMissed(p) /\ Outdated(p)
    BY Zenon DEF RInv, ARIInv, ARIKept, Checks, Running, Starting
  <2>4. PICK f \in Nat : f = RenewTime(fails[p].ari)
    BY <2>1, RenewTimes, Zenon
  <2>5. now >= Larger(window + WindowLength,
                      Larger(since[p], movedAt + RetryAfter + RenewCheckInterval) + f)
    BY <2>4, Zenon DEF RenewTime
  <2>6. /\ now >= window + WindowLength /\ now >= since[p] + f
        /\ now >= movedAt + RetryAfter + RenewCheckInterval + f
    BY <2>1, <2>5 DEF Larger
  <2>7. PICK c \in Int : c = LastCheck(p) /\ c = now + renewTimer[p] - RenewCheckInterval
    BY <2>1 DEF LastCheck
  <2>8. CASE ari[p].start = window
    <3>1. c + RenewCheckInterval <= window + WindowLength
      BY <2>2, <2>3, <2>7, <2>8, Zenon DEF NotMissed
    <3> QED
      BY <2>1, <2>2, <2>6, <2>7, <3>1
  <2>9. CASE ari[p].start # window
    <3>1. c <= movedAt + RetryAfter + f \/ c + RenewCheckInterval <= since[p] + f
      BY <2>3, <2>4, <2>7, <2>9, Zenon DEF Outdated
    <3> QED
      BY <2>1, <2>2, <2>6, <2>7, <3>1
  <2> QED
    BY <2>8, <2>9, Zenon
<1> QED
  BY RInvInvariant, <1>1, PTL

\* The ways of being due come down to the selected time, the ratio and the five
\* intervals.
LEMMA DueBy ==
  ASSUME now \in Nat, NEW i, NeedsRenewal(i)
  PROVE  \/ now > i.time - RenewCheckInterval
         \/ CurrentlyInRenewalWindow(RatioDenominator) \/ CurrentlyInRenewalWindow(20)
         \/ Lifetime - now < 5 * RenewCheckInterval
<1>1. CASE CurrentlyInRenewalWindow(50)
  <2>1. Lifetime \in Nat /\ RenewCheckInterval \in Nat
    BY Intervals, Zenon
  <2>2. PICK d \in Int : d = Lifetime - now
    BY <2>1
  <2>3. d * 50 < Lifetime
    BY <1>1, <2>2, Zenon DEF CurrentlyInRenewalWindow
  <2>4. d * 20 < Lifetime \/ d < 0
    BY <2>1, <2>3
  <2>5. CurrentlyInRenewalWindow(20) \/ d < 0
    BY <2>2, <2>4, Zenon DEF CurrentlyInRenewalWindow
  <2> QED
    BY <2>1, <2>2, <2>5
<1> QED
  BY <1>1, Zenon DEF NeedsRenewal

\* An instance that has had the time to learn of a later window does not renew
\* before it (updateARI, certNeedsRenewal), unless the certificate is about to
\* expire or no time was ever selected, under the same assumption.
THEOREM WindowsAwaited ==
  ASSUME RenewCheckInterval <= RetryAfter
  PROVE  Spec => WindowAwaited
<1> DEFINE Awaited ==
      \A p \in Instance :
          /\ queued'[p] > queued[p] /\ "ari" \in setup
          /\ now > Larger(since[p], movedAt + RetryAfter + RenewCheckInterval)
                     + fails[p].ari * RenewCheckInterval
          => \/ now > window - RenewCheckInterval
             \/ ari[p].time = Zero
             \/ CurrentlyInRenewalWindow(RatioDenominator) \/ CurrentlyInRenewalWindow(20)
             \/ Lifetime - now < 5 * RenewCheckInterval
<1>1. RInv /\ [Next]_vars => [Awaited]_vars
  <2> SUFFICES ASSUME RInv, Next, NEW p \in Instance, queued'[p] > queued[p], "ari" \in setup,
                      now > Larger(since[p], movedAt + RetryAfter + RenewCheckInterval)
                              + fails[p].ari * RenewCheckInterval,
                      ari[p].time # Zero
               PROVE  \/ now > window - RenewCheckInterval
                      \/ CurrentlyInRenewalWindow(RatioDenominator) \/ CurrentlyInRenewalWindow(20)
                      \/ Lifetime - now < 5 * RenewCheckInterval
    BY Zenon
  <2>1. /\ now \in Nat /\ window \in Nat /\ movedAt \in Nat /\ since[p] \in Nat
        /\ queued[p] \in Nat /\ renewTimer[p] \in Nat /\ fails[p].ari \in Nat
        /\ RenewCheckInterval \in Nat /\ RetryAfter \in Nat /\ WindowLength \in Nat
        /\ ari[p] \in ARI /\ meta \in ARI
    BY ARINumbers, Zenon DEF RInv, SInv
  <2>2. queued \in [Instance -> Nat] /\ SInv /\ ARIInv
    BY Zenon DEF RInv, SInv, TypeOK
  <2>3. PICK f \in Nat : f = RenewTime(fails[p].ari)
    BY <2>1, RenewTimes, Zenon
  <2>4. now > Larger(since[p], movedAt + RetryAfter + RenewCheckInterval) + f
    BY <2>3, Zenon DEF RenewTime
  <2>5. now > since[p] + f /\ now > movedAt + RetryAfter + RenewCheckInterval + f
    BY <2>1, <2>4 DEF Larger
  <2>6. Manage(p) \/ RenewManagedCertificates(p)
    <3>1. ~(queued'[p] = queued[p])
      BY <2>1
    <3>2. \A o \in Instance : Manage(o) \/ RenewManagedCertificates(o) => o = p
      BY <2>2, <3>1, Zenon DEF Manage, RenewManagedCertificates, Queue
    <3> QED
      BY <3>1, <3>2, Zenon DEF Next, Start, LoadStaple, Ask, AskFails, StapleNotStored, UpdateOCSPStaples,
                        FindOldStaple, DeleteOldStaple, Revoke, MoveWindow, Pass
  <2>7. ~Manage(p)
    <3>1. pc[p] = "manage" => now = since[p]
      BY <2>2, Zenon DEF ARIInv, ARIKept, AtOnce, Starting
    <3> QED
      BY <2>1, <2>5, <3>1 DEF Manage
  <2>8. /\ pc[p] = "idle" /\ renewTimer[p] = 0 /\ RefreshARI(p)
        /\ Queue(p, NeedsRenewal(ari[p]) \/ (ari[p].start # ari'[p].start /\ NeedsRenewal(ari'[p])))
    BY <2>6, <2>7, Zenon DEF RenewManagedCertificates
  <2>9. Checks(p) /\ Running(p) /\ Outdated(p) /\ StoredIsNewer(p) /\ Info(ari[p]) /\ Info(meta)
    BY <2>2, <2>8, Zenon DEF ARIInv, ARIKept, Checks, Running, Starting
  <2>10. LastCheck(p) = now - RenewCheckInterval
    BY <2>1, <2>8 DEF LastCheck
  <2>11. ari[p].start = window
    <3> SUFFICES ASSUME ari[p].start # window PROVE FALSE
      BY Zenon
    <3>1. \/ now - RenewCheckInterval <= movedAt + RetryAfter + f
          \/ now - RenewCheckInterval + RenewCheckInterval <= since[p] + f
      BY <2>3, <2>9, <2>10, Zenon DEF Outdated
    <3> QED
      BY <2>1, <2>5, <3>1
  <2>12. ari'[p].start = window
    <3>1. CASE meta.until > ari[p].until /\ ari'[p] = meta
      <4> SUFFICES ASSUME meta.start # window PROVE FALSE
        BY <3>1, Zenon
      <4>1. meta.until <= movedAt + RetryAfter
        BY <2>9, Zenon DEF Info
      <4>2. meta.until \in Nat /\ ari[p].until \in Nat
        BY <2>1, InfoNumbers, Zenon
      <4>3. now - RenewCheckInterval + RetryAfter <= meta.until
        BY <2>9, <2>10, <3>1, <4>2 DEF StoredIsNewer
      <4> QED
        BY <2>1, <2>5, <4>1, <4>2, <4>3
    <3> QED
      BY <2>2, <2>8, <2>11, <3>1, RefreshCases, Zenon
  <2>13. NeedsRenewal(ari[p])
    BY <2>1, <2>2, <2>8, <2>11, <2>12 DEF Queue
  <2>14. ari[p].time \in Int /\ ari[p].time >= window
    BY <2>1, <2>9, <2>11, InfoNumbers DEF Info, Selection
  <2>15. now > ari[p].time - RenewCheckInterval => now > window - RenewCheckInterval
    BY <2>1, <2>14
  <2> QED
    BY <2>1, <2>13, <2>15, DueBy, Zenon
<1> QED
  BY RInvInvariant, <1>1, PTL DEF Spec, WindowAwaited
=============================================================================
