-------------------------- MODULE ChallengesProof --------------------------
(***************************************************************************)
(* Proofs about Challenges, for any set of instances, any plan of attempts *)
(* and any faults: who is counted at a port and when its server runs, that *)
(* every trace of an attempt is removed, that no draft is left at ZeroSSL, *)
(* and that a validation request is answered with its own key              *)
(* authorization.                                                          *)
(*                                                                         *)
(* All of them come down to who owns what is there: a challenge in memory, *)
(* a token in storage, a record or a count belongs to an attempt that is   *)
(* still at a place where it will remove it.                               *)
(***************************************************************************)
EXTENDS Challenges, FiniteSetTheorems, TLAPS

-----------------------------------------------------------------------------
(* The inductive invariant *)

\* The types, without the bounds on the counts.
PlacesOK ==
    /\ pc \in [Attempt -> {"new", "store", "cert", "listen", "record", "presented",
                           "unwrap", "delete", "close", "unrecord", "returns", "over"}]
    /\ on \in [Attempt -> Instance \cup {NoInstance}]
ActiveOK ==
    active \in [Instance -> [Identifier -> [chal : Attempt \cup {0}, data : Attempt \cup {0}]]]
TokenOK == token \in [Issuer -> [Identifier -> Attempt \cup {0}]]
PortsOK ==
    /\ count \in [Instance -> [Port -> Int]]
    /\ server \in [Instance -> [Port -> Kind \cup {"none"}]]
RecordsOK ==
    /\ records \subseteq Attempt /\ zone \subseteq Attempt
    /\ order \in [Attempt -> {"none", "draft", "issued", "cancelled"}] /\ err \subseteq Attempt
    /\ faults \subseteq FaultKind

Types == PlacesOK /\ ActiveOK /\ TokenOK /\ PortsOK /\ RecordsOK

\* Between solverWrapper.Present and its CleanUp.
Remembers(s) ==
    Acme(s) /\ pc[s] \in {"store", "cert", "listen", "record", "presented", "unwrap"}

\* Between distributedSolver.Present and its CleanUp.
HasToken(s) == ~UsesDNS(s) /\ pc[s] \in {"cert", "listen", "presented", "unwrap", "delete"}

\* The places fit the kind of challenge, and attempts in progress are on an
\* instance.
Placed ==
    \A s \in Attempt :
        /\ InProgress(s) <=> on[s] \in Instance
        /\ pc[s] \in {"store", "cert", "listen", "delete", "close"} => ~UsesDNS(s)
        /\ pc[s] \in {"record", "unrecord"} => UsesDNS(s)
        /\ pc[s] = "cert" => Info[s].kind = "tls"
        /\ pc[s] = "unwrap" => Acme(s)
        /\ pc[s] = "returns" => ~Acme(s)

\* The lock of the certificate's name.
OneForName ==
    \A s, t \in Attempt :
        (InProgress(s) /\ InProgress(t) /\ Info[s].name = Info[t].name) => s = t

\* What is in memory belongs to an attempt that has not cleaned up.
Owned(p, d, s) ==
    s # 0 => Remembers(s) /\ on[s] = p /\ Info[s].identifier = d

ActiveOwned ==
    \A p \in Instance, d \in Identifier :
        /\ Owned(p, d, active[p][d].chal)
        /\ Owned(p, d, active[p][d].data)
        /\ active[p][d].data # 0 => Info[active[p][d].data].kind = "tls"

\* What is in storage belongs to an attempt that has not cleaned up, unless
\* there was a crash or the clean-up was not called or failed.
TokenOwned ==
    faults \cap {"crash", "delete"} = {} =>
        \A i \in Issuer, d \in Identifier : token[i][d] # 0 =>
            /\ Info[token[i][d]].issuer = i /\ Info[token[i][d]].identifier = d
            /\ ~UsesDNS(token[i][d])
            /\ HasToken(token[i][d]) \/ (i = 0 /\ "zerosslListen" \in faults)

\* The records are remembered until they are deleted.
RecordsOwned ==
    /\ \A s \in records : UsesDNS(s) /\ pc[s] \in {"presented", "unwrap", "unrecord"}
    /\ faults \cap {"crash", "dns", "cname"} = {} => zone \subseteq records

\* A draft at ZeroSSL is still to be verified, or there is an error for which
\* it will be cancelled.
DraftOwned ==
    \A s \in Attempt :
        /\ order[s] = "draft" => ~Acme(s)
        /\ (order[s] = "draft" /\ faults \cap {"crash", "cname", "status", "cancel"} = {}) =>
              /\ pc[s] # "over"
              /\ pc[s] \in {"delete", "close", "unrecord", "returns"} => s \in err

\* The attempts counted at a port are at least its users, and exactly they if
\* nothing went wrong that upsets the count.
Counted ==
    \A p \in Instance, port \in Port :
        /\ "store" \notin faults => count[p][port] >= Cardinality(Users(p, port))
        /\ faults \cap {"store", "delete", "zerosslListen"} = {} =>
              /\ count[p][port] = Cardinality(Users(p, port))
              /\ Users(p, port) = {} => server[p][port] = "none"

Served ==
    "store" \notin faults =>
        \A s \in Attempt : Presented(s) =>
            on[s] \in AppServer \/ server[on[s]][PortOf(s)] # "none"

\* The attempts that have passed Listen, and those that have cleaned up.
Arrived(port) ==
    {s \in Attempt : /\ ~UsesDNS(s) /\ PortOf(s) = port
                     /\ pc[s] \notin {"new", "store", "cert", "listen"}}
Departed(port) ==
    {s \in Attempt : /\ ~UsesDNS(s) /\ PortOf(s) = port
                     /\ pc[s] \in {"returns", "over"}}

CountBounded ==
    \A p \in Instance, port \in Port :
        /\ count[p][port] <= Cardinality(Arrived(port))
        /\ count[p][port] >= - Cardinality(Departed(port))

\* Names that share an identifier are a name and its wildcard, for which the
\* challenge is a DNS record.
WildcardsUseDNS ==
    \A s, t \in Attempt :
        (Info[s].identifier = Info[t].identifier /\ Info[s].name # Info[t].name) =>
            UsesDNS(s) \/ UsesDNS(t)

\* The token of an attempt is in storage while it is presented.
TokenKept ==
    WildcardsUseDNS =>
        \A s \in Attempt : (~UsesDNS(s) /\ pc[s] \in {"cert", "listen", "presented"}) =>
            token[Info[s].issuer][Info[s].identifier] = s

IInv ==
    /\ Types /\ Placed /\ OneForName /\ ActiveOwned /\ TokenOwned /\ RecordsOwned /\ DraftOwned
    /\ Counted /\ Served /\ CountBounded /\ TokenKept

-----------------------------------------------------------------------------
(* The plan *)

\* What the plan says of an attempt.
LEMMA PlanFacts ==
    /\ IsFiniteSet(Attempt) /\ 0 \notin Attempt
    /\ \A s \in Attempt :
          /\ Info[s].kind \in Kind /\ Info[s].issuer \in Issuer /\ Info[s].identifier \in Identifier
          /\ PortOf(s) \in Port
          /\ Acme(s) <=> Info[s].kind \notin {"zerossl", "cname"}
          /\ Acme(s) <=> Info[s].issuer # 0
          /\ UsesDNS(s) <=> Info[s].kind \in {"dns", "cname"}
  <1>1. Plan \in Seq([name : STRING, identifier : STRING, kind : Kind, issuer : Issuer])
    BY PlanAssumption, Zenon
  <1>2. Len(Plan) \in Nat /\ Attempt = 1 .. Len(Plan)
    BY <1>1 DEF Attempt, Info
  <1>3. IsFiniteSet(Attempt) /\ 0 \notin Attempt
    BY <1>2, FS_Interval
  <1>4. ASSUME NEW s \in Attempt
        PROVE  /\ Info[s].kind \in Kind /\ Info[s].issuer \in Issuer
               /\ Info[s].identifier \in Identifier
    <2>1. Plan[s] \in [name : STRING, identifier : STRING, kind : Kind, issuer : Issuer]
      <3> DEFINE R == [name : STRING, identifier : STRING, kind : Kind, issuer : Issuer]
      <3> SUFFICES Plan[s] \in R
        BY Zenon
      <3>1. Plan \in Seq(R) /\ s \in 1 .. Len(Plan)
        BY <1>1, <1>2, Zenon
      <3> HIDE DEF R
      <3> QED BY <3>1
    <2> QED BY <2>1, Zenon DEF Info, Identifier
  <1>5. ASSUME NEW s \in Attempt
        PROVE  /\ PortOf(s) \in Port
               /\ Acme(s) <=> Info[s].kind \notin {"zerossl", "cname"}
               /\ Acme(s) <=> Info[s].issuer # 0
               /\ UsesDNS(s) <=> Info[s].kind \in {"dns", "cname"}
    BY PlanAssumption, Zenon DEF PortOf, Port, Acme, UsesDNS, Info
  <1> QED BY <1>3, <1>4, <1>5, Zenon

\* Sets of attempts are finite.
LEMMA AttemptsFinite ==
    ASSUME NEW S \in SUBSET Attempt
    PROVE  IsFiniteSet(S) /\ Cardinality(S) \in Nat
  BY PlanFacts, FS_Subset, FS_CardinalityType, Zenon

\* One attempt more ...
LEMMA AddAttempt ==
    ASSUME NEW S \in SUBSET Attempt, NEW s \in Attempt, s \notin S
    PROVE  Cardinality(S \cup {s}) = Cardinality(S) + 1
  BY AttemptsFinite, FS_AddElement, Zenon

\* ... one less ...
LEMMA RemoveAttempt ==
    ASSUME NEW S \in SUBSET Attempt, NEW s \in Attempt, s \in S
    PROVE  Cardinality(S \ {s}) = Cardinality(S) - 1
  BY AttemptsFinite, FS_RemoveElement, Zenon

\* ... more of them ...
LEMMA MoreAttempts ==
    ASSUME NEW S \in SUBSET Attempt, NEW T \in SUBSET Attempt, S \subseteq T
    PROVE  Cardinality(S) <= Cardinality(T)
  BY AttemptsFinite, FS_Subset, Zenon

\* ... and none.
LEMMA NoAttempts == Cardinality({}) = 0
  BY FS_EmptySet, Zenon

-----------------------------------------------------------------------------
(* Steps *)

\* A step of attempt s after it has started.
StepOf(s) ==
    \/ StoreToken(s) \/ StoreTokenFails(s) \/ GenerateCert(s)
    \/ Listen(s) \/ ListenFails(s) \/ CreateRecord(s) \/ CreateRecordFails(s)
    \/ Finish(s) \/ Verify(s) \/ Cancel(s) \/ Unwrap(s) \/ DeleteToken(s) \/ DeleteTokenFails(s)
    \/ CloseServer(s) \/ DeleteRecord(s) \/ DeleteRecordFails(s)

\* A step is the start of an attempt, one of its steps, or a crash.
LEMMA NextCases ==
    [Next]_vars =>
        \/ \E s \in Attempt, p \in Instance : Begin(s, p) \/ CreateCertificate(s, p)
        \/ \E s \in Attempt : StepOf(s)
        \/ \E p \in Instance : Crash(p)
        \/ UNCHANGED vars
  BY Zenon DEF Next, StepOf, Done

\* A step of an attempt moves it, and takes it off its instance at the end.
LEMMA GotoEffect ==
    ASSUME PlacesOK, NEW s \in Attempt, NEW from, NEW to, Goto(s, from, to)
    PROVE  /\ pc[s] = from /\ pc'[s] = to
           /\ on'[s] = IF to = "over" THEN NoInstance ELSE on[s]
           /\ \A t \in Attempt : t # s => pc'[t] = pc[t] /\ on'[t] = on[t]
  BY Zenon DEF Goto, PlacesOK

\* The start of an attempt puts it on an instance.
LEMMA StartEffect ==
    ASSUME PlacesOK, NEW s \in Attempt, NEW p \in Instance, Start(s, p)
    PROVE  /\ pc[s] = "new" /\ Free(s)
           /\ pc'[s] = IF UsesDNS(s) THEN "record" ELSE "store"
           /\ on'[s] = p
           /\ \A t \in Attempt : t # s => pc'[t] = pc[t] /\ on'[t] = on[t]
  BY Zenon DEF Start, PlacesOK

\* From where to where.
LEMMA StepPlaces ==
    ASSUME NEW s \in Attempt
    PROVE  /\ StoreToken(s) => Goto(s, "store", IF Info[s].kind = "tls" THEN "cert" ELSE "listen")
           /\ StoreTokenFails(s) => Goto(s, "store", AfterFailure(s))
           /\ GenerateCert(s) => Goto(s, "cert", "listen")
           /\ Listen(s) => Goto(s, "listen", "presented")
           /\ ListenFails(s) => Goto(s, "listen", AfterFailure(s))
           /\ CreateRecord(s) => Goto(s, "record", "presented")
           /\ CreateRecordFails(s) => Goto(s, "record", AfterFailure(s))
           /\ Finish(s) => Goto(s, "presented", "unwrap") /\ Acme(s)
           /\ Verify(s) => Goto(s, "presented", IF UsesDNS(s) THEN "unrecord" ELSE "delete") /\ ~Acme(s)
           /\ Cancel(s) => Goto(s, "returns", "over")
           /\ Unwrap(s) => Goto(s, "unwrap", IF UsesDNS(s) THEN "unrecord" ELSE "delete")
           /\ DeleteToken(s) => Goto(s, "delete", "close")
           /\ DeleteTokenFails(s) => Goto(s, "delete", AfterCleanUp(s))
           /\ CloseServer(s) => Goto(s, "close", AfterCleanUp(s))
           /\ DeleteRecord(s) => Goto(s, "unrecord", AfterCleanUp(s))
           /\ DeleteRecordFails(s) => Goto(s, "unrecord", AfterCleanUp(s))
  BY Zenon DEF StoreToken, StoreTokenFails, GenerateCert, Listen, ListenFails, CreateRecord,
         CreateRecordFails, Finish, Verify, Cancel, Unwrap, DeleteToken, DeleteTokenFails,
         CloseServer, DeleteRecord, DeleteRecordFails

\* Every step of an attempt moves it from one place to another.
LEMMA StepGoes ==
    ASSUME NEW s \in Attempt, StepOf(s)
    PROVE  \E from \in {"store", "cert", "listen", "record", "presented", "unwrap", "delete", "close",
                        "unrecord", "returns"},
              to \in {"cert", "listen", "presented", "unwrap", "delete", "close", "unrecord",
                      "returns", "over"} : Goto(s, from, to)
  BY StepPlaces, Zenon DEF StepOf, AfterFailure, AfterCleanUp

\* What a killed instance leaves.
LEMMA CrashEffect ==
    ASSUME PlacesOK, NEW p \in Instance, Crash(p), NEW s \in Attempt
    PROVE  IF on[s] = p /\ InProgress(s) THEN pc'[s] = "over" /\ on'[s] = NoInstance
                                         ELSE pc'[s] = pc[s] /\ on'[s] = on[s]
  BY Zenon DEF Crash, PlacesOK

\* Faults are not forgotten.
LEMMA FaultsGrow ==
    ASSUME [Next]_vars
    PROVE  faults \subseteq faults'
  <1>1. ASSUME NEW s \in Attempt, StepOf(s) PROVE faults \subseteq faults'
    BY <1>1, Zenon DEF StepOf, StoreToken, StoreTokenFails, GenerateCert, Listen, ListenFails, CreateRecord,
         CreateRecordFails, Finish, Verify, Cancel, Unwrap, DeleteToken, DeleteTokenFails,
         CloseServer, DeleteRecord, DeleteRecordFails, Fault
  <1>2. ASSUME NEW s \in Attempt, NEW p \in Instance, Begin(s, p) \/ CreateCertificate(s, p)
        PROVE  faults \subseteq faults'
    BY <1>2, Zenon DEF Begin, CreateCertificate
  <1>3. ASSUME NEW p \in Instance, Crash(p) PROVE faults \subseteq faults'
    BY <1>3, Zenon DEF Crash, Fault
  <1> QED BY <1>1, <1>2, <1>3, NextCases, Zenon DEF vars

-----------------------------------------------------------------------------
(* Types and places *)

\* The kinds of fault are the known ones.
LEMMA FaultTypes ==
    ASSUME faults \subseteq FaultKind, [Next]_vars
    PROVE  faults' \subseteq FaultKind
  <1>1. ASSUME NEW s \in Attempt, StepOf(s) PROVE faults' \subseteq FaultKind
    BY <1>1 DEF StepOf, StoreToken, StoreTokenFails, GenerateCert, Listen, ListenFails, CreateRecord,
         CreateRecordFails, Finish, Verify, Cancel, Unwrap, DeleteToken, DeleteTokenFails,
         CloseServer, DeleteRecord, DeleteRecordFails, Fault
  <1>2. ASSUME NEW s \in Attempt, NEW p \in Instance, Begin(s, p) \/ CreateCertificate(s, p)
        PROVE  faults' \subseteq FaultKind
    BY <1>2, Zenon DEF Begin, CreateCertificate
  <1>3. ASSUME NEW p \in Instance, Crash(p) PROVE faults' \subseteq FaultKind
    BY <1>3, Zenon DEF Crash, Fault
  <1> QED BY <1>1, <1>2, <1>3, NextCases, Zenon DEF vars

\* Every step leaves the attempts at known places ...
LEMMA PlacesStep ==
    ASSUME PlacesOK, [Next]_vars
    PROVE  PlacesOK'
  <1>1. ASSUME NEW s \in Attempt, StepOf(s) PROVE PlacesOK'
    BY <1>1, StepGoes DEF Goto, PlacesOK
  <1>2. ASSUME NEW s \in Attempt, NEW p \in Instance, Begin(s, p) \/ CreateCertificate(s, p)
        PROVE  PlacesOK'
    BY <1>2 DEF Begin, CreateCertificate, Start, PlacesOK
  <1>3. ASSUME NEW p \in Instance, Crash(p) PROVE PlacesOK'
    BY <1>3, Zenon DEF Crash, PlacesOK
  <1> QED BY <1>1, <1>2, <1>3, NextCases, Zenon DEF vars, PlacesOK

\* ... the memory of challenges to attempts ...
LEMMA ActiveStep ==
    ASSUME Types, Placed, [Next]_vars
    PROVE  ActiveOK'
  <1> USE DEF Types
  <1> DEFINE C == [chal : Attempt \cup {0}, data : Attempt \cup {0}]
  <1>0. NoChallenge \in C
    BY Zenon DEF NoChallenge
  <1>1. ASSUME NEW s \in Attempt, NEW p \in Instance, Begin(s, p) PROVE ActiveOK'
    <2>1. [chal |-> s, data |-> 0] \in C
      BY Zenon
    <2>2. active' = [active EXCEPT ![p][Info[s].identifier] = [chal |-> s, data |-> 0]]
      BY <1>1, Zenon DEF Begin
    <2> HIDE DEF C
    <2> QED BY <2>1, <2>2, PlanFacts, Zenon DEF ActiveOK, C
  <1>2. ASSUME NEW s \in Attempt, GenerateCert(s) PROVE ActiveOK'
    <2>1. on[s] \in Instance
      BY <1>2, StepPlaces, GotoEffect DEF Placed, InProgress
    <2>2. active[on[s]][Info[s].identifier] \in C
      BY <2>1, PlanFacts, Zenon DEF ActiveOK
    <2>3. [active[on[s]][Info[s].identifier] EXCEPT !.data = s] \in C
      BY <2>2, Zenon
    <2>4. active' = [active EXCEPT ![on[s]][Info[s].identifier] =
                                        [active[on[s]][Info[s].identifier] EXCEPT !.data = s]]
      BY <1>2, <2>1, PlanFacts, Zenon DEF GenerateCert, ActiveOK
    <2> HIDE DEF C
    <2> QED BY <2>1, <2>3, <2>4, PlanFacts, Zenon DEF ActiveOK, C
  <1>3. ASSUME NEW s \in Attempt, Unwrap(s) PROVE ActiveOK'
    <2>1. active' = [active EXCEPT ![on[s]][Info[s].identifier] = NoChallenge]
      BY <1>3, Zenon DEF Unwrap
    <2> HIDE DEF C
    <2> QED BY <1>0, <2>1, PlanFacts, Zenon DEF ActiveOK, C
  <1>4. ASSUME NEW p \in Instance, Crash(p) PROVE ActiveOK'
    <2>1. active' = [active EXCEPT ![p] = [d \in Identifier |-> NoChallenge]]
      BY <1>4, Zenon DEF Crash
    <2> HIDE DEF C
    <2> QED BY <1>0, <2>1, Zenon DEF ActiveOK, C
  <1>5. ASSUME NEW s \in Attempt, StepOf(s), ~GenerateCert(s), ~Unwrap(s) PROVE active' = active
    BY <1>5, Zenon DEF StepOf, StoreToken, StoreTokenFails, Listen, ListenFails, CreateRecord,
         CreateRecordFails, Finish, Verify, Cancel, DeleteToken, DeleteTokenFails,
         CloseServer, DeleteRecord, DeleteRecordFails
  <1>6. ASSUME NEW s \in Attempt, NEW p \in Instance, CreateCertificate(s, p) PROVE active' = active
    BY <1>6, Zenon DEF CreateCertificate
  <1> QED BY <1>1, <1>2, <1>3, <1>4, <1>5, <1>6, NextCases DEF vars, ActiveOK

\* ... the tokens in storage to attempts ...
LEMMA TokenStep ==
    ASSUME TokenOK, [Next]_vars
    PROVE  TokenOK'
  <1>1. ASSUME NEW s \in Attempt, StoreToken(s) \/ DeleteToken(s) PROVE TokenOK'
    <2>1. Info[s].issuer \in Issuer /\ Info[s].identifier \in Identifier
      BY PlanFacts, Zenon
    <2> QED BY <1>1, <2>1 DEF StoreToken, DeleteToken, TokenOK
  <1>2. ASSUME NEW s \in Attempt, StepOf(s), ~StoreToken(s), ~DeleteToken(s) PROVE token' = token
    BY <1>2, Zenon DEF StepOf, StoreTokenFails, GenerateCert, Listen, ListenFails, CreateRecord,
         CreateRecordFails, Finish, Verify, Cancel, Unwrap, DeleteTokenFails,
         CloseServer, DeleteRecord, DeleteRecordFails
  <1>3. ASSUME NEW s \in Attempt, NEW p \in Instance, Begin(s, p) \/ CreateCertificate(s, p)
        PROVE  token' = token
    BY <1>3, Zenon DEF Begin, CreateCertificate
  <1>4. ASSUME NEW p \in Instance, Crash(p) PROVE token' = token
    BY <1>4, Zenon DEF Crash
  <1> QED BY <1>1, <1>2, <1>3, <1>4, NextCases, Zenon DEF vars, TokenOK

\* What happens to the count and the server of a port.
LEMMA ListenEffect ==
    ASSUME PortsOK, NEW s \in Attempt, on[s] \in Instance, Listen(s) \/ ListenFails(s)
    PROVE  /\ PortsOK'
           /\ count'[on[s]][PortOf(s)] = count[on[s]][PortOf(s)] + 1
           /\ \A p \in Instance, port \in Port :
                 (p # on[s] \/ port # PortOf(s)) =>
                    count'[p][port] = count[p][port] /\ server'[p][port] = server[p][port]
           /\ Listen(s) => on[s] \in AppServer \/ server'[on[s]][PortOf(s)] # "none"
           /\ \A p \in Instance, port \in Port :
                 server[p][port] # "none" => server'[p][port] # "none"
  <1> DEFINE p == on[s]
             o == PortOf(s)
  <1>1. p \in Instance /\ o \in Port /\ Info[s].kind \in Kind
    BY PlanFacts, Zenon
  <1>2. count' = [count EXCEPT ![p][o] = @ + 1]
    BY Zenon DEF Listen, ListenFails
  <1>3. \/ server' = server
        \/ server[p][o] = "none" /\ server' = [server EXCEPT ![p][o] = Info[s].kind]
    BY Zenon DEF Listen, ListenFails
  <1>4. "none" \notin Kind
    BY Zenon DEF Kind
  <1>5. Listen(s) => p \in AppServer \/ server'[p][o] # "none"
    <2>1. CASE server[p][o] = "none" /\ ~TakenByOthers(p)
      BY <1>1, <1>4, <2>1 DEF Listen, PortsOK
    <2>2. CASE ~(server[p][o] = "none" /\ ~TakenByOthers(p))
      BY <2>2, Zenon DEF Listen, TakenByOthers
    <2> QED BY <2>1, <2>2, Zenon
  <1> HIDE DEF p, o
  <1>6. PortsOK'
    <2>1. count' \in [Instance -> [Port -> Int]]
      BY <1>1, <1>2 DEF PortsOK
    <2>2. server' \in [Instance -> [Port -> Kind \cup {"none"}]]
      <3> DEFINE K == Kind \cup {"none"}
                 k == Info[s].kind
      <3>1. k \in K
        BY <1>1, Zenon
      <3>2. server \in [Instance -> [Port -> K]]
        BY Zenon DEF PortsOK
      <3>3. server' = server \/ server' = [server EXCEPT ![p][o] = k]
        BY <1>3, Zenon
      <3> HIDE DEF K, k
      <3>4. server' \in [Instance -> [Port -> K]]
        BY <1>1, <3>1, <3>2, <3>3
      <3> QED BY <3>4, Zenon DEF K
    <2> QED BY <2>1, <2>2, Zenon DEF PortsOK
  <1>7. count'[p][o] = count[p][o] + 1
    BY <1>1, <1>2, Zenon DEF PortsOK
  <1>8. \A q \in Instance, port \in Port :
           (q # p \/ port # o) =>
              count'[q][port] = count[q][port] /\ server'[q][port] = server[q][port]
    BY <1>1, <1>2, <1>3 DEF PortsOK
  <1>9. \A q \in Instance, port \in Port : server[q][port] # "none" => server'[q][port] # "none"
    BY <1>1, <1>3, <1>4 DEF PortsOK
  <1> QED BY <1>5, <1>6, <1>7, <1>8, <1>9, Zenon DEF p, o

\* Closing the server counts one user less, and stops it after the last.
LEMMA CloseEffect ==
    ASSUME PortsOK, NEW s \in Attempt, on[s] \in Instance, CloseServer(s)
    PROVE  /\ PortsOK'
           /\ count'[on[s]][PortOf(s)] = count[on[s]][PortOf(s)] - 1
           /\ server'[on[s]][PortOf(s)] = IF count'[on[s]][PortOf(s)] = 0 THEN "none"
                                          ELSE server[on[s]][PortOf(s)]
           /\ \A p \in Instance, port \in Port :
                 (p # on[s] \/ port # PortOf(s)) =>
                    count'[p][port] = count[p][port] /\ server'[p][port] = server[p][port]
  <1> DEFINE p == on[s]
             o == PortOf(s)
  <1>1. p \in Instance /\ o \in Port
    BY PlanFacts, Zenon
  <1>2. /\ count' = [count EXCEPT ![p][o] = @ - 1]
        /\ server' = [server EXCEPT ![p][o] = IF count'[p][o] = 0 THEN "none" ELSE @]
    BY Zenon DEF CloseServer
  <1> HIDE DEF p, o
  <1>3. PortsOK'
    BY <1>1, <1>2 DEF PortsOK
  <1>4. count'[p][o] = count[p][o] - 1
    BY <1>1, <1>2, Zenon DEF PortsOK
  <1>5. server'[p][o] = IF count'[p][o] = 0 THEN "none" ELSE server[p][o]
    BY <1>1, <1>2, Zenon DEF PortsOK
  <1>6. \A q \in Instance, port \in Port :
           (q # p \/ port # o) =>
              count'[q][port] = count[q][port] /\ server'[q][port] = server[q][port]
    BY <1>1, <1>2, Zenon DEF PortsOK
  <1> QED BY <1>3, <1>4, <1>5, <1>6, Zenon DEF p, o

\* The other steps of an attempt do not touch them.
LEMMA PortsSame ==
    ASSUME NEW s \in Attempt, StepOf(s), ~Listen(s), ~ListenFails(s), ~CloseServer(s)
    PROVE  UNCHANGED <<count, server>>
  BY Zenon DEF StepOf, StoreToken, StoreTokenFails, GenerateCert, CreateRecord, CreateRecordFails, Finish,
         Verify, Cancel, Unwrap, DeleteToken, DeleteTokenFails, DeleteRecord, DeleteRecordFails

\* ... the counts integers and the servers of known kinds ...
LEMMA PortsStep ==
    ASSUME Types, Placed, [Next]_vars
    PROVE  PortsOK'
  <1> USE DEF Types
  <1>1. ASSUME NEW s \in Attempt, Listen(s) \/ ListenFails(s) \/ CloseServer(s) PROVE PortsOK'
    <2>1. on[s] \in Instance
      BY <1>1, StepPlaces, GotoEffect DEF Placed, InProgress
    <2> QED BY <1>1, <2>1, ListenEffect, CloseEffect, Zenon
  <1>2. ASSUME NEW s \in Attempt, NEW p \in Instance, Begin(s, p) \/ CreateCertificate(s, p)
        PROVE  UNCHANGED <<count, server>>
    BY <1>2, Zenon DEF Begin, CreateCertificate
  <1>3. ASSUME NEW p \in Instance, Crash(p) PROVE PortsOK'
    BY <1>3 DEF Crash, PortsOK
  <1> QED BY <1>1, <1>2, <1>3, NextCases, PortsSame, Zenon DEF vars, PortsOK

\* ... and the records, orders and errors those of attempts.
LEMMA RecordsStep ==
    ASSUME RecordsOK, [Next]_vars
    PROVE  RecordsOK'
  <1>0. faults' \subseteq FaultKind
    BY FaultTypes, Zenon DEF RecordsOK
  <1>1. ASSUME NEW s \in Attempt, StepOf(s) PROVE records' \subseteq Attempt /\ zone' \subseteq Attempt
    BY <1>1, Zenon DEF RecordsOK, StepOf, StoreToken, StoreTokenFails, GenerateCert, Listen, ListenFails,
         CreateRecord, CreateRecordFails, Finish, Verify, Cancel, Unwrap, DeleteToken,
         DeleteTokenFails, CloseServer, DeleteRecord, DeleteRecordFails
  <1>2. ASSUME NEW s \in Attempt, StepOf(s)
        PROVE  order' \in [Attempt -> {"none", "draft", "issued", "cancelled"}] /\ err' \subseteq Attempt
    BY <1>2, Zenon DEF RecordsOK, StepOf, StoreToken, StoreTokenFails, GenerateCert, Listen, ListenFails,
         CreateRecord, CreateRecordFails, Finish, Verify, Cancel, Unwrap, DeleteToken,
         DeleteTokenFails, CloseServer, DeleteRecord, DeleteRecordFails, Err, zerossl
  <1>3. ASSUME NEW s \in Attempt, NEW p \in Instance, Begin(s, p) \/ CreateCertificate(s, p)
        PROVE  RecordsOK'
    BY <1>0, <1>3, Zenon DEF Begin, CreateCertificate, RecordsOK, zerossl
  <1>4. ASSUME NEW p \in Instance, Crash(p) PROVE RecordsOK'
    BY <1>0, <1>4, Zenon DEF Crash, RecordsOK
  <1> QED BY <1>0, <1>1, <1>2, <1>3, <1>4, NextCases, Zenon DEF vars, RecordsOK

\* Every step leaves the types.
LEMMA TypesStep ==
    ASSUME Types, Placed, [Next]_vars
    PROVE  Types'
  BY PlacesStep, ActiveStep, TokenStep, PortsStep, RecordsStep, Zenon DEF Types

\* A step of an attempt moves no other.
LEMMA OthersStay ==
    ASSUME PlacesOK, NEW s \in Attempt, StepOf(s)
    PROVE  \A t \in Attempt : t # s => pc'[t] = pc[t] /\ on'[t] = on[t]
  BY StepGoes, GotoEffect, Zenon

\* The places from and to which a step moves, given the kind of challenge.
LEMMA Moves ==
    ASSUME PlacesOK, Placed, NEW s \in Attempt
    PROVE  /\ StoreToken(s) => /\ pc[s] = "store" /\ on'[s] = on[s] /\ ~UsesDNS(s)
                               /\ pc'[s] = IF Info[s].kind = "tls" THEN "cert" ELSE "listen"
           /\ StoreTokenFails(s) => /\ pc[s] = "store" /\ on'[s] = on[s] /\ ~UsesDNS(s)
                                    /\ pc'[s] = AfterFailure(s)
           /\ GenerateCert(s) => /\ pc[s] = "cert" /\ on'[s] = on[s] /\ Info[s].kind = "tls"
                                 /\ pc'[s] = "listen" /\ ~UsesDNS(s)
           /\ Listen(s) => pc[s] = "listen" /\ on'[s] = on[s] /\ ~UsesDNS(s) /\ pc'[s] = "presented"
           /\ ListenFails(s) => /\ pc[s] = "listen" /\ on'[s] = on[s] /\ ~UsesDNS(s)
                                /\ pc'[s] = AfterFailure(s)
           /\ CreateRecord(s) => pc[s] = "record" /\ on'[s] = on[s] /\ UsesDNS(s) /\ pc'[s] = "presented"
           /\ CreateRecordFails(s) => /\ pc[s] = "record" /\ on'[s] = on[s] /\ UsesDNS(s)
                                      /\ pc'[s] = AfterFailure(s)
           /\ Finish(s) => pc[s] = "presented" /\ on'[s] = on[s] /\ Acme(s) /\ pc'[s] = "unwrap"
           /\ Verify(s) => /\ pc[s] = "presented" /\ on'[s] = on[s] /\ ~Acme(s)
                           /\ pc'[s] = IF UsesDNS(s) THEN "unrecord" ELSE "delete"
           /\ Cancel(s) => pc[s] = "returns" /\ on'[s] = NoInstance /\ ~Acme(s) /\ pc'[s] = "over"
           /\ Unwrap(s) => /\ pc[s] = "unwrap" /\ on'[s] = on[s] /\ Acme(s)
                           /\ pc'[s] = IF UsesDNS(s) THEN "unrecord" ELSE "delete"
           /\ DeleteToken(s) => pc[s] = "delete" /\ on'[s] = on[s] /\ ~UsesDNS(s) /\ pc'[s] = "close"
           /\ (DeleteTokenFails(s) \/ CloseServer(s)) =>
                 /\ pc[s] \in {"delete", "close"} /\ ~UsesDNS(s)
                 /\ pc'[s] = AfterCleanUp(s)
                 /\ on'[s] = IF Acme(s) THEN NoInstance ELSE on[s]
           /\ CloseServer(s) => pc[s] = "close"
           /\ (DeleteRecord(s) \/ DeleteRecordFails(s)) =>
                 /\ pc[s] = "unrecord" /\ UsesDNS(s)
                 /\ pc'[s] = AfterCleanUp(s)
                 /\ on'[s] = IF Acme(s) THEN NoInstance ELSE on[s]
  <1>1. \A from, to : Goto(s, from, to) =>
           pc[s] = from /\ pc'[s] = to /\ on'[s] = IF to = "over" THEN NoInstance ELSE on[s]
    BY GotoEffect, Zenon
  <1>2. AfterFailure(s) = (IF Acme(s) THEN "unwrap" ELSE "returns")
    BY Zenon DEF AfterFailure
  <1>3. AfterCleanUp(s) = (IF Acme(s) THEN "over" ELSE "returns")
    BY Zenon DEF AfterCleanUp
  <1>4. (StoreToken(s) => /\ pc[s] = "store" /\ on'[s] = on[s]
                          /\ pc'[s] = IF Info[s].kind = "tls" THEN "cert" ELSE "listen")
        /\ (StoreTokenFails(s) => pc[s] = "store" /\ on'[s] = on[s] /\ pc'[s] = AfterFailure(s))
        /\ (GenerateCert(s) => pc[s] = "cert" /\ on'[s] = on[s] /\ pc'[s] = "listen")
        /\ (Listen(s) => pc[s] = "listen" /\ on'[s] = on[s] /\ pc'[s] = "presented")
        /\ (ListenFails(s) => pc[s] = "listen" /\ on'[s] = on[s] /\ pc'[s] = AfterFailure(s))
    BY <1>1, <1>2, StepPlaces
  <1>5. (CreateRecord(s) => pc[s] = "record" /\ on'[s] = on[s] /\ pc'[s] = "presented")
        /\ (CreateRecordFails(s) => pc[s] = "record" /\ on'[s] = on[s] /\ pc'[s] = AfterFailure(s))
        /\ (Finish(s) => pc[s] = "presented" /\ on'[s] = on[s] /\ Acme(s) /\ pc'[s] = "unwrap")
        /\ (Verify(s) => /\ pc[s] = "presented" /\ on'[s] = on[s] /\ ~Acme(s)
                         /\ pc'[s] = IF UsesDNS(s) THEN "unrecord" ELSE "delete")
        /\ (Cancel(s) => pc[s] = "returns" /\ on'[s] = NoInstance /\ pc'[s] = "over")
    BY <1>1, <1>2, StepPlaces
  <1>6. (Unwrap(s) => /\ pc[s] = "unwrap" /\ on'[s] = on[s]
                      /\ pc'[s] = IF UsesDNS(s) THEN "unrecord" ELSE "delete")
        /\ (DeleteToken(s) => pc[s] = "delete" /\ on'[s] = on[s] /\ pc'[s] = "close")
        /\ (DeleteTokenFails(s) => /\ pc[s] = "delete" /\ pc'[s] = AfterCleanUp(s)
                                   /\ on'[s] = IF Acme(s) THEN NoInstance ELSE on[s])
        /\ (CloseServer(s) => /\ pc[s] = "close" /\ pc'[s] = AfterCleanUp(s)
                              /\ on'[s] = IF Acme(s) THEN NoInstance ELSE on[s])
        /\ ((DeleteRecord(s) \/ DeleteRecordFails(s)) =>
               /\ pc[s] = "unrecord" /\ pc'[s] = AfterCleanUp(s)
               /\ on'[s] = IF Acme(s) THEN NoInstance ELSE on[s])
    BY <1>1, <1>3, StepPlaces
  <1>7. /\ pc[s] \in {"store", "cert", "listen", "delete", "close"} => ~UsesDNS(s)
        /\ pc[s] \in {"record", "unrecord"} => UsesDNS(s)
        /\ pc[s] = "cert" => Info[s].kind = "tls"
        /\ pc[s] = "unwrap" => Acme(s)
        /\ pc[s] = "returns" => ~Acme(s)
    BY Zenon DEF Placed
  <1> QED BY <1>4, <1>5, <1>6, <1>7

\* Every step leaves attempts at a place their kind of challenge has.
LEMMA PlacedStep ==
    ASSUME Types, Placed, [Next]_vars
    PROVE  Placed'
  <1> USE DEF Types
  <1>0. NoInstance \notin Instance
    BY AppServerAssumption, Zenon
  <1> DEFINE PlacedAt(s) ==
        /\ InProgress(s) <=> on[s] \in Instance
        /\ pc[s] \in {"store", "cert", "listen", "delete", "close"} => ~UsesDNS(s)
        /\ pc[s] \in {"record", "unrecord"} => UsesDNS(s)
        /\ pc[s] = "cert" => Info[s].kind = "tls"
        /\ pc[s] = "unwrap" => Acme(s)
        /\ pc[s] = "returns" => ~Acme(s)
  <1>1. ASSUME NEW s \in Attempt, NEW t \in Attempt, pc'[t] = pc[t], on'[t] = on[t]
        PROVE  PlacedAt(t)'
    BY <1>1, Zenon DEF Placed, InProgress, UsesDNS, Acme
  <1>2. ASSUME NEW s \in Attempt, StepOf(s) PROVE Placed'
    <2>1. InProgress(s) /\ on[s] \in Instance
      BY <1>2, StepGoes, GotoEffect DEF Placed, InProgress
    <2>2. (UsesDNS(s) <=> UsesDNS(s)') /\ (Acme(s) <=> Acme(s)')
      BY Zenon DEF UsesDNS, Acme
    <2>3. PlacedAt(s)'
      <3>1. CASE StoreToken(s) \/ StoreTokenFails(s) \/ GenerateCert(s) \/ Listen(s) \/ ListenFails(s)
        BY <1>0, <2>1, <2>2, <3>1, Moves, Zenon DEF InProgress, AfterFailure
      <3>2. CASE CreateRecord(s) \/ CreateRecordFails(s) \/ Finish(s) \/ Verify(s) \/ Cancel(s)
        BY <1>0, <2>1, <2>2, <3>2, Moves, Zenon DEF InProgress, AfterFailure
      <3>3. CASE \/ Unwrap(s) \/ DeleteToken(s) \/ DeleteTokenFails(s) \/ CloseServer(s)
                 \/ DeleteRecord(s) \/ DeleteRecordFails(s)
        BY <1>0, <2>1, <2>2, <3>3, Moves DEF InProgress, AfterCleanUp
      <3> QED BY <1>2, <3>1, <3>2, <3>3, Zenon DEF StepOf
    <2>4. \A t \in Attempt : t # s => PlacedAt(t)'
      BY <1>1, <1>2, OthersStay
    <2> QED BY <2>3, <2>4, Zenon DEF Placed
  <1>3. ASSUME NEW s \in Attempt, NEW p \in Instance, Begin(s, p) \/ CreateCertificate(s, p)
        PROVE  Placed'
    <2>1. Start(s, p)
      BY <1>3, Zenon DEF Begin, CreateCertificate
    <2>2. PlacedAt(s)'
      BY <2>1, StartEffect, Zenon DEF InProgress, UsesDNS, Acme
    <2>3. \A t \in Attempt : t # s => PlacedAt(t)'
      BY <1>1, <2>1, StartEffect, Zenon
    <2> QED BY <2>2, <2>3, Zenon DEF Placed
  <1>4. ASSUME NEW p \in Instance, Crash(p) PROVE Placed'
    <2> SUFFICES ASSUME NEW t \in Attempt PROVE PlacedAt(t)'
      BY Zenon DEF Placed
    <2>1. CASE on[t] = p /\ InProgress(t)
      BY <1>0, <1>4, <2>1, CrashEffect, Zenon DEF InProgress
    <2>2. CASE ~(on[t] = p /\ InProgress(t))
      BY <1>1, <1>4, <2>2, CrashEffect, Zenon
    <2> QED BY <2>1, <2>2, Zenon
  <1>5. ASSUME UNCHANGED vars PROVE Placed'
    BY <1>5, Zenon DEF Placed, vars, InProgress, UsesDNS, Acme
  <1> QED BY <1>2, <1>3, <1>4, <1>5, NextCases, Zenon

\* The lock of the name is held until the attempt is over.
LEMMA OneForNameStep ==
    ASSUME Types, Placed, OneForName, [Next]_vars
    PROVE  OneForName'
  <1> USE DEF Types
  <1>1. ASSUME \A t \in Attempt : InProgress(t)' => InProgress(t) PROVE OneForName'
    BY <1>1, Zenon DEF OneForName
  <1>2. ASSUME NEW s \in Attempt, StepOf(s) PROVE \A t \in Attempt : InProgress(t)' => InProgress(t)
    BY <1>2, OthersStay, StepGoes, GotoEffect DEF InProgress
  <1>3. ASSUME NEW s \in Attempt, NEW p \in Instance, Begin(s, p) \/ CreateCertificate(s, p)
        PROVE  OneForName'
    <2>1. Start(s, p)
      BY <1>3, Zenon DEF Begin, CreateCertificate
    <2>2. \A t \in Attempt : t # s => (InProgress(t)' <=> InProgress(t))
      BY <2>1, StartEffect, Zenon DEF InProgress
    <2>3. \A t \in Attempt : Info[t].name = Info[s].name => ~InProgress(t)
      BY <2>1, StartEffect, Zenon DEF Free
    <2> QED BY <2>2, <2>3, Zenon DEF OneForName
  <1>4. ASSUME NEW p \in Instance, Crash(p) PROVE \A t \in Attempt : InProgress(t)' => InProgress(t)
    BY <1>4, CrashEffect, Zenon DEF InProgress
  <1>5. ASSUME UNCHANGED vars PROVE \A t \in Attempt : InProgress(t)' => InProgress(t)
    BY <1>5, Zenon DEF InProgress, vars
  <1> QED BY <1>1, <1>2, <1>3, <1>4, <1>5, NextCases

-----------------------------------------------------------------------------
(* Owners *)

\* A challenge is remembered until Unwrap.
LEMMA Remembering ==
    ASSUME Types, Placed, NEW s \in Attempt, StepOf(s), NEW t \in Attempt, Remembers(t),
           t # s \/ ~Unwrap(s)
    PROVE  Remembers(t)' /\ on'[t] = on[t]
  <1> USE DEF Types
  <1>1. Acme(t) <=> Acme(t)'
    BY Zenon DEF Acme
  <1>2. CASE t # s
    BY <1>1, <1>2, OthersStay, Zenon DEF Remembers
  <1>3. CASE t = s
    <2>1. CASE StoreToken(s) \/ StoreTokenFails(s) \/ GenerateCert(s) \/ Listen(s) \/ ListenFails(s)
      BY <1>1, <1>3, <2>1, Moves, Zenon DEF Remembers, AfterFailure
    <2>2. CASE CreateRecord(s) \/ CreateRecordFails(s) \/ Finish(s) \/ Verify(s) \/ Cancel(s)
      BY <1>1, <1>3, <2>2, Moves, Zenon DEF Remembers, AfterFailure
    <2>3. CASE \/ DeleteToken(s) \/ DeleteTokenFails(s) \/ CloseServer(s)
               \/ DeleteRecord(s) \/ DeleteRecordFails(s)
      BY <1>1, <1>3, <2>3, Moves, Zenon DEF Remembers
    <2> QED BY <1>3, <2>1, <2>2, <2>3, Zenon DEF StepOf
  <1> QED BY <1>2, <1>3, Zenon

\* What is remembered of a challenge is forgotten by the clean-up of its
\* attempt.
LEMMA ActiveOwnedStep ==
    ASSUME Types, Placed, ActiveOwned, [Next]_vars
    PROVE  ActiveOwned'
  <1> USE DEF Types
  <1>a. ActiveOK'
    BY ActiveStep, Zenon
  <1> DEFINE OwnedAt(p, d) ==
        /\ Owned(p, d, active[p][d].chal)
        /\ Owned(p, d, active[p][d].data)
        /\ active[p][d].data # 0 => Info[active[p][d].data].kind = "tls"
  <1>1. ASSUME NEW p \in Instance, NEW d \in Identifier, active'[p][d] = active[p][d],
               \A t \in Attempt : (Remembers(t) /\ on[t] = p /\ Info[t].identifier = d) =>
                    Remembers(t)' /\ on'[t] = on[t]
        PROVE  OwnedAt(p, d)'
    <2>1. OwnedAt(p, d)
      BY Zenon DEF ActiveOwned
    <2>2. active[p][d].chal \in Attempt \cup {0} /\ active[p][d].data \in Attempt \cup {0}
      BY Zenon DEF ActiveOK
    <2> PICK c \in Attempt \cup {0}, e \in Attempt \cup {0} :
                c = active[p][d].chal /\ e = active[p][d].data
      BY <2>2, Zenon
    <2>3. active'[p][d].chal = c /\ active'[p][d].data = e
      BY <1>1, Zenon
    <2>4. Owned(p, d, c)'
      BY <1>1, <2>1, Zenon DEF Owned
    <2>5. Owned(p, d, e)'
      BY <1>1, <2>1, Zenon DEF Owned
    <2>6. e # 0 => Info[e].kind = "tls"
      BY <2>1, Zenon
    <2> QED BY <2>3, <2>4, <2>5, <2>6, Zenon
  <1>2. ASSUME NEW p \in Instance, NEW d \in Identifier, active'[p][d] = NoChallenge
        PROVE  OwnedAt(p, d)'
    BY <1>2 DEF NoChallenge, Owned
  <1>3. ASSUME NEW s \in Attempt, NEW p \in Instance, Begin(s, p) PROVE ActiveOwned'
    <2>1. Start(s, p) /\ Acme(s)
      BY <1>3, Zenon DEF Begin
    <2>2. active' = [active EXCEPT ![p][Info[s].identifier] = [chal |-> s, data |-> 0]]
      BY <1>3, Zenon DEF Begin
    <2>3. \A t \in Attempt : Remembers(t) => Remembers(t)' /\ on'[t] = on[t]
      BY <2>1, StartEffect, Zenon DEF Remembers, Acme
    <2>4. Remembers(s)' /\ on'[s] = p
      BY <2>1, StartEffect, Zenon DEF Remembers, Acme
    <2> SUFFICES ASSUME NEW q \in Instance, NEW d \in Identifier PROVE OwnedAt(q, d)'
      BY Zenon DEF ActiveOwned
    <2>5. CASE q = p /\ d = Info[s].identifier
      <3>1. active'[q][d] = [chal |-> s, data |-> 0]
        BY <2>2, <2>5, Zenon DEF ActiveOK
      <3> QED BY <2>4, <2>5, <3>1 DEF Owned
    <2>6. CASE q # p \/ d # Info[s].identifier
      <3>1. active'[q][d] = active[q][d]
        BY <2>2, <2>6, Zenon DEF ActiveOK
      <3> QED BY <1>1, <2>3, <3>1, Zenon
    <2> QED BY <2>5, <2>6, Zenon
  <1>4. ASSUME NEW s \in Attempt, GenerateCert(s) PROVE ActiveOwned'
    <2>1. on[s] \in Instance /\ Info[s].kind = "tls" /\ Acme(s) /\ Remembers(s)
      BY <1>4, Moves, PlanFacts, Zenon DEF Placed, InProgress, Remembers
    <2>2. active' = [active EXCEPT ![on[s]][Info[s].identifier].data = s]
      BY <1>4, Zenon DEF GenerateCert
    <2>3. ~Unwrap(s)
      BY <1>4, Moves, Zenon
    <2>4. \A t \in Attempt : Remembers(t) => Remembers(t)' /\ on'[t] = on[t]
      BY <1>4, <2>3, Remembering, Zenon DEF StepOf
    <2> SUFFICES ASSUME NEW q \in Instance, NEW d \in Identifier PROVE OwnedAt(q, d)'
      BY Zenon DEF ActiveOwned
    <2>5. CASE q = on[s] /\ d = Info[s].identifier
      <3>1. active'[q][d].chal = active[q][d].chal /\ active'[q][d].data = s
        BY <2>2, <2>5 DEF ActiveOK
      <3>2. active[q][d].chal \in Attempt \cup {0}
        BY Zenon DEF ActiveOK
      <3>3. Owned(q, d, active[q][d].chal)
        BY Zenon DEF ActiveOwned
      <3> PICK c \in Attempt \cup {0} : c = active[q][d].chal
        BY <3>2, Zenon
      <3>4. Owned(q, d, c)'
        BY <2>4, <3>3, Zenon DEF Owned
      <3>5. Owned(q, d, s)'
        BY <2>1, <2>4, <2>5, Zenon DEF Owned
      <3> QED BY <2>1, <3>1, <3>4, <3>5, Zenon
    <2>6. CASE q # on[s] \/ d # Info[s].identifier
      <3>1. active'[q][d] = active[q][d]
        BY <2>1, <2>2, <2>6, Zenon DEF ActiveOK
      <3> QED BY <1>1, <2>4, <3>1, Zenon
    <2> QED BY <2>5, <2>6, Zenon
  <1>5. ASSUME NEW s \in Attempt, Unwrap(s) PROVE ActiveOwned'
    <2>1. on[s] \in Instance
      BY <1>5, Moves, Zenon DEF Placed, InProgress
    <2>2. active' = [active EXCEPT ![on[s]][Info[s].identifier] = NoChallenge]
      BY <1>5, Zenon DEF Unwrap
    <2>3. \A t \in Attempt : (t # s /\ Remembers(t)) => Remembers(t)' /\ on'[t] = on[t]
      BY <1>5, Remembering, Zenon DEF StepOf
    <2> SUFFICES ASSUME NEW q \in Instance, NEW d \in Identifier PROVE OwnedAt(q, d)'
      BY Zenon DEF ActiveOwned
    <2>4. CASE q = on[s] /\ d = Info[s].identifier
      <3>1. active'[q][d] = NoChallenge
        BY <2>2, <2>4, Zenon DEF ActiveOK
      <3> QED BY <1>2, <3>1, Zenon
    <2>5. CASE q # on[s] \/ d # Info[s].identifier
      <3>1. active'[q][d] = active[q][d]
        BY <2>2, <2>5, Zenon DEF ActiveOK
      <3> QED BY <1>1, <2>3, <2>5, <3>1, Zenon
    <2> QED BY <2>4, <2>5, Zenon
  <1>6. ASSUME NEW s \in Attempt, StepOf(s), ~GenerateCert(s), ~Unwrap(s) PROVE ActiveOwned'
    <2>1. active' = active
      BY <1>6, Zenon DEF StepOf, StoreToken, StoreTokenFails, Listen, ListenFails, CreateRecord,
           CreateRecordFails, Finish, Verify, Cancel, DeleteToken, DeleteTokenFails,
           CloseServer, DeleteRecord, DeleteRecordFails
    <2>2. \A t \in Attempt : Remembers(t) => Remembers(t)' /\ on'[t] = on[t]
      BY <1>6, Remembering, Zenon
    <2> QED BY <1>1, <2>1, <2>2, Zenon DEF ActiveOwned
  <1>7. ASSUME NEW s \in Attempt, NEW p \in Instance, CreateCertificate(s, p) PROVE ActiveOwned'
    <2>1. active' = active /\ Start(s, p)
      BY <1>7, Zenon DEF CreateCertificate
    <2>2. \A t \in Attempt : Remembers(t) => Remembers(t)' /\ on'[t] = on[t]
      BY <2>1, StartEffect, Zenon DEF Remembers, Acme
    <2> QED BY <1>1, <2>1, <2>2, Zenon DEF ActiveOwned
  <1>8. ASSUME NEW p \in Instance, Crash(p) PROVE ActiveOwned'
    <2>1. active' = [active EXCEPT ![p] = [d \in Identifier |-> NoChallenge]]
      BY <1>8, Zenon DEF Crash
    <2>2. \A t \in Attempt : (Remembers(t) /\ on[t] # p) => Remembers(t)' /\ on'[t] = on[t]
      BY <1>8, CrashEffect, Zenon DEF Remembers, Acme
    <2> SUFFICES ASSUME NEW q \in Instance, NEW d \in Identifier PROVE OwnedAt(q, d)'
      BY Zenon DEF ActiveOwned
    <2>3. CASE q = p
      <3>1. active'[q][d] = NoChallenge
        BY <2>1, <2>3, Zenon DEF ActiveOK
      <3> QED BY <1>2, <3>1, Zenon
    <2>4. CASE q # p
      <3>1. active'[q][d] = active[q][d]
        BY <2>1, <2>4, Zenon DEF ActiveOK
      <3> QED BY <1>1, <2>2, <2>4, <3>1, Zenon
    <2> QED BY <2>3, <2>4, Zenon
  <1>9. ASSUME UNCHANGED vars PROVE ActiveOwned'
    BY <1>1, <1>9, Zenon DEF ActiveOwned, vars, Remembers, Acme
  <1> QED BY <1>3, <1>4, <1>5, <1>6, <1>7, <1>8, <1>9, NextCases, Zenon

\* A token has its owner until DeleteToken, unless the attempt is one that
\* nobody cleans up after.
LEMMA HavingToken ==
    ASSUME Types, Placed, NEW s \in Attempt, StepOf(s), "delete" \notin faults',
           NEW t \in Attempt, HasToken(t), t # s \/ ~DeleteToken(s)
    PROVE  HasToken(t)' \/ (Info[t].issuer = 0 /\ "zerosslListen" \in faults')
  <1> USE DEF Types
  <1>1. (UsesDNS(t) <=> UsesDNS(t)') /\ (Acme(t) <=> Acme(t)')
    BY Zenon DEF UsesDNS, Acme
  <1>2. CASE t # s
    BY <1>1, <1>2, OthersStay, Zenon DEF HasToken
  <1>3. CASE t = s
    <2>1. CASE StoreToken(s) \/ StoreTokenFails(s) \/ GenerateCert(s) \/ Listen(s)
      BY <1>1, <1>3, <2>1, Moves, Zenon DEF HasToken
    <2>2. CASE ListenFails(s)
      <3>1. ~Acme(s) => "zerosslListen" \in faults'
        BY <2>2, Zenon DEF ListenFails, Fault
      <3> QED BY <1>1, <1>3, <2>2, <3>1, Moves, PlanFacts, Zenon DEF HasToken, AfterFailure
    <2>3. CASE CreateRecord(s) \/ CreateRecordFails(s) \/ Finish(s) \/ Verify(s) \/ Cancel(s)
      BY <1>1, <1>3, <2>3, Moves, Zenon DEF HasToken
    <2>4. CASE Unwrap(s) \/ CloseServer(s) \/ DeleteRecord(s) \/ DeleteRecordFails(s)
      BY <1>1, <1>3, <2>4, Moves, Zenon DEF HasToken
    <2>5. ~DeleteTokenFails(s)
      BY Zenon DEF DeleteTokenFails, Fault
    <2> QED BY <1>3, <2>1, <2>2, <2>3, <2>4, <2>5 DEF StepOf
  <1> QED BY <1>2, <1>3, Zenon

\* The other steps leave storage alone.
LEMMA TokensSame ==
    ASSUME NEW s \in Attempt, StepOf(s), ~StoreToken(s), ~DeleteToken(s)
    PROVE  token' = token
  BY Zenon DEF StepOf, StoreTokenFails, GenerateCert, Listen, ListenFails, CreateRecord,
         CreateRecordFails, Finish, Verify, Cancel, Unwrap, DeleteTokenFails,
         CloseServer, DeleteRecord, DeleteRecordFails

\* The start of an attempt leaves storage alone.
LEMMA StartTokens ==
    ASSUME NEW s \in Attempt, NEW p \in Instance, Begin(s, p) \/ CreateCertificate(s, p)
    PROVE  token' = token /\ faults' = faults /\ Start(s, p)
  BY Zenon DEF Begin, CreateCertificate

\* Every token of an attempt is deleted by its clean-up, if that does not
\* fail.
LEMMA TokenOwnedStep ==
    ASSUME Types, Placed, TokenOwned, [Next]_vars
    PROVE  TokenOwned'
  <1> USE DEF Types
  <1> SUFFICES ASSUME faults' \cap {"crash", "delete"} = {}, NEW i \in Issuer, NEW d \in Identifier,
                      token'[i][d] # 0
               PROVE  /\ Info[token'[i][d]].issuer = i /\ Info[token'[i][d]].identifier = d
                      /\ ~UsesDNS(token[i][d])'
                      /\ HasToken(token[i][d])' \/ (i = 0 /\ "zerosslListen" \in faults')
    BY Zenon DEF TokenOwned
  <1>a. faults \subseteq faults' /\ faults \cap {"crash", "delete"} = {} /\ "delete" \notin faults'
    BY FaultsGrow, Zenon
  <1>b. TokenOK'
    BY TokenStep, Zenon
  <1> PICK t \in Attempt : t = token'[i][d]
    BY <1>b, Zenon DEF TokenOK
  <1> SUFFICES /\ Info[t].issuer = i /\ Info[t].identifier = d /\ ~UsesDNS(t)
               /\ HasToken(t)' \/ (i = 0 /\ "zerosslListen" \in faults')
    BY Zenon DEF UsesDNS, HasToken
  <1>1. token[i][d] = t =>
           /\ Info[t].issuer = i /\ Info[t].identifier = d /\ ~UsesDNS(t)
           /\ HasToken(t) \/ (i = 0 /\ "zerosslListen" \in faults)
    BY <1>a, PlanFacts DEF TokenOwned
  <1>2. ASSUME NEW s \in Attempt, StoreToken(s), t = s, i = Info[s].issuer, d = Info[s].identifier
        PROVE  ~UsesDNS(t) /\ HasToken(t)'
    BY <1>2, Moves, Zenon DEF HasToken, UsesDNS
  <1>3. ASSUME NEW s \in Attempt, StoreToken(s)
        PROVE  (t = s /\ i = Info[s].issuer /\ d = Info[s].identifier) \/ token[i][d] = t
    BY <1>3, PlanFacts, Zenon DEF StoreToken, TokenOK
  <1>4. ASSUME NEW s \in Attempt, DeleteToken(s)
        PROVE  token[i][d] = t /\ ~(i = Info[s].issuer /\ d = Info[s].identifier)
    BY <1>4, PlanFacts, Zenon DEF DeleteToken, TokenOK
  <1>5. ASSUME NEW s \in Attempt, StepOf(s), token[i][d] = t, t # s \/ ~DeleteToken(s)
        PROVE  HasToken(t)' \/ (i = 0 /\ "zerosslListen" \in faults')
    BY <1>1, <1>5, <1>a, HavingToken, Zenon
  <1>6. ASSUME NEW s \in Attempt, StepOf(s)
        PROVE  /\ Info[t].issuer = i /\ Info[t].identifier = d /\ ~UsesDNS(t)
               /\ HasToken(t)' \/ (i = 0 /\ "zerosslListen" \in faults')
    <2>1. CASE StoreToken(s)
      <3>1. ~DeleteToken(s)
        BY <2>1, Moves, Zenon
      <3> QED BY <1>1, <1>2, <1>3, <1>5, <1>6, <2>1, <3>1, Zenon
    <2>2. CASE DeleteToken(s)
      BY <1>1, <1>4, <1>5, <1>6, <2>2
    <2>3. CASE ~StoreToken(s) /\ ~DeleteToken(s)
      <3>1. token[i][d] = t
        BY <1>6, <2>3, TokensSame, Zenon
      <3> QED BY <1>1, <1>5, <1>6, <2>3, <3>1, Zenon
    <2> QED BY <2>1, <2>2, <2>3, Zenon
  <1>7. ASSUME NEW s \in Attempt, NEW p \in Instance, Begin(s, p) \/ CreateCertificate(s, p)
        PROVE  token[i][d] = t /\ (HasToken(t) => HasToken(t)')
    BY <1>7, StartTokens, StartEffect DEF HasToken, UsesDNS
  <1>8. ASSUME NEW p \in Instance, Crash(p) PROVE FALSE
    BY <1>8, Zenon DEF Crash, Fault
  <1>9. ASSUME UNCHANGED vars PROVE token[i][d] = t /\ (HasToken(t) => HasToken(t)')
    BY <1>9, Zenon DEF vars, HasToken, UsesDNS
  <1> QED BY <1>1, <1>6, <1>7, <1>8, <1>9, <1>a, NextCases

\* No other attempt writes or deletes the token of one that is presented.
LEMMA TokenKeptStep ==
    ASSUME Types, Placed, OneForName, TokenKept, [Next]_vars
    PROVE  TokenKept'
  <1> USE DEF Types
  <1> DEFINE Holding(t) == ~UsesDNS(t) /\ pc[t] \in {"cert", "listen", "presented"}
  <1> SUFFICES ASSUME WildcardsUseDNS, NEW t \in Attempt, Holding(t)'
               PROVE  token'[Info[t].issuer][Info[t].identifier] = t
    BY Zenon DEF TokenKept, WildcardsUseDNS, UsesDNS
  <1>1. Holding(t) => token[Info[t].issuer][Info[t].identifier] = t
    BY Zenon DEF TokenKept
  <1>2. ASSUME NEW s \in Attempt, StepOf(s) PROVE token'[Info[t].issuer][Info[t].identifier] = t
    <2>1. CASE t = s /\ StoreToken(s)
      BY <2>1, PlanFacts, Zenon DEF StoreToken, TokenOK
    <2>2. CASE t = s /\ ~StoreToken(s)
      <3>1. ~UsesDNS(s)
        BY <2>2, Zenon DEF UsesDNS
      <3>2. GenerateCert(s) \/ Listen(s)
        BY <1>2, <2>2, <3>1, Moves, Zenon DEF StepOf, AfterFailure, AfterCleanUp
      <3>3. Holding(t)
        BY <2>2, <3>1, <3>2, Moves, Zenon
      <3>4. ~DeleteToken(s)
        BY <3>2, Moves, Zenon
      <3> QED BY <1>1, <1>2, <2>2, <3>3, <3>4, TokensSame, Zenon
    <2>3. CASE t # s
      <3>1. Holding(t) /\ InProgress(t)
        BY <1>2, <2>3, OthersStay, Zenon DEF UsesDNS, InProgress
      <3>2. CASE StoreToken(s) \/ DeleteToken(s)
        <4>1. ~UsesDNS(s) /\ InProgress(s)
          BY <3>2, Moves, Zenon DEF InProgress
        <4>2. Info[s].identifier # Info[t].identifier
          BY <2>3, <3>1, <4>1, Zenon DEF WildcardsUseDNS, OneForName
        <4> QED BY <1>1, <3>1, <3>2, <4>2, PlanFacts DEF StoreToken, DeleteToken, TokenOK
      <3>3. CASE ~StoreToken(s) /\ ~DeleteToken(s)
        BY <1>1, <1>2, <3>1, <3>3, TokensSame, Zenon
      <3> QED BY <3>2, <3>3, Zenon
    <2> QED BY <2>1, <2>2, <2>3, Zenon
  <1>3. ASSUME NEW s \in Attempt, NEW p \in Instance, Begin(s, p) \/ CreateCertificate(s, p)
        PROVE  token' = token /\ Holding(t)
    BY <1>3, StartTokens, StartEffect, Zenon DEF UsesDNS
  <1>4. ASSUME NEW p \in Instance, Crash(p) PROVE token' = token /\ Holding(t)
    <2>1. token' = token
      BY <1>4, Zenon DEF Crash
    <2> QED BY <1>4, <2>1, CrashEffect, Zenon DEF UsesDNS
  <1>5. ASSUME UNCHANGED vars PROVE token' = token /\ Holding(t)
    BY <1>5, Zenon DEF vars, UsesDNS
  <1> QED BY <1>1, <1>2, <1>3, <1>4, <1>5, NextCases, Zenon

\* Every record is remembered until it is deleted.
LEMMA RecordsOwnedStep ==
    ASSUME Types, Placed, RecordsOwned, [Next]_vars
    PROVE  RecordsOwned'
  <1> USE DEF Types
  <1>a. faults \subseteq faults'
    BY FaultsGrow, Zenon
  <1>b. \A s \in Attempt : UsesDNS(s) <=> UsesDNS(s)'
    BY Zenon DEF UsesDNS
  <1>c. records \subseteq Attempt /\ \A t \in records : UsesDNS(t) /\ pc[t] \in {"presented", "unwrap", "unrecord"}
    BY Zenon DEF RecordsOK, RecordsOwned
  <1>1. ASSUME NEW s \in Attempt, StepOf(s) PROVE RecordsOwned'
    <2>1. \A t \in Attempt : t # s => pc'[t] = pc[t]
      BY <1>1, OthersStay, Zenon
    <2>2. CASE CreateRecord(s)
      <3>1. UsesDNS(s) /\ pc'[s] = "presented"
        BY <2>2, Moves, Zenon
      <3> QED BY <1>a, <1>b, <1>c, <2>1, <2>2, <3>1, Zenon DEF RecordsOwned, CreateRecord
    <2>3. CASE DeleteRecord(s)
      BY <1>a, <1>b, <1>c, <2>1, <2>3, Zenon DEF RecordsOwned, DeleteRecord
    <2>4. CASE DeleteRecordFails(s)
      <3>1. faults' \cap {"dns", "cname"} # {}
        <4>1. UsesDNS(s)
          BY <2>4, Moves, Zenon
        <4> QED BY <2>4, <4>1, Zenon DEF UsesDNS, DeleteRecordFails, Fault
      <3> QED BY <1>b, <1>c, <2>1, <2>4, <3>1, Zenon DEF RecordsOwned, DeleteRecordFails
    <2>5. CASE ~CreateRecord(s) /\ ~DeleteRecord(s) /\ ~DeleteRecordFails(s)
      <3>1. records' = records /\ zone' = zone
        BY <1>1, <2>5, Zenon DEF StepOf, StoreToken, StoreTokenFails, GenerateCert, Listen, ListenFails,
             CreateRecordFails, Finish, Verify, Cancel, Unwrap, DeleteToken, DeleteTokenFails,
             CloseServer
      <3>2. s \in records => pc'[s] \in {"presented", "unwrap", "unrecord"}
        BY <1>1, <1>c, <2>5, Moves, Zenon DEF StepOf
      <3> QED BY <1>a, <1>b, <1>c, <2>1, <3>1, <3>2, Zenon DEF RecordsOwned
    <2> QED BY <2>2, <2>3, <2>4, <2>5, Zenon
  <1>2. ASSUME NEW s \in Attempt, NEW p \in Instance, Begin(s, p) \/ CreateCertificate(s, p)
        PROVE  RecordsOwned'
    <2>1. Start(s, p) /\ records' = records /\ zone' = zone
      BY <1>2, Zenon DEF Begin, CreateCertificate
    <2> QED BY <1>a, <1>b, <1>c, <2>1, StartEffect DEF RecordsOwned
  <1>3. ASSUME NEW p \in Instance, Crash(p) PROVE RecordsOwned'
    <2>1. "crash" \in faults'
      BY <1>3, Zenon DEF Crash, Fault
    <2>2. records' = records \ {s \in Attempt : on[s] = p /\ InProgress(s)}
      BY <1>3, Zenon DEF Crash
    <2> QED BY <1>3, <1>b, <1>c, <2>1, <2>2, CrashEffect, Zenon DEF RecordsOwned
  <1>4. ASSUME UNCHANGED vars PROVE RecordsOwned'
    BY <1>4, Zenon DEF RecordsOwned, vars, UsesDNS
  <1> QED BY <1>1, <1>2, <1>3, <1>4, NextCases, Zenon

\* An order at ZeroSSL is issued, or cancelled on an error.
LEMMA DraftOwnedStep ==
    ASSUME Types, Placed, DraftOwned, [Next]_vars
    PROVE  DraftOwned'
  <1> USE DEF Types
  <1> SUFFICES ASSUME NEW t \in Attempt, order'[t] = "draft"
               PROVE  /\ ~Acme(t)
                      /\ faults' \cap {"crash", "cname", "status", "cancel"} = {} =>
                            /\ pc'[t] # "over"
                            /\ pc'[t] \in {"delete", "close", "unrecord", "returns"} => t \in err'
    BY Zenon DEF DraftOwned, Acme
  <1>a. faults \subseteq faults'
    BY FaultsGrow, Zenon
  <1>b. order[t] = "draft" => ~Acme(t)
    BY Zenon DEF DraftOwned
  <1>c. (order[t] = "draft" /\ faults' \cap {"crash", "cname", "status", "cancel"} = {}) =>
              /\ pc[t] # "over"
              /\ pc[t] \in {"delete", "close", "unrecord", "returns"} => t \in err
    BY <1>a, Zenon DEF DraftOwned
  <1>1. ASSUME NEW s \in Attempt, StepOf(s), t # s
        PROVE  order[t] = "draft" /\ pc'[t] = pc[t] /\ (t \in err => t \in err')
    <2>1. pc'[t] = pc[t]
      BY <1>1, OthersStay, Zenon
    <2>2. order'[t] = order[t]
      BY <1>1, Zenon DEF RecordsOK, StepOf, StoreToken, StoreTokenFails, GenerateCert, Listen, ListenFails,
         CreateRecord, CreateRecordFails, Finish, Verify, Cancel, Unwrap, DeleteToken,
         DeleteTokenFails, CloseServer, DeleteRecord, DeleteRecordFails, zerossl
    <2>3. t \in err => t \in err'
      BY <1>1, Zenon DEF StepOf, StoreToken, StoreTokenFails, GenerateCert, Listen, ListenFails,
         CreateRecord, CreateRecordFails, Finish, Verify, Cancel, Unwrap, DeleteToken,
         DeleteTokenFails, CloseServer, DeleteRecord, DeleteRecordFails, zerossl, Err
    <2> QED BY <2>1, <2>2, <2>3, Zenon
  <1>2. ASSUME StepOf(t)
        PROVE  /\ ~Acme(t)
               /\ faults' \cap {"crash", "cname", "status", "cancel"} = {} =>
                     /\ pc'[t] # "over"
                     /\ pc'[t] \in {"delete", "close", "unrecord", "returns"} => t \in err'
    <2>1. CASE Verify(t)
      <3>1. ~Acme(t) /\ pc'[t] # "over"
        BY <2>1, Moves, Zenon
      <3>2. ASSUME faults' \cap {"crash", "cname", "status", "cancel"} = {} PROVE t \in err'
        BY <2>1, <3>1, <3>2, Zenon DEF Verify, Err, Fault, RecordsOK
      <3> QED BY <3>1, <3>2, Zenon
    <2>2. CASE Cancel(t)
      <3>1. ~Acme(t) /\ pc[t] = "returns"
        BY <2>2, Moves, Zenon
      <3>2. ASSUME faults' \cap {"crash", "cname", "status", "cancel"} = {} PROVE FALSE
        <4>1. order' = IF t \in err THEN [order EXCEPT ![t] = "cancelled"] ELSE order
          BY <2>2, <3>2, Zenon DEF Cancel, Fault
        <4>2. t \notin err /\ order[t] = "draft"
          BY <4>1, Zenon DEF RecordsOK
        <4> QED BY <1>c, <3>1, <3>2, <4>2, Zenon
      <3> QED BY <3>1, <3>2, Zenon
    <2>3. CASE ~Verify(t) /\ ~Cancel(t)
      <3>1. order' = order
        BY <1>2, <2>3, Zenon DEF StepOf, StoreToken, StoreTokenFails, GenerateCert, Listen, ListenFails,
           CreateRecord, CreateRecordFails, Finish, Unwrap, DeleteToken,
           DeleteTokenFails, CloseServer, DeleteRecord, DeleteRecordFails, zerossl
      <3>2. order[t] = "draft" /\ ~Acme(t)
        BY <1>b, <3>1, Zenon
      <3>3. CASE StoreTokenFails(t) \/ ListenFails(t)
        <4>1. t \in err'
          BY <3>2, <3>3, Zenon DEF StoreTokenFails, ListenFails, Err
        <4> QED BY <3>2, <3>3, <4>1, Moves, Zenon DEF AfterFailure
      <3>4. CASE CreateRecordFails(t)
        <4>1. Info[t].kind = "cname"
          BY <3>2, <3>4, Moves, PlanFacts, Zenon
        <4> QED BY <3>2, <3>4, <4>1, Zenon DEF CreateRecordFails, Fault
      <3>5. CASE StoreToken(t) \/ GenerateCert(t) \/ Listen(t) \/ CreateRecord(t)
        BY <3>2, <3>5, Moves, Zenon
      <3>6. CASE \/ DeleteToken(t) \/ DeleteTokenFails(t) \/ CloseServer(t)
                 \/ DeleteRecord(t) \/ DeleteRecordFails(t)
        <4>1. err' = err
          BY <3>6, Zenon DEF DeleteToken, DeleteTokenFails, CloseServer, DeleteRecord, DeleteRecordFails, zerossl
        <4>2. pc[t] \in {"delete", "close", "unrecord"} /\ pc'[t] # "over"
          BY <3>2, <3>6, Moves, Zenon DEF AfterCleanUp
        <4> QED BY <1>c, <3>2, <4>1, <4>2, Zenon
      <3>7. ~Finish(t) /\ ~Unwrap(t)
        BY <3>2, Moves, Zenon
      <3> QED BY <1>2, <2>3, <3>3, <3>4, <3>5, <3>6, <3>7, Zenon DEF StepOf
    <2> QED BY <2>1, <2>2, <2>3, Zenon
  <1>3. ASSUME NEW s \in Attempt, NEW p \in Instance, Begin(s, p) \/ CreateCertificate(s, p)
        PROVE  /\ ~Acme(t)
               /\ pc'[t] = pc[t] \/ pc'[t] \in {"store", "record"}
               /\ pc'[t] = pc[t] => order[t] = "draft" /\ err' = err
    <2>1. Start(s, p)
      BY <1>3, Zenon DEF Begin, CreateCertificate
    <2>2. pc'[t] = pc[t] \/ (t = s /\ pc'[t] \in {"store", "record"})
      BY <2>1, StartEffect, Zenon
    <2>3. pc'[s] # pc[s]
      BY <2>1, StartEffect, Zenon
    <2>4. err' = err
      BY <1>3, Zenon DEF Begin, CreateCertificate, zerossl
    <2>5. t # s => order'[t] = order[t]
      BY <1>3, Zenon DEF Begin, CreateCertificate, zerossl, RecordsOK
    <2>6. t = s => ~Acme(t)
      BY <1>3, <1>b, Zenon DEF Begin, CreateCertificate, zerossl
    <2> QED BY <1>b, <2>2, <2>3, <2>4, <2>5, <2>6, Zenon
  <1>4. ASSUME NEW p \in Instance, Crash(p) PROVE order' = order /\ "crash" \in faults'
    BY <1>4, Zenon DEF Crash, Fault
  <1>5. ASSUME UNCHANGED vars PROVE order' = order /\ pc' = pc /\ err' = err
    BY <1>5, Zenon DEF vars
  <1>6. ASSUME NEW s \in Attempt, StepOf(s), t # s
        PROVE  /\ ~Acme(t)
               /\ faults' \cap {"crash", "cname", "status", "cancel"} = {} =>
                     /\ pc'[t] # "over"
                     /\ pc'[t] \in {"delete", "close", "unrecord", "returns"} => t \in err'
    BY <1>1, <1>6, <1>b, <1>c, Zenon
  <1> QED BY <1>2, <1>3, <1>4, <1>5, <1>6, <1>b, <1>c, NextCases, Zenon

-----------------------------------------------------------------------------
(* Counting *)

\* When an attempt is a user of its port.
Using(s) == ~UsesDNS(s) /\ pc[s] \in {"presented", "unwrap", "delete", "close"}

\* The users of a port, written out ...
LEMMA UsersAre ==
    \A p, port : /\ Users(p, port) = {s \in Attempt : on[s] = p /\ PortOf(s) = port /\ Using(s)}
                 /\ Users(p, port) \in SUBSET Attempt
                 /\ Cardinality(Users(p, port)) \in Nat
  <1> SUFFICES ASSUME NEW p, NEW port
               PROVE  /\ Users(p, port) = {s \in Attempt : on[s] = p /\ PortOf(s) = port /\ Using(s)}
                      /\ Users(p, port) \in SUBSET Attempt
                      /\ Cardinality(Users(p, port)) \in Nat
    BY Zenon
  <1>1. Users(p, port) = {s \in Attempt : on[s] = p /\ PortOf(s) = port /\ Using(s)}
    BY Zenon DEF Users, Using
  <1>2. Users(p, port) \in SUBSET Attempt
    BY Zenon DEF Users
  <1> QED BY <1>1, <1>2, AttemptsFinite, Zenon

\* ... and after a step.
LEMMA UsersAreNext ==
    \A p, port : /\ Users(p, port)' = {s \in Attempt : on'[s] = p /\ PortOf(s) = port /\ Using(s)'}
                 /\ Users(p, port)' \in SUBSET Attempt
                 /\ Cardinality(Users(p, port)') \in Nat
  <1> SUFFICES ASSUME NEW p, NEW port
               PROVE  /\ Users(p, port)' = {s \in Attempt : on'[s] = p /\ PortOf(s) = port /\ Using(s)'}
                      /\ Users(p, port)' \in SUBSET Attempt
                      /\ Cardinality(Users(p, port)') \in Nat
    BY Zenon
  <1>1. Users(p, port)' = {s \in Attempt : on'[s] = p /\ PortOf(s) = port /\ Using(s)'}
    BY Zenon DEF Users, Using, UsesDNS, PortOf
  <1>2. Users(p, port)' \in SUBSET Attempt
    BY Zenon DEF Users
  <1> QED BY <1>1, <1>2, AttemptsFinite, Zenon

\* A step of an attempt makes no other use a port or leave it.
LEMMA OthersUse ==
    ASSUME Types, NEW s \in Attempt, StepOf(s)
    PROVE  \A t \in Attempt : t # s => (Using(t)' <=> Using(t)) /\ on'[t] = on[t]
  BY OthersStay, Zenon DEF Using, UsesDNS, Types

\* Who is a user after a step.
LEMMA Arrives ==
    ASSUME Types, Placed, NEW s \in Attempt,
           Listen(s) \/ (ListenFails(s) /\ Acme(s)),
           NEW p, NEW port
    PROVE  /\ s \notin Users(p, port)
           /\ Users(p, port)' = IF p = on[s] /\ port = PortOf(s) THEN Users(p, port) \cup {s}
                                ELSE Users(p, port)
  <1>1. ~Using(s) /\ Using(s)' /\ on'[s] = on[s]
    BY Moves, Zenon DEF Using, UsesDNS, AfterFailure, Types
  <1>2. \A t \in Attempt : t # s => (Using(t)' <=> Using(t)) /\ on'[t] = on[t]
    BY OthersUse, Zenon DEF StepOf
  <1> QED BY <1>1, <1>2, UsersAre, UsersAreNext, Zenon

\* Closing the server, or failing to delete the token, ends the use of the
\* port.
LEMMA Leaves ==
    ASSUME Types, Placed, NEW s \in Attempt, CloseServer(s) \/ DeleteTokenFails(s), NEW p, NEW port
    PROVE  /\ s \in Users(on[s], PortOf(s))
           /\ Users(p, port)' = IF p = on[s] /\ port = PortOf(s) THEN Users(p, port) \ {s}
                                ELSE Users(p, port)
  <1>1. Using(s) /\ ~Using(s)'
    BY Moves, Zenon DEF Using, UsesDNS, AfterCleanUp, Types
  <1>2. \A t \in Attempt : t # s => (Using(t)' <=> Using(t)) /\ on'[t] = on[t]
    BY OthersUse, Zenon DEF StepOf
  <1> QED BY <1>1, <1>2, UsersAre, UsersAreNext, Zenon

\* The other steps leave the users of every port.
LEMMA UsersSame ==
    ASSUME Types, Placed, NEW s \in Attempt, StepOf(s),
           ~Listen(s), ~(ListenFails(s) /\ Acme(s)), ~CloseServer(s), ~DeleteTokenFails(s),
           ~StoreTokenFails(s),
           NEW p \in Instance, NEW port
    PROVE  Users(p, port)' = Users(p, port)
  <1>1. (Using(s)' <=> Using(s)) /\ (Using(s) => on'[s] = on[s])
    <2> USE DEF Types
    <2>1. UsesDNS(s) <=> UsesDNS(s)'
      BY Zenon DEF UsesDNS
    <2>2. CASE StoreToken(s) \/ GenerateCert(s) \/ ListenFails(s) \/ CreateRecord(s)
      BY <2>1, <2>2, Moves, Zenon DEF Using, AfterFailure
    <2>3. CASE CreateRecordFails(s) \/ Finish(s) \/ Verify(s) \/ Cancel(s) \/ Unwrap(s)
      BY <2>1, <2>3, Moves, Zenon DEF Using, AfterFailure
    <2>4. CASE DeleteToken(s) \/ DeleteRecord(s) \/ DeleteRecordFails(s)
      BY <2>1, <2>4, Moves, Zenon DEF Using, AfterCleanUp
    <2> QED BY <2>2, <2>3, <2>4, Zenon DEF StepOf
  <1>2. \A t \in Attempt : t # s => (Using(t)' <=> Using(t)) /\ on'[t] = on[t]
    BY OthersUse, Zenon
  <1> QED BY <1>1, <1>2, UsersAre, UsersAreNext, Zenon

\* Every step counts the users.
LEMMA CountedStep ==
    ASSUME Types, Placed, Counted, [Next]_vars
    PROVE  Counted'
  <1> USE DEF Types
  <1> SUFFICES ASSUME NEW p \in Instance, NEW port \in Port, "store" \notin faults'
               PROVE  /\ count'[p][port] >= Cardinality(Users(p, port)')
                      /\ faults' \cap {"store", "delete", "zerosslListen"} = {} =>
                            /\ count'[p][port] = Cardinality(Users(p, port)')
                            /\ Users(p, port)' = {} => server'[p][port] = "none"
    BY Zenon DEF Counted
  <1> DEFINE calm == faults' \cap {"store", "delete", "zerosslListen"} = {}
  <1>a. faults \subseteq faults' /\ "store" \notin faults
    BY FaultsGrow, Zenon
  <1>b. /\ count[p][port] >= Cardinality(Users(p, port))
        /\ calm => /\ count[p][port] = Cardinality(Users(p, port))
                   /\ Users(p, port) = {} => server[p][port] = "none"
    BY <1>a, Zenon DEF Counted
  <1>c. count[p][port] \in Int /\ Cardinality(Users(p, port)) \in Nat
    BY UsersAre DEF PortsOK
  <1> DEFINE Goal == /\ count'[p][port] >= Cardinality(Users(p, port)')
                     /\ calm => /\ count'[p][port] = Cardinality(Users(p, port)')
                                /\ Users(p, port)' = {} => server'[p][port] = "none"
  <1>1. ASSUME Users(p, port)' = Users(p, port), count'[p][port] = count[p][port],
               server'[p][port] = server[p][port]
        PROVE  Goal
    BY <1>1, <1>b, Zenon
  <1>2. ASSUME NEW s \in Attempt, StepOf(s) PROVE Goal
    <2>0. on[s] \in Instance /\ PortOf(s) \in Port
      BY <1>2, StepGoes, GotoEffect, PlanFacts DEF Placed, InProgress
    <2> DEFINE here == p = on[s] /\ port = PortOf(s)
    <2>1. CASE Listen(s) \/ (ListenFails(s) /\ Acme(s))
      <3>1. CASE here
        <4>1. Users(p, port)' = Users(p, port) \cup {s} /\ s \notin Users(p, port)
          BY <2>1, <3>1, Arrives, Zenon
        <4>2. Cardinality(Users(p, port)') = Cardinality(Users(p, port)) + 1
          BY <4>1, AddAttempt, UsersAre, Zenon
        <4>3. count'[p][port] = count[p][port] + 1
          BY <2>0, <2>1, <3>1, ListenEffect, Zenon
        <4> QED BY <1>b, <1>c, <4>1, <4>2, <4>3
      <3>2. CASE ~here
        <4>1. Users(p, port)' = Users(p, port)
          BY <2>1, <3>2, Arrives
        <4>2. count'[p][port] = count[p][port] /\ server'[p][port] = server[p][port]
          BY <2>0, <2>1, <3>2, ListenEffect, Zenon
        <4> QED BY <1>1, <4>1, <4>2, Zenon
      <3> QED BY <3>1, <3>2, Zenon
    <2>2. CASE ListenFails(s) /\ ~Acme(s)
      <3>1. "zerosslListen" \in faults'
        BY <2>2, Zenon DEF ListenFails, Fault
      <3>2. Users(p, port)' = Users(p, port)
        <4>1. ~Listen(s) /\ ~CloseServer(s) /\ ~DeleteTokenFails(s) /\ ~StoreTokenFails(s)
          BY <2>2, Moves, Zenon DEF AfterFailure
        <4> QED BY <1>2, <2>2, <4>1, UsersSame, Zenon
      <3>3. count'[p][port] >= count[p][port]
        BY <1>c, <2>0, <2>2, ListenEffect
      <3>4. count'[p][port] \in Int
        BY <2>0, <2>2, ListenEffect DEF PortsOK
      <3> QED BY <1>b, <1>c, <3>1, <3>2, <3>3, <3>4
    <2>3. CASE CloseServer(s)
      <3>1. CASE here
        <4>1. Users(p, port)' = Users(p, port) \ {s} /\ s \in Users(p, port)
          BY <2>3, <3>1, Leaves, Zenon
        <4>2. Cardinality(Users(p, port)') = Cardinality(Users(p, port)) - 1
          BY <4>1, RemoveAttempt, UsersAre, Zenon
        <4>3. /\ count'[p][port] = count[p][port] - 1
              /\ count'[p][port] = 0 => server'[p][port] = "none"
          BY <2>0, <2>3, <3>1, CloseEffect, Zenon
        <4>4. Users(p, port)' = {} => Cardinality(Users(p, port)') = 0
          BY NoAttempts, Zenon
        <4> QED BY <1>b, <1>c, <4>2, <4>3, <4>4
      <3>2. CASE ~here
        <4>1. Users(p, port)' = Users(p, port)
          BY <2>3, <3>2, Leaves
        <4>2. count'[p][port] = count[p][port] /\ server'[p][port] = server[p][port]
          BY <2>0, <2>3, <3>2, CloseEffect, Zenon
        <4> QED BY <1>1, <4>1, <4>2, Zenon
      <3> QED BY <3>1, <3>2, Zenon
    <2>4. CASE DeleteTokenFails(s)
      <3>1. "delete" \in faults'
        BY <2>4, Zenon DEF DeleteTokenFails, Fault
      <3>2. Users(p, port)' \subseteq Users(p, port)
        BY <2>4, Leaves, Zenon
      <3>3. Cardinality(Users(p, port)') <= Cardinality(Users(p, port))
        BY <3>2, MoreAttempts, UsersAre, UsersAreNext, Zenon
      <3>4. count' = count
        BY <2>4, Zenon DEF DeleteTokenFails
      <3>5. Cardinality(Users(p, port)') \in Nat
        BY UsersAreNext, Zenon
      <3> QED BY <1>b, <1>c, <3>1, <3>3, <3>4, <3>5
    <2>5. ~StoreTokenFails(s)
      BY Zenon DEF StoreTokenFails, Fault
    <2>6. CASE ~Listen(s) /\ ~ListenFails(s) /\ ~CloseServer(s) /\ ~DeleteTokenFails(s)
      BY <1>1, <1>2, <2>5, <2>6, UsersSame, PortsSame, Zenon
    <2> QED BY <2>1, <2>2, <2>3, <2>4, <2>6, Zenon
  <1>3. ASSUME NEW s \in Attempt, NEW q \in Instance, Begin(s, q) \/ CreateCertificate(s, q)
        PROVE  Goal
    <2>1. Start(s, q) /\ count' = count /\ server' = server
      BY <1>3, Zenon DEF Begin, CreateCertificate
    <2>2. Users(p, port)' = Users(p, port)
      BY <2>1, StartEffect, UsersAre, UsersAreNext, Zenon DEF Using, UsesDNS
    <2> QED BY <1>1, <2>1, <2>2, Zenon
  <1>4. ASSUME NEW q \in Instance, Crash(q) PROVE Goal
    <2>1. CASE q = p
      <3>1. count'[p][port] = 0 /\ server'[p][port] = "none"
        BY <1>4, <2>1, Zenon DEF Crash, PortsOK
      <3>2. Users(p, port)' = {}
        BY <1>4, <2>1, CrashEffect, UsersAreNext, AppServerAssumption, Zenon DEF Using, InProgress
      <3>3. Cardinality(Users(p, port)') = 0
        BY <3>2, NoAttempts, Zenon
      <3> QED BY <3>1, <3>3
    <2>2. CASE q # p
      <3>1. count'[p][port] = count[p][port] /\ server'[p][port] = server[p][port]
        BY <1>4, <2>2, Zenon DEF Crash, PortsOK
      <3>2. ASSUME NEW t \in Attempt
            PROVE  (on'[t] = p /\ Using(t)') <=> (on[t] = p /\ Using(t))
        BY <1>4, <2>2, <3>2, CrashEffect, AppServerAssumption, Zenon DEF Using, UsesDNS
      <3>3. Users(p, port)' = Users(p, port)
        BY <3>2, UsersAre, UsersAreNext, Zenon
      <3> QED BY <1>1, <3>1, <3>3, Zenon
    <2> QED BY <2>1, <2>2, Zenon
  <1>5. ASSUME UNCHANGED vars PROVE Goal
    <2>1. Users(p, port)' = Users(p, port)
      BY <1>5, Zenon DEF vars, Users, PortOf, UsesDNS
    <2> QED BY <1>1, <1>5, <2>1, Zenon DEF vars
  <1> QED BY <1>2, <1>3, <1>4, <1>5, NextCases, Zenon

\* Every step leaves a server where a challenge is presented.
LEMMA ServedStep ==
    ASSUME Types, Placed, Counted, Served, [Next]_vars
    PROVE  Served'
  <1> USE DEF Types
  <1> DEFINE ServedAt(t) == on[t] \in AppServer \/ server[on[t]][PortOf(t)] # "none"
  <1> SUFFICES ASSUME "store" \notin faults', NEW t \in Attempt, Presented(t)'
               PROVE  on'[t] \in AppServer \/ server'[on'[t]][PortOf(t)] # "none"
    BY Zenon DEF Served, PortOf
  <1>a. "store" \notin faults
    BY FaultsGrow, Zenon
  <1>b. Presented(t) => /\ on[t] \in Instance /\ PortOf(t) \in Port /\ ServedAt(t)
                        /\ t \in Users(on[t], PortOf(t))
    BY <1>a, PlanFacts, Zenon DEF Served, Presented, Placed, InProgress, Users
  <1>1. ASSUME NEW s \in Attempt, StepOf(s)
        PROVE  on'[t] \in AppServer \/ server'[on'[t]][PortOf(t)] # "none"
    <2>0. on[s] \in Instance /\ PortOf(s) \in Port
      BY <1>1, StepGoes, GotoEffect, PlanFacts DEF Placed, InProgress
    <2>1. CASE t = s
      <3>1. ~UsesDNS(s) /\ pc'[s] = "presented"
        BY <2>1, Zenon DEF Presented, UsesDNS
      <3>2. Listen(s)
        BY <1>1, <3>1, Moves, Zenon DEF StepOf, AfterFailure, AfterCleanUp
      <3> QED BY <2>0, <2>1, <3>2, ListenEffect, Moves
    <2>2. CASE t # s
      <3>1. Presented(t) /\ on'[t] = on[t]
        BY <1>1, <2>2, OthersStay, Zenon DEF Presented, UsesDNS
      <3>2. CASE Listen(s) \/ ListenFails(s)
        BY <1>b, <2>0, <3>1, <3>2, ListenEffect, Zenon
      <3>3. CASE CloseServer(s)
        <4>1. CASE on[t] = on[s] /\ PortOf(t) = PortOf(s)
          <5> DEFINE U == Users(on[s], PortOf(s))
          <5>1. s \in U /\ t \in U
            BY <1>b, <3>1, <3>3, <4>1, Leaves, Zenon
          <5>2. U \in SUBSET Attempt /\ Cardinality(U) \in Nat
            BY UsersAre, Zenon
          <5> HIDE DEF U
          <5>3. {s} \cup {t} \subseteq U
            BY <5>1, Zenon
          <5>4. Cardinality({s} \cup {t}) = 2
            <6>1. Cardinality({s}) = 1
              BY FS_Singleton, Zenon
            <6> QED BY <2>2, <6>1, AddAttempt
          <5>5. Cardinality(U) >= 2
            BY <5>2, <5>3, <5>4, MoreAttempts, Zenon
          <5>6. count[on[s]][PortOf(s)] >= Cardinality(U)
            BY <1>a, <2>0, Zenon DEF Counted, U
          <5>7. count[on[s]][PortOf(s)] \in Int
            BY <2>0, Zenon DEF PortsOK
          <5>8. count'[on[s]][PortOf(s)] # 0
            BY <2>0, <3>3, <5>2, <5>5, <5>6, <5>7, CloseEffect
          <5> QED BY <1>b, <2>0, <3>1, <3>3, <4>1, <5>8, CloseEffect
        <4>2. CASE on[t] # on[s] \/ PortOf(t) # PortOf(s)
          BY <1>b, <2>0, <3>1, <3>3, <4>2, CloseEffect, Zenon
        <4> QED BY <4>1, <4>2, Zenon
      <3>4. CASE ~Listen(s) /\ ~ListenFails(s) /\ ~CloseServer(s)
        BY <1>1, <1>b, <3>1, <3>4, PortsSame, Zenon
      <3> QED BY <3>2, <3>3, <3>4, Zenon
    <2> QED BY <2>1, <2>2, Zenon
  <1>2. ASSUME NEW s \in Attempt, NEW p \in Instance, Begin(s, p) \/ CreateCertificate(s, p)
        PROVE  Presented(t) /\ on'[t] = on[t] /\ server' = server
    <2>1. Start(s, p) /\ server' = server
      BY <1>2, Zenon DEF Begin, CreateCertificate
    <2> QED BY <2>1, StartEffect, Zenon DEF Presented, UsesDNS
  <1>3. ASSUME NEW p \in Instance, Crash(p)
        PROVE  on'[t] \in AppServer \/ server'[on'[t]][PortOf(t)] # "none"
    <2>1. Presented(t) /\ on'[t] = on[t] /\ on[t] # p
      BY <1>3, CrashEffect, Zenon DEF Presented, UsesDNS, InProgress
    <2> QED BY <1>3, <1>b, <2>1, Zenon DEF Crash, PortsOK
  <1>4. ASSUME UNCHANGED vars PROVE Presented(t) /\ on'[t] = on[t] /\ server' = server
    BY <1>4, Zenon DEF vars, Presented, UsesDNS
  <1> QED BY <1>1, <1>2, <1>3, <1>4, <1>b, NextCases, Zenon

\* The two sets only grow.
LEMMA MoreArrived ==
    ASSUME Types, Placed, [Next]_vars, NEW port
    PROVE  /\ Arrived(port) \in SUBSET Attempt /\ Departed(port) \in SUBSET Attempt
           /\ Arrived(port)' \in SUBSET Attempt /\ Departed(port)' \in SUBSET Attempt
           /\ Arrived(port) \subseteq Arrived(port)' /\ Departed(port) \subseteq Departed(port)'
  <1> USE DEF Types
  <1>1. ASSUME NEW t \in Attempt
        PROVE  /\ pc[t] \notin {"new", "store", "cert", "listen"} =>
                     (pc'[t] \notin {"new", "store", "cert", "listen"})
               /\ pc[t] \in {"returns", "over"} => pc'[t] \in {"returns", "over"}
    <2>1. ASSUME NEW s \in Attempt, StepOf(s), t # s PROVE pc'[t] = pc[t]
      BY <2>1, OthersStay, Zenon
    <2>2. ASSUME StepOf(t)
          PROVE  /\ pc[t] \notin {"new", "store", "cert", "listen"} =>
                       (pc'[t] \notin {"new", "store", "cert", "listen"})
                 /\ pc[t] \in {"returns", "over"} => pc'[t] \in {"returns", "over"}
      <3>1. CASE StoreToken(t) \/ StoreTokenFails(t) \/ GenerateCert(t) \/ Listen(t) \/ ListenFails(t)
        BY <3>1, Moves, Zenon
      <3>2. CASE CreateRecord(t) \/ CreateRecordFails(t) \/ Finish(t) \/ Verify(t) \/ Cancel(t)
        BY <3>2, Moves, Zenon DEF AfterFailure
      <3>3. CASE \/ Unwrap(t) \/ DeleteToken(t) \/ DeleteTokenFails(t) \/ CloseServer(t)
                 \/ DeleteRecord(t) \/ DeleteRecordFails(t)
        BY <3>3, Moves, Zenon DEF AfterCleanUp
      <3> QED BY <2>2, <3>1, <3>2, <3>3, Zenon DEF StepOf
    <2>3. ASSUME NEW s \in Attempt, NEW p \in Instance, Begin(s, p) \/ CreateCertificate(s, p)
          PROVE  pc'[t] = pc[t] \/ pc[t] = "new"
      <3>1. Start(s, p)
        BY <2>3, Zenon DEF Begin, CreateCertificate
      <3> QED BY <3>1, StartEffect, Zenon
    <2>4. ASSUME NEW p \in Instance, Crash(p) PROVE pc'[t] = pc[t] \/ pc'[t] = "over"
      BY <2>4, CrashEffect, Zenon
    <2> QED BY <2>1, <2>2, <2>3, <2>4, NextCases, Zenon DEF vars
  <1> QED BY <1>1, Zenon DEF Arrived, Departed, UsesDNS, PortOf

\* A count goes up once per attempt that arrives, and down once per one that
\* leaves.
LEMMA CountBoundedStep ==
    ASSUME Types, Placed, CountBounded, [Next]_vars
    PROVE  CountBounded'
  <1> USE DEF Types
  <1> SUFFICES ASSUME NEW p \in Instance, NEW port \in Port
               PROVE  /\ count'[p][port] <= Cardinality(Arrived(port)')
                      /\ count'[p][port] >= - Cardinality(Departed(port)')
    BY Zenon DEF CountBounded
  <1> DEFINE A == Arrived(port)
             D == Departed(port)
             nA == Arrived(port)'
             nD == Departed(port)'
  <1>1. /\ A \in SUBSET Attempt /\ D \in SUBSET Attempt /\ nA \in SUBSET Attempt /\ nD \in SUBSET Attempt
        /\ A \subseteq nA /\ D \subseteq nD
    BY MoreArrived, Zenon
  <1>2. /\ count[p][port] \in Int
        /\ count[p][port] <= Cardinality(A) /\ count[p][port] >= - Cardinality(D)
    BY Zenon DEF CountBounded, PortsOK
  <1> HIDE DEF A, D, nA, nD
  <1>3. /\ Cardinality(A) \in Nat /\ Cardinality(D) \in Nat
        /\ Cardinality(nA) \in Nat /\ Cardinality(nD) \in Nat
        /\ Cardinality(A) <= Cardinality(nA) /\ Cardinality(D) <= Cardinality(nD)
    BY <1>1, AttemptsFinite, MoreAttempts, Zenon
  <1> DEFINE Goal == count'[p][port] <= Cardinality(nA) /\ count'[p][port] >= - Cardinality(nD)
  <1>4. ASSUME count'[p][port] = count[p][port] PROVE Goal
    BY <1>2, <1>3, <1>4
  <1>5. ASSUME NEW s \in Attempt, StepOf(s) PROVE Goal
    <2>0. on[s] \in Instance /\ PortOf(s) \in Port
      BY <1>5, StepGoes, GotoEffect, PlanFacts DEF Placed, InProgress
    <2>1. CASE Listen(s) \/ ListenFails(s)
      <3>1. CASE p = on[s] /\ port = PortOf(s)
        <4>1. s \notin A /\ s \in nA
          BY <2>1, <3>1, Moves, Zenon DEF A, nA, Arrived, UsesDNS, PortOf, AfterFailure
        <4>2. A \cup {s} \subseteq nA /\ A \cup {s} \in SUBSET Attempt
          BY <1>1, <4>1, Zenon
        <4>3. Cardinality(A) + 1 <= Cardinality(nA)
          BY <1>1, <4>1, <4>2, AddAttempt, MoreAttempts, Zenon
        <4>4. count'[p][port] = count[p][port] + 1
          BY <2>0, <2>1, <3>1, ListenEffect, Zenon
        <4> QED BY <1>2, <1>3, <4>3, <4>4
      <3>2. CASE ~(p = on[s] /\ port = PortOf(s))
        BY <1>4, <2>0, <2>1, <3>2, ListenEffect, Zenon
      <3> QED BY <3>1, <3>2, Zenon
    <2>2. CASE CloseServer(s)
      <3>1. CASE p = on[s] /\ port = PortOf(s)
        <4>1. s \notin D /\ s \in nD
          BY <2>2, <3>1, Moves, Zenon DEF D, nD, Departed, UsesDNS, PortOf, AfterCleanUp
        <4>2. D \cup {s} \subseteq nD /\ D \cup {s} \in SUBSET Attempt
          BY <1>1, <4>1, Zenon
        <4>3. Cardinality(D) + 1 <= Cardinality(nD)
          BY <1>1, <4>1, <4>2, AddAttempt, MoreAttempts, Zenon
        <4>4. count'[p][port] = count[p][port] - 1
          BY <2>0, <2>2, <3>1, CloseEffect, Zenon
        <4> QED BY <1>2, <1>3, <4>3, <4>4
      <3>2. CASE ~(p = on[s] /\ port = PortOf(s))
        BY <1>4, <2>0, <2>2, <3>2, CloseEffect, Zenon
      <3> QED BY <3>1, <3>2, Zenon
    <2>3. CASE ~Listen(s) /\ ~ListenFails(s) /\ ~CloseServer(s)
      BY <1>4, <1>5, <2>3, PortsSame, Zenon
    <2> QED BY <2>1, <2>2, <2>3, Zenon
  <1>6. ASSUME NEW s \in Attempt, NEW q \in Instance, Begin(s, q) \/ CreateCertificate(s, q)
        PROVE  count' = count
    BY <1>6, Zenon DEF Begin, CreateCertificate
  <1>7. ASSUME NEW q \in Instance, Crash(q)
        PROVE  count'[p][port] = count[p][port] \/ count'[p][port] = 0
    BY <1>7, Zenon DEF Crash, PortsOK
  <1>8. ASSUME count'[p][port] = 0 PROVE Goal
    BY <1>3, <1>8
  <1>9. Goal
    BY <1>4, <1>5, <1>6, <1>7, <1>8, NextCases, Zenon DEF vars
  <1> QED BY <1>9, Zenon DEF nA, nD

-----------------------------------------------------------------------------
(* The invariant *)

\* The invariant holds at first ...
LEMMA InitIInv == Init => IInv
  <1> SUFFICES ASSUME Init PROVE IInv
    BY Zenon
  <1>1. Types
    <2>1. PlacesOK /\ TokenOK /\ RecordsOK
      BY Zenon DEF Init, PlacesOK, TokenOK, RecordsOK
    <2>2. ActiveOK
      BY Zenon DEF Init, ActiveOK, NoChallenge
    <2>3. PortsOK
      BY DEF Init, PortsOK
    <2> QED BY <2>1, <2>2, <2>3, Zenon DEF Types
  <1>2. Placed /\ OneForName
    BY AppServerAssumption, Zenon DEF Init, Placed, OneForName, InProgress
  <1>3. ActiveOwned
    BY Zenon DEF Init, ActiveOwned, Owned, NoChallenge
  <1>4. TokenOwned /\ RecordsOwned /\ DraftOwned /\ TokenKept
    BY Zenon DEF Init, TokenOwned, RecordsOwned, DraftOwned, TokenKept
  <1>5. \A p, port : Users(p, port) = {}
    BY Zenon DEF Init, Users
  <1>6. Counted
    <2>1. \A p, port : Cardinality(Users(p, port)) = 0
      BY <1>5, NoAttempts, Zenon
    <2>2. \A p \in Instance, port \in Port : count[p][port] = 0 /\ server[p][port] = "none"
      BY Zenon DEF Init
    <2> QED BY <2>1, <2>2 DEF Counted
  <1>7. Served
    BY Zenon DEF Init, Served, Presented
  <1>8. CountBounded
    <2>1. \A port : Cardinality(Arrived(port)) \in Nat /\ Cardinality(Departed(port)) \in Nat
      BY AttemptsFinite, Zenon DEF Arrived, Departed
    <2>2. \A p \in Instance, port \in Port : count[p][port] = 0
      BY Zenon DEF Init
    <2> QED BY <2>1, <2>2 DEF CountBounded
  <1> QED BY <1>1, <1>2, <1>3, <1>4, <1>6, <1>7, <1>8, Zenon DEF IInv

\* ... every step keeps it ...
LEMMA StepIInv == IInv /\ [Next]_vars => IInv'
  BY TypesStep, PlacedStep, OneForNameStep, ActiveOwnedStep, TokenOwnedStep, RecordsOwnedStep,
     DraftOwnedStep, CountedStep, ServedStep, CountBoundedStep, TokenKeptStep DEF IInv

\* ... and so it always holds.
LEMMA ChallengesInvariant == Spec => []IInv
  BY InitIInv, StepIInv, PTL DEF Spec

-----------------------------------------------------------------------------
(* What the invariant says *)

\* A count stays within the number of attempts at its port.
LEMMA CountWithinClients ==
    ASSUME Types, CountBounded, NEW p \in Instance, NEW port \in Port
    PROVE  count[p][port] \in - Clients(port) .. Clients(port)
  <1> DEFINE C == {s \in Attempt : ~UsesDNS(s) /\ PortOf(s) = port}
  <1>1. /\ C \in SUBSET Attempt /\ Arrived(port) \in SUBSET Attempt /\ Departed(port) \in SUBSET Attempt
        /\ Arrived(port) \subseteq C /\ Departed(port) \subseteq C
    BY Zenon DEF Arrived, Departed
  <1>2. Cardinality(C) = Clients(port)
    BY Zenon DEF Clients
  <1> HIDE DEF C
  <1>3. /\ Cardinality(Arrived(port)) <= Cardinality(C) /\ Cardinality(Departed(port)) <= Cardinality(C)
        /\ Cardinality(C) \in Nat /\ Cardinality(Arrived(port)) \in Nat
        /\ Cardinality(Departed(port)) \in Nat
    BY <1>1, MoreAttempts, AttemptsFinite, Zenon
  <1>4. /\ count[p][port] \in Int
        /\ count[p][port] <= Cardinality(Arrived(port))
        /\ count[p][port] >= - Cardinality(Departed(port))
    BY Zenon DEF Types, PortsOK, CountBounded
  <1> QED BY <1>2, <1>3, <1>4

\* The variables have their types; no more attempts are ever counted at a port
\* of an instance, and no more discounted, than there are attempts that use
\* such a port (httpSolver, tlsALPNSolver).
THEOREM ChallengesTypes == Spec => []TypeOK
  <1>1. IInv => TypeOK
    BY CountWithinClients, Zenon
       DEF IInv, Types, TypeOK, PlacesOK, ActiveOK, TokenOK, PortsOK, RecordsOK
  <1> QED BY <1>1, ChallengesInvariant, PTL

\* The server of a port runs as long as somebody is being validated at it, and
\* not longer than it has users (httpSolver, tlsALPNSolver: Present, CleanUp).
THEOREM ChallengesServer == Spec => []ServerWhileUsed
  <1>1. IInv => ServerWhileUsed
    <2> SUFFICES ASSUME IInv PROVE ServerWhileUsed
      BY Zenon
    <2>1. \A s \in Attempt : (Presented(s) /\ "store" \notin faults) =>
             on[s] \in AppServer \/ server[on[s]][PortOf(s)] # "none"
      BY Zenon DEF IInv, Served
    <2>2. ASSUME faults \cap {"store", "delete", "zerosslListen"} = {},
                 NEW p \in Instance, NEW port \in Port, Users(p, port) = {}
          PROVE  count[p][port] = 0 /\ server[p][port] = "none"
      BY <2>2, NoAttempts, Zenon DEF IInv, Counted
    <2> QED BY <2>1, <2>2, Zenon DEF ServerWhileUsed
  <1> QED BY <1>1, ChallengesInvariant, PTL

\* When all attempts are over nothing of them is left, in memory, in storage
\* or in the DNS (CleanUp of the solvers), whichever Present failed.
THEOREM ChallengesNothingLeft == Spec => []NothingLeft
  <1>1. IInv => NothingLeft
    <2> SUFFICES ASSUME IInv, faults \subseteq {"listen", "store", "status", "cancel"},
                        \A s \in Attempt : pc[s] = "over"
                 PROVE  /\ \A p \in Instance, d \in Identifier : active[p][d] = NoChallenge
                        /\ \A i \in Issuer, d \in Identifier : token[i][d] = 0
                        /\ records = {} /\ zone = {}
      BY Zenon DEF NothingLeft
    <2>1. ASSUME NEW p \in Instance, NEW d \in Identifier PROVE active[p][d] = NoChallenge
      <3>1. active[p][d] \in [chal : Attempt \cup {0}, data : Attempt \cup {0}]
        BY Zenon DEF IInv, Types, ActiveOK
      <3>2. Owned(p, d, active[p][d].chal) /\ Owned(p, d, active[p][d].data)
        BY Zenon DEF IInv, ActiveOwned
      <3>3. active[p][d].chal = 0 /\ active[p][d].data = 0
        BY <3>1, <3>2, Zenon DEF Owned, Remembers
      <3> QED BY <3>1, <3>3, Zenon DEF NoChallenge
    <2>2. ASSUME NEW i \in Issuer, NEW d \in Identifier PROVE token[i][d] = 0
      <3>1. token[i][d] \in Attempt \cup {0}
        BY Zenon DEF IInv, Types, TokenOK
      <3>2. token[i][d] # 0 => HasToken(token[i][d]) \/ (i = 0 /\ "zerosslListen" \in faults)
        BY Zenon DEF IInv, TokenOwned
      <3> QED BY <3>1, <3>2, Zenon DEF HasToken
    <2>3. records = {} /\ zone = {}
      <3>1. \A s \in records : s \in Attempt /\ pc[s] # "over"
        BY Zenon DEF IInv, Types, RecordsOK, RecordsOwned
      <3>2. zone \subseteq records
        BY Zenon DEF IInv, RecordsOwned
      <3> QED BY <3>1, <3>2, Zenon
    <2> QED BY <2>1, <2>2, <2>3, Zenon
  <1> QED BY <1>1, ChallengesInvariant, PTL

\* No certificate that was created at ZeroSSL stays a draft when its Issue has
\* returned (the deferred cancellation of ZeroSSLIssuer.Issue).
THEOREM ChallengesNoDraft == Spec => []NoDraftLeft
  <1>1. IInv => NoDraftLeft
    BY Zenon DEF IInv, DraftOwned, NoDraftLeft
  <1> QED BY <1>1, ChallengesInvariant, PTL

-----------------------------------------------------------------------------
(* Answers *)

\* What is in the memory of an instance without an overlap is the attempt's own.
LEMMA OwnInMemory ==
    ASSUME IInv, NEW s \in Attempt, Presented(s), NEW q \in Instance, ~Overlapped(s, q)
    PROVE  /\ active[q][Info[s].identifier].chal \in {0, s}
           /\ active[q][Info[s].identifier].data \in {0, s}
           /\ active[q][Info[s].identifier].data = s => Info[s].kind = "tls"
  <1> DEFINE d == Info[s].identifier
  <1>1. d \in Identifier
    BY PlanFacts, Zenon
  <1>2. ASSUME NEW t \in Attempt, Owned(q, d, t) PROVE t = s
    <2>1. Remembers(t) /\ on[t] = q /\ Info[t].identifier = d
      BY <1>2, PlanFacts, Zenon DEF Owned
    <2>2. InProgress(t) /\ InProgress(s)
      BY <2>1, Zenon DEF Remembers, Presented, InProgress
    <2>3. t # s => Info[t].name # Info[s].name
      BY <2>2, Zenon DEF IInv, OneForName
    <2> QED BY <2>1, <2>3, Zenon DEF Overlapped, Remembers
  <1>3. active[q][d] \in [chal : Attempt \cup {0}, data : Attempt \cup {0}]
    BY <1>1, Zenon DEF IInv, Types, ActiveOK
  <1>4. /\ Owned(q, d, active[q][d].chal) /\ Owned(q, d, active[q][d].data)
        /\ active[q][d].data # 0 => Info[active[q][d].data].kind = "tls"
    BY <1>1, Zenon DEF IInv, ActiveOwned
  <1> QED BY <1>2, <1>3, <1>4, PlanFacts, Zenon

\* What getChallengeInfo finds in storage is the attempt's own.
LEMMA OwnInStorage ==
    ASSUME IInv, WildcardsUseDNS, NEW s \in Attempt, Presented(s), Acme(s),
           IssuerCount = 1 \/ faults \cap {"crash", "delete"} = {}
    PROVE  StoredToken(Info[s].identifier) = s
  <1> DEFINE d == Info[s].identifier
             found == {i \in 1 .. IssuerCount : token[i][d] # 0}
             k == Info[s].issuer
  <1>1. d \in Identifier /\ k \in 1 .. IssuerCount /\ 0 \notin Attempt
    <2>1. k \in 0 .. IssuerCount /\ k # 0 /\ IssuerCount \in Nat
      BY PlanFacts, BoundAssumption, Zenon DEF Issuer
    <2> QED BY <2>1, PlanFacts
  <1>2. token[k][d] = s
    BY Zenon DEF IInv, TokenKept, Presented
  <1>3. found = {k}
    <2>1. k \in found
      BY <1>1, <1>2, Zenon
    <2>2. ASSUME NEW i \in found PROVE i = k
      <3>1. CASE IssuerCount = 1
        BY <1>1, <2>2, <3>1
      <3>2. CASE faults \cap {"crash", "delete"} = {}
        <4>1. i \in Issuer /\ i # 0
          BY <2>2, BoundAssumption DEF Issuer
        <4>2. token[i][d] \in Attempt
          BY <1>1, <2>2, <4>1, Zenon DEF IInv, Types, TokenOK
        <4> PICK u \in Attempt : u = token[i][d]
          BY <4>2, Zenon
        <4>3. Info[u].issuer = i /\ Info[u].identifier = d /\ HasToken(u)
          BY <1>1, <2>2, <3>2, <4>1, Zenon DEF IInv, TokenOwned
        <4>4. InProgress(u) /\ InProgress(s) /\ ~UsesDNS(u) /\ ~UsesDNS(s)
          BY <4>3, Zenon DEF HasToken, InProgress, Presented
        <4>5. u = s
          BY <4>3, <4>4, Zenon DEF IInv, OneForName, WildcardsUseDNS
        <4> QED BY <4>3, <4>5, Zenon
      <3> QED BY <3>1, <3>2, Zenon
    <2> QED BY <2>1, <2>2, Zenon
  <1>4. (CHOOSE i \in found : \A j \in found : i <= j) = k
    <2> HIDE DEF k
    <2>1. k \in Int
      BY <1>1
    <2> QED BY <1>3, <2>1
  <1> HIDE DEF k
  <1> QED BY <1>2, <1>3, <1>4, Zenon DEF StoredToken

\* The token that is found for a challenge that is presented is its own.
LEMMA AnsweredOwn ==
    ASSUME IInv, WildcardsUseDNS, IssuerCount = 1 \/ faults \cap {"crash", "delete"} = {}
    PROVE  Answered
  <1> SUFFICES ASSUME NEW s \in Attempt, Presented(s), NEW q \in Instance, ~Overlapped(s, q)
               PROVE  Answer(q, s) = s
    BY Zenon DEF Answered
  <1> DEFINE d == Info[s].identifier
             a == active[q][d]
  <1>0. d \in Identifier /\ 0 \notin Attempt /\ Info[s].kind \in {"http", "tls", "zerossl"}
    BY PlanFacts, Zenon DEF Presented, Kind
  <1>1. a \in [chal : Attempt \cup {0}, data : Attempt \cup {0}]
    BY <1>0, Zenon DEF IInv, Types, ActiveOK
  <1>2. a.chal \in {0, s} /\ a.data \in {0, s} /\ (a.data = s => Info[s].kind = "tls")
    BY OwnInMemory, Zenon
  <1>3. CASE Info[s].kind = "zerossl"
    <2>1. Info[s].issuer = 0
      BY <1>3, PlanFacts, Zenon
    <2>2. token[Info[s].issuer][d] = s
      BY Zenon DEF IInv, TokenKept, Presented
    <2> QED BY <1>3, <2>1, <2>2, Zenon DEF Answer
  <1>4. CASE Info[s].kind \in {"http", "tls"}
    <2>1. Acme(s)
      BY <1>4, PlanFacts, Zenon
    <2>2. CASE a # NoChallenge
      <3>1. a.chal # 0 \/ a.data # 0
        BY <1>1, <2>2, Zenon DEF NoChallenge
      <3>2. ChallengeInfo(q, d) = a
        BY <2>2, Zenon DEF ChallengeInfo
      <3> HIDE DEF a
      <3> QED BY <1>0, <1>2, <1>4, <3>1, <3>2, Zenon DEF Answer
    <2>3. CASE a = NoChallenge
      <3>1. ChallengeInfo(q, d) = [chal |-> s, data |-> 0]
        BY <2>1, <2>3, OwnInStorage, Zenon DEF ChallengeInfo
      <3> QED BY <1>4, <3>1 DEF Answer
    <2> QED BY <2>2, <2>3, Zenon
  <1> QED BY <1>0, <1>3, <1>4, Zenon

\* Every instance answers a validation request with the key authorization of
\* the challenge presented (HandleHTTPChallenge, getTLSALPNChallengeCert,
\* getChallengeInfo), whatever failed or crashed before, when there is one ACME
\* issuer and the challenge of a wildcard is a DNS record.
THEOREM ChallengesAnswered ==
    ASSUME WildcardsUseDNS, IssuerCount = 1
    PROVE  Spec => []Answered
  <1>1. IInv => Answered
    BY AnsweredOwn, Zenon
  <1> QED BY <1>1, ChallengesInvariant, PTL

\* With any number of issuers it does as long as no token was left in storage
\* by a crash or by a deletion that failed: getChallengeInfo takes the first
\* issuer that has one.
THEOREM ChallengesAnsweredByAnyIssuer ==
    ASSUME WildcardsUseDNS
    PROVE  Spec => [](faults \cap {"crash", "delete"} = {} => Answered)
  <1>1. IInv => (faults \cap {"crash", "delete"} = {} => Answered)
    BY AnsweredOwn, Zenon
  <1> QED BY <1>1, ChallengesInvariant, PTL
=============================================================================
