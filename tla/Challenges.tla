----------------------------- MODULE Challenges -----------------------------
(***************************************************************************)
(* Solving the challenges of the certificate authorities (solvers.go,      *)
(* httphandlers.go, zerosslissuer.go): what solverWrapper, distributed-    *)
(* Solver, httpSolver, tlsALPNSolver and DNS01Solver leave in memory, in   *)
(* storage, on the challenge ports and in the DNS zone from Present to     *)
(* CleanUp, and what a validation request finds at any instance of the     *)
(* cluster.                                                                *)
(*                                                                         *)
(* An attempt is one challenge for one identifier.  It is made under the   *)
(* storage lock of the name of the certificate, so attempts for the same   *)
(* name do not overlap.  An attempt stands for its token and key           *)
(* authorization too; 0 is none.  The ACME library calls CleanUp also when *)
(* Present failed; ZeroSSLIssuer does not.  Its attempts, over HTTP or with *)
(* a CNAME record, are followed through all of Issue: the certificate that *)
(* was created at ZeroSSL is issued in the end, or cancelled on an error.  *)
(***************************************************************************)
EXTENDS Integers, Sequences, FiniteSets

CONSTANTS
    Instance,
    Plan,       \* the attempts: [name, identifier, kind, issuer] each
    IssuerCount,\* the number of ACME issuers; ZeroSSL's prefix is issuer 0
    AppServer,  \* instances whose ports the application itself serves
    FaultKind,  \* the faults that happen, each at most once
    MaxFaults,  \* bound on the faults in a behaviour
    NoInstance

Info == Plan
Attempt == DOMAIN Info
Identifier == {Info[s].identifier : s \in Attempt}
Issuer == 0 .. IssuerCount
Kind == {"http", "tls", "dns", "zerossl", "cname"}
Port == {"http", "tls"}

ASSUME PlanAssumption ==
    /\ Plan \in Seq([name : STRING, identifier : STRING, kind : Kind, issuer : Issuer])
    /\ \A s \in Attempt : Plan[s].kind \in {"zerossl", "cname"} <=> Plan[s].issuer = 0
ASSUME AppServerAssumption == AppServer \subseteq Instance /\ NoInstance \notin Instance
ASSUME BoundAssumption == IssuerCount \in Nat /\ MaxFaults \in Nat
ASSUME FaultAssumption ==
    FaultKind \subseteq {"crash", "listen", "zerosslListen", "store", "delete", "dns", "cname",
                         "status", "cancel"}

VARIABLES
    pc, on,     \* where each attempt is, and on which instance
    active,     \* activeChallenges: a challenge and its pre-made certificate
    token,      \* the challenge tokens in storage, by issuer and identifier
    count,      \* solverInfo.count of each port of an instance
    server,     \* whose handler the listener of solverInfo serves
    records,    \* DNSManager.records: the records remembered
    zone,       \* the records in the DNS
    order,      \* the certificate created at ZeroSSL
    err,        \* the attempts whose Issue, at ZeroSSL, has an error to return
    faults      \* the faults so far (history)

zerossl == <<order, err>>
vars == <<pc, on, active, token, count, server, records, zone, order, err, faults>>

PortOf(s) == IF Info[s].kind = "tls" THEN "tls" ELSE "http"
Acme(s) == Info[s].issuer # 0
UsesDNS(s) == Info[s].kind \in {"dns", "cname"}
NoChallenge == [chal |-> 0, data |-> 0]

\* The attempts that ever use a port.
Clients(port) == Cardinality({s \in Attempt : ~UsesDNS(s) /\ PortOf(s) = port})

\* The types of the variables (activeChallenges, solvers, storage, DNS zone).
TypeOK ==
    /\ pc \in [Attempt -> {"new", "store", "cert", "listen", "record", "presented",
                           "unwrap", "delete", "close", "unrecord", "returns", "over"}]
    /\ on \in [Attempt -> Instance \cup {NoInstance}]
    /\ active \in [Instance -> [Identifier -> [chal : Attempt \cup {0}, data : Attempt \cup {0}]]]
    /\ token \in [Issuer -> [Identifier -> Attempt \cup {0}]]
    /\ count \in [Instance -> [Port -> Int]]
    /\ \A p \in Instance, port \in Port : count[p][port] \in - Clients(port) .. Clients(port)
    /\ server \in [Instance -> [Port -> Kind \cup {"none"}]]
    /\ records \subseteq Attempt
    /\ zone \subseteq Attempt
    /\ order \in [Attempt -> {"none", "draft", "issued", "cancelled"}]
    /\ err \subseteq Attempt
    /\ faults \subseteq FaultKind

Init ==
    /\ pc = [s \in Attempt |-> "new"]
    /\ on = [s \in Attempt |-> NoInstance]
    /\ active = [p \in Instance |-> [d \in Identifier |-> NoChallenge]]
    /\ token = [i \in Issuer |-> [d \in Identifier |-> 0]]
    /\ count = [p \in Instance |-> [port \in Port |-> 0]]
    /\ server = [p \in Instance |-> [port \in Port |-> "none"]]
    /\ records = {} /\ zone = {}
    /\ order = [s \in Attempt |-> "none"] /\ err = {}
    /\ faults = {}

\* An attempt that is over is on no instance.
Goto(s, from, to) ==
    /\ pc[s] = from
    /\ pc' = [pc EXCEPT ![s] = to]
    /\ on' = [on EXCEPT ![s] = IF to = "over" THEN NoInstance ELSE @]

Fault(kind) ==
    /\ kind \in FaultKind \ faults
    /\ Cardinality(faults) < MaxFaults
    /\ faults' = faults \cup {kind}

InProgress(s) == pc[s] \notin {"new", "over"}

\* Mutant of AfterFailure: ZeroSSLIssuer.Issue cancels nothing.
AfterFailureOver(s) == IF Acme(s) THEN "unwrap" ELSE "over"

\* Where an attempt goes on after Present returned an error ...
AfterFailure(s) == IF Acme(s) THEN "unwrap" ELSE "returns"

\* ... and after CleanUp.
AfterCleanUp(s) == IF Acme(s) THEN "over" ELSE "returns"

\* The error is that of ZeroSSLIssuer.Issue.
Err(s) == err' = IF Acme(s) THEN err ELSE err \cup {s}

-----------------------------------------------------------------------------
(* Present *)

\* The lock of the certificate's name is held.
Free(s) == \A t \in Attempt : Info[t].name = Info[s].name => ~InProgress(t)

Start(s, p) ==
    /\ pc[s] = "new" /\ Free(s)
    /\ pc' = [pc EXCEPT ![s] = IF UsesDNS(s) THEN "record" ELSE "store"]
    /\ on' = [on EXCEPT ![s] = p]

\* An instance starts the attempt; solverWrapper.Present remembers the
\* challenge in this process.
Begin(s, p) ==
    /\ Acme(s)
    /\ Start(s, p)
    /\ active' = [active EXCEPT ![p][Info[s].identifier] = [chal |-> s, data |-> 0]]
    /\ UNCHANGED <<token, count, server, records, zone, zerossl, faults>>

\* ZeroSSLIssuer.Issue creates a certificate, which gives it what to present.
CreateCertificate(s, p) ==
    /\ ~Acme(s)
    /\ Start(s, p)
    /\ order' = [order EXCEPT ![s] = "draft"]
    /\ UNCHANGED <<active, token, count, server, records, zone, err, faults>>

\* distributedSolver.Present stores the challenge ...
StoreToken(s) ==
    /\ Goto(s, "store", IF Info[s].kind = "tls" THEN "cert" ELSE "listen")
    /\ token' = [token EXCEPT ![Info[s].issuer][Info[s].identifier] = s]
    /\ UNCHANGED <<active, count, server, records, zone, zerossl, faults>>

\* ... or fails to, and does not call the embedded solver.
StoreTokenFails(s) ==
    /\ Fault("store")
    /\ Goto(s, "store", AfterFailure(s)) /\ Err(s)
    /\ UNCHANGED <<active, token, count, server, records, zone, order>>

\* tlsALPNSolver.Present adds the certificate to the remembered challenge.
GenerateCert(s) ==
    /\ Goto(s, "cert", "listen")
    /\ active' = [active EXCEPT ![on[s]][Info[s].identifier].data = s]
    /\ UNCHANGED <<token, count, server, records, zone, zerossl, faults>>

\* robustTryListen: somebody else listens on the ports of the instance, and
\* is assumed to answer.
TakenByOthers(p) == p \in AppServer

\* httpSolver.Present and the rest of tlsALPNSolver.Present: the attempt is
\* counted, and a server started unless one is running or the port is taken.
Listen(s) ==
    LET p == on[s]  port == PortOf(s) IN
    /\ Goto(s, "listen", "presented")
    /\ count' = [count EXCEPT ![p][port] = @ + 1]
    /\ server' = IF server[p][port] = "none" /\ ~TakenByOthers(p)
                    THEN [server EXCEPT ![p][port] = Info[s].kind]
                    ELSE server
    /\ UNCHANGED <<active, token, records, zone, zerossl, faults>>

\* The port can neither be bound nor connected to.
ListenFails(s) ==
    LET p == on[s]  port == PortOf(s) IN
    /\ Fault(IF Acme(s) THEN "listen" ELSE "zerosslListen")
    /\ Goto(s, "listen", AfterFailure(s)) /\ Err(s)
    /\ server[p][port] = "none" /\ ~TakenByOthers(p)
    /\ count' = [count EXCEPT ![p][port] = @ + 1]
    /\ UNCHANGED <<active, token, server, records, zone, order>>

\* DNS01Solver.Present creates the record and remembers it, and so does
\* ZeroSSLIssuer.Issue with its CNAME record.
CreateRecord(s) ==
    /\ Goto(s, "record", "presented")
    /\ zone' = zone \cup {s}
    /\ records' = records \cup {s}
    /\ UNCHANGED <<active, token, count, server, zerossl, faults>>

\* Creating it fails.  ZeroSSLIssuer.Issue has the error in a variable of its
\* own, so it is returned, and the certificate not cancelled.
CreateRecordFails(s) ==
    /\ Fault(Info[s].kind)
    /\ Goto(s, "record", AfterFailure(s))
    /\ UNCHANGED <<active, token, count, server, records, zone, zerossl>>

\* The authority has validated the identifier, or waiting or validating
\* failed: either way what is next is CleanUp.
Finish(s) ==
    /\ Acme(s)
    /\ Goto(s, "presented", "unwrap")
    /\ UNCHANGED <<active, token, count, server, records, zone, zerossl, faults>>

\* The rest of ZeroSSLIssuer.Issue: the identifiers are verified and the
\* certificate, once issued, is downloaded; a status that is neither pending
\* nor issued is an error made on the spot.
Verify(s) ==
    /\ ~Acme(s)
    /\ Goto(s, "presented", IF UsesDNS(s) THEN "unrecord" ELSE "delete")
    /\ \/ order' = [order EXCEPT ![s] = "issued"] /\ UNCHANGED <<err, faults>>
       \/ order' = [order EXCEPT ![s] = "issued"] /\ Err(s) /\ UNCHANGED faults
       \/ Err(s) /\ UNCHANGED <<order, faults>>
       \/ Fault("status") /\ UNCHANGED zerossl
    /\ UNCHANGED <<active, token, count, server, records, zone>>

-----------------------------------------------------------------------------
(* CleanUp *)

\* Mutant of Unwrap: the challenge stays in memory.
KeepActive(s) ==
    /\ Goto(s, "unwrap", IF UsesDNS(s) THEN "unrecord" ELSE "delete")
    /\ UNCHANGED <<active, token, count, server, records, zone, zerossl, faults>>

\* solverWrapper.CleanUp forgets the challenge.
Unwrap(s) ==
    /\ Goto(s, "unwrap", IF UsesDNS(s) THEN "unrecord" ELSE "delete")
    /\ active' = [active EXCEPT ![on[s]][Info[s].identifier] = NoChallenge]
    /\ UNCHANGED <<token, count, server, records, zone, zerossl, faults>>

\* distributedSolver.CleanUp deletes the token ...
DeleteToken(s) ==
    /\ Goto(s, "delete", "close")
    /\ token' = [token EXCEPT ![Info[s].issuer][Info[s].identifier] = 0]
    /\ UNCHANGED <<active, count, server, records, zone, zerossl, faults>>

\* ... or fails to, and returns without calling the embedded solver.
DeleteTokenFails(s) ==
    /\ Fault("delete")
    /\ Goto(s, "delete", AfterCleanUp(s))
    /\ UNCHANGED <<active, token, count, server, records, zone, zerossl>>

\* Mutant of CloseServer: the test comes before the decrement.
CloseTooLate(s) ==
    LET p == on[s]  port == PortOf(s) IN
    /\ Goto(s, "close", AfterCleanUp(s))
    /\ count' = [count EXCEPT ![p][port] = @ - 1]
    /\ server' = [server EXCEPT ![p][port] = IF count[p][port] = 0 THEN "none" ELSE @]
    /\ UNCHANGED <<active, token, records, zone, zerossl, faults>>

\* CleanUp of the embedded solver: "last one out turns off the lights".
CloseServer(s) ==
    LET p == on[s]  port == PortOf(s) IN
    /\ Goto(s, "close", AfterCleanUp(s))
    /\ count' = [count EXCEPT ![p][port] = @ - 1]
    /\ server' = [server EXCEPT ![p][port] = IF count'[p][port] = 0 THEN "none" ELSE @]
    /\ UNCHANGED <<active, token, records, zone, zerossl, faults>>

\* Mutant of DeleteRecord: a record that was created is not looked up.
LoseRecord(s) ==
    /\ Goto(s, "unrecord", AfterCleanUp(s))
    /\ records' = records \ {s}
    /\ UNCHANGED <<active, token, count, server, zone, zerossl, faults>>

\* DNS01Solver.CleanUp deletes the record it remembers, if it does, and
\* forgets it in any case.
DeleteRecord(s) ==
    /\ Goto(s, "unrecord", AfterCleanUp(s))
    /\ records' = records \ {s}
    /\ zone' = zone \ (records \cap {s})
    /\ UNCHANGED <<active, token, count, server, zerossl, faults>>

DeleteRecordFails(s) ==
    /\ Fault(Info[s].kind)
    /\ s \in records
    /\ Goto(s, "unrecord", AfterCleanUp(s))
    /\ records' = records \ {s}
    /\ UNCHANGED <<active, token, count, server, zone, zerossl>>

\* The deferred function of ZeroSSLIssuer.Issue runs after CleanUp: on an
\* error the certificate is cancelled, if that works.
Cancel(s) ==
    /\ Goto(s, "returns", "over")
    /\ \/ /\ order' = IF s \in err THEN [order EXCEPT ![s] = "cancelled"] ELSE order
          /\ UNCHANGED faults
       \/ /\ s \in err
          /\ Fault("cancel")
          /\ UNCHANGED order
    /\ err' = err \ {s}
    /\ UNCHANGED <<active, token, count, server, records, zone>>

-----------------------------------------------------------------------------

\* An instance is killed and started again: what it had in memory is gone.
Crash(p) ==
    LET lost == {s \in Attempt : on[s] = p /\ InProgress(s)} IN
    /\ Fault("crash")
    /\ lost # {}
    /\ pc' = [s \in Attempt |-> IF s \in lost THEN "over" ELSE pc[s]]
    /\ on' = [s \in Attempt |-> IF s \in lost THEN NoInstance ELSE on[s]]
    /\ active' = [active EXCEPT ![p] = [d \in Identifier |-> NoChallenge]]
    /\ count' = [count EXCEPT ![p] = [port \in Port |-> 0]]
    /\ server' = [server EXCEPT ![p] = [port \in Port |-> "none"]]
    /\ records' = records \ lost
    /\ err' = err \ lost
    /\ UNCHANGED <<token, zone, order>>

Done == (\A s \in Attempt : pc[s] = "over") /\ UNCHANGED vars

Next ==
    \/ \E s \in Attempt :
          \/ \E p \in Instance : Begin(s, p) \/ CreateCertificate(s, p)
          \/ StoreToken(s) \/ StoreTokenFails(s) \/ GenerateCert(s)
          \/ Listen(s) \/ ListenFails(s) \/ CreateRecord(s) \/ CreateRecordFails(s)
          \/ Finish(s) \/ Verify(s) \/ Cancel(s) \/ Unwrap(s) \/ DeleteToken(s) \/ DeleteTokenFails(s)
          \/ CloseServer(s) \/ DeleteRecord(s) \/ DeleteRecordFails(s)
    \/ \E p \in Instance : Crash(p)
    \/ Done

Spec == Init /\ [][Next]_vars

-----------------------------------------------------------------------------
(* What a validation request finds *)

\* The token getChallengeInfo finds in storage: that of the first issuer in
\* the configuration that has one.
StoredToken(d) ==
    LET found == {i \in 1 .. IssuerCount : token[i][d] # 0} IN
    IF found = {} THEN 0 ELSE token[CHOOSE i \in found : \A j \in found : i <= j][d]

\* getChallengeInfo: the memory of this process comes before storage.
ChallengeInfo(q, d) ==
    IF active[q][d] # NoChallenge THEN active[q][d]
                                  ELSE [chal |-> StoredToken(d), data |-> 0]

\* Whose key authorization instance q answers with when it gets the
\* validation request of attempt s.
Answer(q, s) ==
    LET info == ChallengeInfo(q, Info[s].identifier) IN
    CASE Info[s].kind = "http" -> info.chal
      [] Info[s].kind = "tls" -> IF info.data # 0 THEN info.data ELSE info.chal
      [] OTHER -> token[0][Info[s].identifier]

Presented(s) == pc[s] = "presented" /\ ~UsesDNS(s)

\* The port for s is served, at q, by a handler for challenges of its kind.
Handles(q, s) == q \in AppServer \/ server[q][PortOf(s)] = Info[s].kind

-----------------------------------------------------------------------------
(* Properties *)

\* The challenge of another certificate for the same identifier, a wildcard
\* certificate's for one, is remembered in the memory of instance q.
Overlapped(s, q) ==
    \E t \in Attempt :
        /\ t # s /\ Info[t].identifier = Info[s].identifier /\ Info[t].name # Info[s].name
        /\ Acme(t) /\ on[t] = q
        /\ pc[t] \in {"store", "cert", "listen", "record", "presented", "unwrap"}

\* HandleHTTPChallenge's comment: it solves the challenges "initiated by this
\* instance or any other instance in this cluster".  While a challenge is
\* presented, every instance that handles its kind answers the authority's
\* request with its key authorization and with no other one: not with one
\* left in memory or in storage by an earlier attempt, a crashed instance or
\* a concurrent attempt for another certificate.  (The exception is an instance
\* that has at that moment a challenge for the same identifier in memory for
\* another certificate, which the comment on activeChallenges rules out; as
\* soon as that one is cleaned up, the answer is right again.)
Answered ==
    \A s \in Attempt : Presented(s) =>
        \A q \in Instance : (Handles(q, s) /\ ~Overlapped(s, q)) => Answer(q, s) = s

\* The attempts that a listener of an instance is there for.
Users(p, port) ==
    {s \in Attempt : /\ on[s] = p /\ PortOf(s) = port /\ ~UsesDNS(s)
                     /\ pc[s] \in {"presented", "unwrap", "delete", "close"}}

\* httpSolver's comment: "the first one to begin will start the server, and
\* the last one to finish will stop the server".  Nobody who is done stops
\* the server that another attempt is being validated at, unless a token could
\* not be stored; and a server has users, and they are the ones counted, so the
\* last one does stop it and gives the port back.  Crashes and ports that
\* cannot be bound for an ACME challenge do not upset the count.
ServerWhileUsed ==
    /\ \A s \in Attempt : (Presented(s) /\ "store" \notin faults) =>
          on[s] \in AppServer \/ server[on[s]][PortOf(s)] # "none"
    /\ faults \cap {"store", "delete", "zerosslListen"} = {} =>
          \A p \in Instance, port \in Port :
             Users(p, port) = {} => count[p][port] = 0 /\ server[p][port] = "none"

\* "Cleanup must always occur": when all attempts are over, no trace of them is
\* left, in memory, in storage or in the DNS, although presenting a challenge
\* has failed at any point, as long as what is to be deleted can be.
NothingLeft ==
    (faults \subseteq {"listen", "store", "status", "cancel"} /\ \A s \in Attempt : pc[s] = "over") =>
        /\ \A p \in Instance, d \in Identifier : active[p][d] = NoChallenge
        /\ \A i \in Issuer, d \in Identifier : token[i][d] = 0
        /\ records = {} /\ zone = {}

\* "canceled certificate": an Issue that has returned leaves no draft at
\* ZeroSSL, whichever step failed, unless it could not be cancelled, its
\* instance was killed, or the error is one of the two that the deferred
\* function does not see: of creating the CNAME record, and of the status.
NoDraftLeft ==
    faults \cap {"crash", "cname", "status", "cancel"} = {} =>
        \A s \in Attempt : pc[s] = "over" => order[s] # "draft"
=============================================================================
