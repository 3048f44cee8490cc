--------------------------- MODULE HandshakeProof ---------------------------
(***************************************************************************)
(* Proofs about Handshake for any number of concurrent handshakes, every   *)
(* configuration and environment and any number of certificates.           *)
(*                                                                         *)
(* The invariant has four parts.  TInv is the types.  Owners ties the work *)
(* on a certificate to the map obtainCertWaitChans: who works has the call *)
(* that registered the channel on its stack, once, and is the goroutine    *)
(* the map names, so two never work.  Permitted follows the permission     *)
(* from the decision to the places that need it.  FoundKept lists the      *)
(* shapes the stack of a handshake that found a certificate can have: the  *)
(* frame of optionalMaintenance with that certificate is at the bottom,    *)
(* and what is above it returns an error, for which the frame serves the   *)
(* certificate it has, or another certificate.                             *)
(***************************************************************************)
EXTENDS Handshake, SequenceTheorems, TLAPS

\* The parts of TypeOK.  The goroutine in the background only renews.
WorldOK ==
    /\ cache \subseteq Version /\ stored \in 0 .. issued
    /\ issued \in 0 .. MaxIssued /\ due \in 0 .. issued /\ expired \in 0 .. due
    /\ allowed \in BOOLEAN
ChansOK == loadChan \in Client \cup {Nobody} /\ obtainChan \in Goroutine \cup {Nobody}
PlacesOK ==
    /\ pc \in [Goroutine -> Place]
    /\ pc[Background] \in {"idle", "renewCheck", "renewing", "reload", "return", "done"}
LocalsOK ==
    /\ full \in [Goroutine -> BOOLEAN] /\ asked \in [Goroutine -> BOOLEAN]
    /\ cert \in [Goroutine -> 0 .. MaxIssued] /\ found \in [Goroutine -> 0 .. MaxIssued]
StacksOK == stack \in [Goroutine -> Seq(Frame)]
ResultsOK == res \in [Goroutine -> Result]

TInv == WorldOK /\ ChansOK /\ PlacesOK /\ LocalsOK /\ StacksOK /\ ResultsOK

\* There is a call of the owner of obtainCertWaitChans[name] on the stack s,
\* and not two of them.
Owning(s) == \E i \in DOMAIN s : s[i].call = "owner"
OwningOnce(s) ==
    \A i, k \in DOMAIN s : s[i].call = "owner" /\ s[k].call = "owner" => i = k

\* Who works on the certificate, or has returned from that and not closed the
\* channel yet, is the one the map says.
Owners ==
    \A g \in Goroutine :
        /\ Owning(stack[g]) => obtainChan = g
        /\ OwningOnce(stack[g])
        /\ pc[g] \in Working => Owning(stack[g])

\* Whoever gets to obtain or renew has been allowed to, or found a certificate.
Unasked(g) == OnDemand /\ found[g] = 0
Asking == {"load", "loadObtained", "maintain", "obtain", "obtaining", "renewing"}
Permitted == \A g \in Goroutine : Unasked(g) /\ pc[g] \in Asking => asked[g]

\* The calls of a handshake that found a certificate in the cache.
Optional(g) == [call |-> "optional", cert |-> found[g]]
Call(name) == [call |-> name, cert |-> 0]

\* The certificate in storage is not due for renewal.
StoredIsNew == stored = 0 \/ stored > due

\* The result at hand is an error or a certificate.
Definite(g) == res[g].err \/ res[g].cert # 0
Served(g) == ~Expired(found[g]) => ~res[g].err /\ res[g].cert # 0

\* optionalMaintenance has been called and is at work or waits ...
InOptional(g) ==
    /\ stack[g] = <<Optional(g)>>
    /\ \/ pc[g] \in {"maintain", "renew"} /\ cert[g] # 0
       \/ pc[g] = "obtain" /\ StoredIsNew
       \/ pc[g] = "waitObtain"
       \/ pc[g] \in {"lookup", "enter", "waitLoad"} /\ ~full[g]
       \/ pc[g] = "return" /\ Definite(g)

\* ... has waited and called getCertDuringHandshake again ...
InGetCert(g) ==
    /\ stack[g] = <<Call("getCert"), Optional(g)>>
    /\ ~full[g]
    /\ \/ pc[g] \in {"manager", "decide"}
       \/ pc[g] = "return" /\ Definite(g)

\* ... obtains or renews the certificate ...
InOwner(g) ==
    /\ stack[g] = <<Call("owner"), Optional(g)>>
    /\ \/ pc[g] \in {"obtaining", "loadObtained"} /\ StoredIsNew
       \/ pc[g] \in {"renewCheck", "renewing", "reload"}
       \/ pc[g] = "return" /\ Definite(g)

\* ... or loads the one it has obtained.
InLoad(g) ==
    /\ stack[g] = <<Call("load"), Call("owner"), Optional(g)>>
    /\ \/ pc[g] = "maintain" /\ cert[g] > due
       \/ pc[g] = "return" /\ ~res[g].err /\ res[g].cert # 0

\* A handshake that found a certificate keeps it at hand until it is served.
Shape(g) ==
    \/ stack[g] = <<>> /\ pc[g] \in {"return", "done"} /\ Served(g)
    \/ InOptional(g) \/ InGetCert(g) \/ InOwner(g) \/ InLoad(g)

Kept(g) ==
    /\ pc[g] \in {"idle", "done"} => stack[g] = <<>>
    /\ pc[g] = "idle" => found[g] = 0
    /\ pc[g] = "lookup" /\ full[g] => found[g] = 0 /\ stack[g] = <<>>
    /\ found[g] # 0 => Shape(g)

FoundKept == \A g \in Client : Kept(g)

-----------------------------------------------------------------------------
(* Stacks *)

\* A frame put on a stack comes first, and the others move down by one.
LEMMA Pushed ==
  ASSUME NEW s \in Seq(Frame), NEW f \in Frame
  PROVE  /\ <<f>> \o s \in Seq(Frame)
         /\ Len(s) \in Nat /\ DOMAIN s = 1 .. Len(s)
         /\ DOMAIN (<<f>> \o s) = 1 .. Len(s) + 1
         /\ (<<f>> \o s)[1] = f
         /\ \A i \in 1 .. Len(s) : (<<f>> \o s)[i + 1] = s[i]
<1>1. <<f>> \in Seq(Frame) /\ Len(<<f>>) = 1 /\ <<f>>[1] = f
  OBVIOUS
<1>2. /\ <<f>> \o s \in Seq(Frame)
      /\ Len(<<f>> \o s) = Len(<<f>>) + Len(s)
      /\ \A i \in 1 .. Len(<<f>>) + Len(s) :
            (<<f>> \o s)[i] = IF i <= Len(<<f>>) THEN <<f>>[i] ELSE s[i - Len(<<f>>)]
  BY <1>1, ConcatProperties, Zenon
<1>3. Len(s) \in Nat /\ DOMAIN s = 1 .. Len(s) /\ DOMAIN (<<f>> \o s) = 1 .. Len(<<f>> \o s)
  BY <1>2, LenProperties, Zenon
<1> QED
  BY <1>1, <1>2, <1>3

\* A frame taken off a stack leaves the others, moved up by one.
LEMMA Popped ==
  ASSUME NEW s \in Seq(Frame), s # <<>>
  PROVE  /\ Tail(s) \in Seq(Frame)
         /\ Len(s) \in Nat \ {0} /\ DOMAIN s = 1 .. Len(s)
         /\ DOMAIN Tail(s) = 1 .. Len(s) - 1
         /\ s[1] \in Frame
         /\ \A i \in 1 .. Len(s) - 1 : Tail(s)[i] = s[i + 1]
<1>1. Tail(s) \in Seq(Frame) /\ Len(Tail(s)) = Len(s) - 1
      /\ \A i \in 1 .. Len(Tail(s)) : Tail(s)[i] = s[i + 1]
  BY HeadTailProperties, Zenon
<1>2. Len(s) \in Nat \ {0} /\ DOMAIN s = 1 .. Len(s) /\ s \in [1 .. Len(s) -> Frame]
      /\ DOMAIN Tail(s) = 1 .. Len(Tail(s))
  BY <1>1, EmptySeq, LenProperties, Zenon
<1> QED
  BY <1>1, <1>2

\* What pushing and popping does to the call of the owner.
LEMMA PushOther ==
  ASSUME NEW s \in Seq(Frame), NEW f \in Frame, f.call # "owner"
  PROVE  /\ Owning(<<f>> \o s) <=> Owning(s)
         /\ OwningOnce(s) => OwningOnce(<<f>> \o s)
<1> DEFINE t == <<f>> \o s
<1>1. \A i \in DOMAIN t : (i - 1 \in DOMAIN s /\ t[i] = s[i - 1]) \/ t[i] = f
  BY Pushed
<1>2. \A i \in DOMAIN s : i + 1 \in DOMAIN t /\ t[i + 1] = s[i]
  BY Pushed
<1>3. \A i \in DOMAIN t : i \in Int
  BY Pushed
<1> HIDE DEF t
<1>4. Owning(t) <=> Owning(s)
  BY <1>1, <1>2, Zenon DEF Owning
<1>5. OwningOnce(s) => OwningOnce(t)
  <2> SUFFICES ASSUME OwningOnce(s), NEW i \in DOMAIN t, NEW k \in DOMAIN t,
                      t[i].call = "owner", t[k].call = "owner"
               PROVE  i = k
    BY Zenon DEF OwningOnce
  <2>1. i - 1 \in DOMAIN s /\ s[i - 1].call = "owner" /\ k - 1 \in DOMAIN s /\ s[k - 1].call = "owner"
    BY <1>1, Zenon
  <2>2. i - 1 = k - 1
    BY <2>1, Zenon DEF OwningOnce
  <2> QED
    BY <1>3, <2>2
<1> QED
  BY <1>4, <1>5, Zenon DEF t

\* A goroutine that registers its channel becomes an owner, once.
LEMMA PushOwner ==
  ASSUME NEW s \in Seq(Frame), NEW f \in Frame, f.call = "owner", ~Owning(s)
  PROVE  Owning(<<f>> \o s) /\ OwningOnce(<<f>> \o s)
<1> DEFINE t == <<f>> \o s
<1>1. \A i \in DOMAIN t : (i - 1 \in DOMAIN s /\ t[i] = s[i - 1]) \/ i = 1
  BY Pushed
<1>2. 1 \in DOMAIN t /\ t[1] = f
  BY Pushed
<1> HIDE DEF t
<1>3. \A i \in DOMAIN t : t[i].call = "owner" => i = 1
  BY <1>1, Zenon DEF Owning
<1>4. Owning(t) /\ OwningOnce(t)
  BY <1>2, <1>3, Zenon DEF Owning, OwningOnce
<1> QED
  BY <1>4, Zenon DEF t

\* Only taking off the frame of the owner ends the ownership.
LEMMA PopOther ==
  ASSUME NEW s \in Seq(Frame), s # <<>>
  PROVE  /\ Owning(Tail(s)) => Owning(s)
         /\ s[1].call # "owner" /\ Owning(s) => Owning(Tail(s))
         /\ OwningOnce(s) => OwningOnce(Tail(s))
         /\ s[1].call = "owner" /\ OwningOnce(s) => ~Owning(Tail(s))
<1> DEFINE t == Tail(s)
<1>1. \A i \in DOMAIN t : i \in Int /\ i + 1 # 1 /\ i + 1 \in DOMAIN s /\ t[i] = s[i + 1]
  BY Popped
<1>2. \A i \in DOMAIN s : i = 1 \/ (i - 1 \in DOMAIN t /\ s[i] = t[i - 1])
  BY Popped
<1>3. 1 \in DOMAIN s
  BY Popped
<1> HIDE DEF t
<1>4. Owning(t) => Owning(s)
  BY <1>1, Zenon DEF Owning
<1>5. s[1].call # "owner" /\ Owning(s) => Owning(t)
  BY <1>2, Zenon DEF Owning
<1>6. OwningOnce(s) => OwningOnce(t)
  <2> SUFFICES ASSUME OwningOnce(s), NEW i \in DOMAIN t, NEW k \in DOMAIN t,
                      t[i].call = "owner", t[k].call = "owner"
               PROVE  i = k
    BY Zenon DEF OwningOnce
  <2>1. i + 1 = k + 1
    BY <1>1, Zenon DEF OwningOnce
  <2> QED
    BY <1>1, <2>1
<1>7. s[1].call = "owner" /\ OwningOnce(s) => ~Owning(t)
  BY <1>1, <1>3, Zenon DEF Owning, OwningOnce
<1> QED
  BY <1>4, <1>5, <1>6, <1>7, Zenon DEF t

-----------------------------------------------------------------------------
(* Types *)

\* What does not change keeps its type.
LEMMA Unchanged ==
  ASSUME TInv
  PROVE  /\ UNCHANGED world => WorldOK'
         /\ UNCHANGED chans => ChansOK'
         /\ UNCHANGED pc => PlacesOK'
         /\ UNCHANGED <<full, cert, asked, found>> => LocalsOK'
         /\ UNCHANGED stack => StacksOK'
         /\ UNCHANGED res => ResultsOK'
<1>1. UNCHANGED world => WorldOK'
  BY Zenon DEF TInv, WorldOK, world
<1>2. UNCHANGED chans => ChansOK'
  BY Zenon DEF TInv, ChansOK, chans
<1>3. UNCHANGED pc => PlacesOK'
  BY Zenon DEF TInv, PlacesOK
<1>4. UNCHANGED <<full, cert, asked, found>> => LocalsOK'
  BY Zenon DEF TInv, LocalsOK
<1>5. UNCHANGED stack => StacksOK'
  BY Zenon DEF TInv, StacksOK
<1>6. UNCHANGED res => ResultsOK'
  BY Zenon DEF TInv, ResultsOK
<1> QED
  BY <1>1, <1>2, <1>3, <1>4, <1>5, <1>6, Zenon

\* A goroutine goes to another place, returns, calls or returns from a call.
LEMMA GotoType ==
  ASSUME TInv, NEW g \in Goroutine, NEW to \in Place, Goto(g, to),
         g = Background => to \in {"renewCheck", "renewing", "reload", "return", "done", "idle"}
  PROVE  PlacesOK'
BY DEF TInv, PlacesOK, Goto

\* A return leaves the types.
LEMMA ReturnType ==
  ASSUME TInv, NEW g \in Goroutine, NEW c \in {External, 0} \cup Version, NEW e \in BOOLEAN,
         Return(g, c, e)
  PROVE  PlacesOK' /\ ResultsOK'
<1>1. [cert |-> c, err |-> e] \in Result
  BY Zenon DEF Result
<1>2. ResultsOK'
  BY <1>1, Zenon DEF TInv, ResultsOK, Return
<1>3. PlacesOK'
  BY GotoType, Zenon DEF Return, Place
<1> QED
  BY <1>2, <1>3, Zenon

\* A call of one of the known functions leaves the stacks stacks of frames.
LEMMA PushType ==
  ASSUME TInv, NEW g \in Goroutine, NEW call \in {"optional", "load", "owner", "getCert"},
         NEW c \in 0 .. MaxIssued, Push(g, call, c)
  PROVE  StacksOK'
<1>1. [call |-> call, cert |-> c] \in Frame
  BY Zenon DEF Frame
<1> QED
  BY <1>1, Pushed, Zenon DEF TInv, StacksOK, Push

\* A return to the caller leaves the stacks stacks of frames.
LEMMA PopType ==
  ASSUME TInv, NEW g \in Goroutine, stack[g] # <<>>, Pop(g)
  PROVE  StacksOK' /\ Top(g).cert \in 0 .. MaxIssued
<1>1. stack[g] \in Seq(Frame)
  BY Zenon DEF TInv, StacksOK
<1>2. Tail(stack[g]) \in Seq(Frame) /\ Top(g) \in Frame
  BY <1>1, Popped, Zenon DEF Top
<1> QED
  BY <1>2, Zenon DEF TInv, StacksOK, Pop, Frame

\* The number of a new certificate is within the bound.
LEMMA IssueNewType ==
  ASSUME TInv, IssueNew
  PROVE  WorldOK'
BY BoundAssumption DEF TInv, WorldOK, IssueNew

\* Every certificate at hand is one that Return takes.
LEMMA Certificates ==
  ASSUME TInv
  PROVE  /\ \A c \in SelectCert : c \in Version /\ c \in 0 .. MaxIssued
         /\ \A g \in Goroutine : cert[g] \in {External, 0} \cup Version
         /\ stored \in {External, 0} \cup Version /\ stored \in 0 .. MaxIssued
         /\ stored # 0 => stored \in Version
         /\ {External, 0} \subseteq {External, 0} \cup Version
<1>1. \A c \in SelectCert : c \in Version /\ c \in 0 .. MaxIssued
  BY DEF TInv, WorldOK, SelectCert, Unexpired, Version
<1>2. \A g \in Goroutine : cert[g] \in {0} \cup Version
  BY BoundAssumption DEF TInv, LocalsOK, Version
<1>3. stored \in {0} \cup Version /\ stored \in 0 .. MaxIssued
  BY BoundAssumption DEF TInv, WorldOK, Version
<1> QED
  BY <1>1, <1>2, <1>3, Zenon

\* Every step keeps the types ...
LEMMA TInvStep ==
  ASSUME TInv, [Next]_vars
  PROVE  TInv'
<1> DEFINE Rest == WorldOK' /\ ChansOK' /\ PlacesOK' /\ LocalsOK' /\ StacksOK' /\ ResultsOK'
<1> SUFFICES Rest
  BY Zenon DEF TInv
<1>0. Background \in Goroutine /\ \A g \in Goroutine : g # Background => g \in Client
  BY Zenon DEF Goroutine
<1>1. ASSUME NEW g \in Goroutine, Start(g) PROVE Rest
  <2>1. PlacesOK'
    BY <1>1, GotoType, NamesAssumption, Zenon DEF Start, Place
  <2>2. LocalsOK'
    BY <1>1, Zenon DEF Start, TInv, LocalsOK
  <2> QED
    BY <1>1, <2>1, <2>2, Unchanged, Zenon DEF Start
<1>2. ASSUME NEW g \in Goroutine, Lookup(g) PROVE Rest
  <2>1. CASE cache = {} /\ Goto(g, "enter") /\ UNCHANGED <<cert, stack, res, found>>
    <3>1. PlacesOK'
      BY <1>2, <2>1, GotoType, Zenon DEF Lookup, TInv, PlacesOK, Place
    <3> QED
      BY <1>2, <2>1, <3>1, Unchanged, Zenon DEF Lookup
  <2>2. ASSUME NEW c \in SelectCert, found' = [found EXCEPT ![g] = IF full[g] THEN c ELSE @],
               Goto(g, "maintain"), Push(g, "optional", c), cert' = [cert EXCEPT ![g] = c],
               UNCHANGED res
        PROVE  Rest
    <3>1. PlacesOK'
      BY <1>2, <2>2, GotoType, Zenon DEF Lookup, TInv, PlacesOK, Place
    <3>2. StacksOK'
      BY <2>2, Certificates, PushType, Zenon
    <3>3. LocalsOK'
      BY <1>2, <2>2, Certificates, Zenon DEF Lookup, TInv, LocalsOK
    <3> QED
      BY <1>2, <2>2, <3>1, <3>2, <3>3, Unchanged, Zenon DEF Lookup
  <2>3. ASSUME NEW c \in SelectCert, found' = [found EXCEPT ![g] = IF full[g] THEN c ELSE @],
               Return(g, c, FALSE), UNCHANGED <<cert, stack>>
        PROVE  Rest
    <3>1. PlacesOK' /\ ResultsOK'
      BY <2>3, Certificates, ReturnType, Zenon
    <3>2. LocalsOK'
      BY <1>2, <2>3, Certificates, Zenon DEF Lookup, TInv, LocalsOK
    <3> QED
      BY <1>2, <2>3, <3>1, <3>2, Unchanged, Zenon DEF Lookup
  <2> QED
    BY <1>2, <2>1, <2>2, <2>3, Zenon DEF Lookup
<1>3. ASSUME NEW g \in Goroutine, Enter(g) PROVE Rest
  <2>1. g \in Client
    BY <1>0, <1>3, Zenon DEF Enter, TInv, PlacesOK
  <2>2. PlacesOK'
    BY <1>3, <2>1, NamesAssumption, GotoType, Zenon DEF Enter, Place
  <2>3. StacksOK'
    BY <1>3, PushType, BoundAssumption, Unchanged DEF Enter
  <2>4. ChansOK'
    BY <1>3, <2>1, Zenon DEF Enter, TInv, ChansOK
  <2> QED
    BY <1>3, <2>2, <2>3, <2>4, Unchanged, Zenon DEF Enter
<1>4. ASSUME NEW g \in Goroutine, AskManagers(g) PROVE Rest
  <2>1. PlacesOK' /\ ResultsOK'
    <3>1. CASE Goto(g, "decide") /\ UNCHANGED res
      BY <1>4, <3>1, GotoType, Unchanged, Zenon DEF AskManagers, TInv, PlacesOK, Place
    <3> QED
      BY <1>4, <3>1, ReturnType, Zenon DEF AskManagers
  <2> QED
    BY <1>4, <2>1, Unchanged, Zenon DEF AskManagers
<1>5. ASSUME NEW g \in Goroutine, Decide(g) PROVE Rest
  <2>1. PlacesOK' /\ ResultsOK'
    <3>1. CASE Goto(g, "load") /\ UNCHANGED res
      BY <1>5, <3>1, GotoType, Unchanged, Zenon DEF Decide, TInv, PlacesOK, Place
    <3> QED
      BY <1>5, <3>1, ReturnType, Zenon DEF Decide
  <2>2. LocalsOK'
    BY <1>5, Zenon DEF Decide, TInv, LocalsOK, WorldOK
  <2> QED
    BY <1>5, <2>1, <2>2, Unchanged, Zenon DEF Decide
<1>6. ASSUME NEW g \in Goroutine, LoadFromStorage(g) PROVE Rest
  <2>1. PlacesOK'
    BY <1>6, GotoType, Zenon DEF LoadFromStorage, TInv, PlacesOK, Place
  <2>2. StacksOK'
    BY <1>6, PushType, BoundAssumption DEF LoadFromStorage
  <2>3. WorldOK'
    BY <1>6, Certificates, Zenon DEF LoadFromStorage, TInv, WorldOK
  <2>4. LocalsOK'
    BY <1>6, Certificates, Zenon DEF LoadFromStorage, TInv, LocalsOK
  <2> QED
    BY <1>6, <2>1, <2>2, <2>3, <2>4, Unchanged, Zenon DEF LoadFromStorage
<1>7. ASSUME NEW g \in Goroutine, LoadFails(g) PROVE Rest
  <2>1. PlacesOK' /\ ResultsOK'
    <3>1. CASE pc[g] = "load" /\ Goto(g, "obtain") /\ UNCHANGED res
      BY <3>1, GotoType, Unchanged, Zenon DEF TInv, PlacesOK, Place
    <3> QED
      BY <1>7, <3>1, ReturnType, Zenon DEF LoadFails
  <2> QED
    BY <1>7, <2>1, Unchanged, Zenon DEF LoadFails
<1>8. ASSUME NEW g \in Goroutine, Maintain(g) PROVE Rest
  <2>1. PlacesOK' /\ ResultsOK'
    <3>1. CASE Goto(g, IF stored = 0 THEN "obtain" ELSE "renew") /\ UNCHANGED res
      BY <1>8, <3>1, GotoType, Unchanged, Zenon DEF Maintain, TInv, PlacesOK, Place
    <3> QED
      BY <1>8, <3>1, ReturnType, Certificates, Zenon DEF Maintain
  <2> QED
    BY <1>8, <2>1, Unchanged, Zenon DEF Maintain
<1>9. ASSUME NEW g \in Goroutine, Obtain(g) PROVE Rest
  <2>1. PlacesOK'
    BY <1>9, GotoType, Zenon DEF Obtain, TInv, PlacesOK, Place
  <2>2. StacksOK'
    BY <1>9, PushType, BoundAssumption, Unchanged DEF Obtain
  <2>3. ChansOK'
    BY <1>9, Zenon DEF Obtain, TInv, ChansOK
  <2> QED
    BY <1>9, <2>1, <2>2, <2>3, Unchanged, Zenon DEF Obtain
<1>10. ASSUME NEW g \in Goroutine, ObtainCert(g) PROVE Rest
  <2>1. PlacesOK' /\ ResultsOK'
    <3>1. CASE Goto(g, "loadObtained") /\ UNCHANGED res
      BY <1>10, <3>1, GotoType, Unchanged, Zenon DEF ObtainCert, TInv, PlacesOK, Place
    <3> QED
      BY <1>10, <3>1, ReturnType, Zenon DEF ObtainCert
  <2>2. WorldOK'
    BY <1>10, IssueNewType, Unchanged, Zenon DEF ObtainCert
  <2> QED
    BY <1>10, <2>1, <2>2, Unchanged, Zenon DEF ObtainCert
<1>11. ASSUME NEW g \in Goroutine, RenewDynamic(g) PROVE Rest
  <2>1. PlacesOK' /\ ResultsOK'
    <3>1. CASE Goto(g, "waitObtain") /\ UNCHANGED res
      BY <1>11, <3>1, GotoType, Unchanged, Zenon DEF RenewDynamic, TInv, PlacesOK, Place
    <3>2. CASE Goto(g, "renewCheck") /\ UNCHANGED res
      BY <3>2, GotoType, Unchanged, Zenon DEF Place
    <3>3. CASE /\ pc' = [pc EXCEPT ![g] = "return", ![Background] = "renewCheck"]
               /\ res' = [res EXCEPT ![g] = [cert |-> cert[g], err |-> FALSE]]
      <4>1. [cert |-> cert[g], err |-> FALSE] \in Result
        BY Certificates, Zenon DEF Result
      <4>2. ResultsOK'
        BY <3>3, <4>1, Zenon DEF TInv, ResultsOK
      <4>3. PlacesOK'
        BY <1>0, <3>3, Zenon DEF TInv, PlacesOK, Place
      <4> QED
        BY <4>2, <4>3, Zenon
    <3> QED
      BY <1>11, <3>1, <3>2, <3>3, ReturnType, Certificates, Zenon DEF RenewDynamic
  <2>2. StacksOK'
    <3>1. UNCHANGED stack \/ Push(g, "owner", 0) \/ Push(Background, "owner", 0)
      BY <1>11, Zenon DEF RenewDynamic
    <3> QED
      BY <1>0, <3>1, PushType, BoundAssumption, Unchanged
  <2>3. ChansOK'
    BY <1>0, <1>11, Zenon DEF RenewDynamic, TInv, ChansOK
  <2>4. LocalsOK'
    BY <1>0, <1>11, Zenon DEF RenewDynamic, TInv, LocalsOK
  <2> QED
    BY <1>11, <2>1, <2>2, <2>3, <2>4, Unchanged, Zenon DEF RenewDynamic
<1>12. ASSUME NEW g \in Goroutine, RenewCheck(g) PROVE Rest
  <2>1. PlacesOK' /\ ResultsOK'
    <3>1. CASE Goto(g, "renewing") /\ UNCHANGED res
      BY <3>1, GotoType, Unchanged, Zenon DEF Place
    <3> QED
      BY <1>12, <3>1, ReturnType, Zenon DEF RenewCheck
  <2>2. WorldOK' /\ LocalsOK'
    BY <1>12, Zenon DEF RenewCheck, TInv, WorldOK, LocalsOK
  <2> QED
    BY <1>12, <2>1, <2>2, Unchanged, Zenon DEF RenewCheck
<1>13. ASSUME NEW g \in Goroutine, RenewCert(g) PROVE Rest
  <2>1. PlacesOK' /\ ResultsOK'
    <3>1. CASE Goto(g, "reload") /\ UNCHANGED res
      BY <3>1, GotoType, Unchanged, Zenon DEF Place
    <3> QED
      BY <1>13, <3>1, ReturnType, Zenon DEF RenewCert
  <2>2. WorldOK'
    BY <1>13, IssueNewType, Unchanged, Zenon DEF RenewCert
  <2> QED
    BY <1>13, <2>1, <2>2, Unchanged, Zenon DEF RenewCert
<1>14. ASSUME NEW g \in Goroutine, Reload(g) PROVE Rest
  <2>1. PlacesOK' /\ ResultsOK'
    BY <1>14, ReturnType, Certificates, Zenon DEF Reload
  <2>2. WorldOK'
    BY <1>14, Certificates, Zenon DEF Reload, TInv, WorldOK
  <2> QED
    BY <1>14, <2>1, <2>2, Unchanged, Zenon DEF Reload
<1>15. ASSUME NEW g \in Goroutine, ReturnOptional(g) \/ ReturnLoad(g) PROVE Rest
  <2>1. stack[g] # <<>> /\ Pop(g)
    BY <1>15, Zenon DEF ReturnOptional, ReturnLoad, Returning
  <2>2. StacksOK' /\ Top(g).cert \in {External, 0} \cup Version
    BY <2>1, PopType, BoundAssumption DEF Version
  <2>3. [cert |-> Top(g).cert, err |-> Expired(Top(g).cert)] \in Result
    BY <2>2 DEF Result, Expired
  <2>4. [res[g] EXCEPT !.err = FALSE] \in Result
    BY Zenon DEF TInv, ResultsOK, Result
  <2>5. ResultsOK'
    BY <1>15, <2>3, <2>4, Zenon DEF ReturnOptional, ReturnLoad, TInv, ResultsOK
  <2> QED
    BY <1>15, <2>2, <2>5, Unchanged, Zenon DEF ReturnOptional, ReturnLoad
<1>16. ASSUME NEW g \in Goroutine, ReturnOwner(g) \/ ReturnGetCert(g) PROVE Rest
  <2>1. stack[g] # <<>> /\ Pop(g)
    BY <1>16, Zenon DEF ReturnOwner, ReturnGetCert, Returning
  <2>2. StacksOK'
    BY <2>1, PopType, Zenon
  <2>3. ChansOK'
    BY <1>16, Zenon DEF ReturnOwner, ReturnGetCert, TInv, ChansOK
  <2>4. PlacesOK'
    BY <1>0, <1>16 DEF ReturnOwner, ReturnGetCert, Wake, TInv, PlacesOK, Place
  <2>5. LocalsOK'
    BY <1>16, Zenon DEF ReturnOwner, ReturnGetCert, Wake, TInv, LocalsOK
  <2> QED
    BY <1>16, <2>2, <2>3, <2>4, <2>5, Unchanged, Zenon DEF ReturnOwner, ReturnGetCert
<1>17. ASSUME NEW g \in Goroutine, ReturnLast(g) PROVE Rest
  BY <1>17, GotoType, Unchanged, Zenon DEF ReturnLast, Place
<1>18. ASSUME NEW g \in Goroutine, Finish(g) PROVE Rest
  <2>1. PlacesOK'
    BY <1>18, GotoType, Zenon DEF Finish, Place
  <2>2. ResultsOK'
    BY <1>18, NoResult \in Result, Zenon DEF Finish, TInv, ResultsOK, NoResult, Result
  <2>3. LocalsOK'
    BY <1>18, BoundAssumption DEF Finish, TInv, LocalsOK
  <2> QED
    BY <1>18, <2>1, <2>2, <2>3, Unchanged, Zenon DEF Finish
<1>19. ASSUME NEW g \in Goroutine, TimeOut(g) PROVE Rest
  BY <1>19, ReturnType, Unchanged, Zenon DEF TimeOut
<1>20. CASE Age \/ Evict \/ Delete \/ OtherIssues \/ ChangeDecision
  <2>1. CASE OtherIssues
    BY <2>1, IssueNewType, Unchanged, Zenon DEF OtherIssues
  <2>2. CASE Age \/ Evict \/ Delete \/ ChangeDecision
    <3>1. WorldOK'
      <4>1. CASE Age
        BY <4>1 DEF Age, TInv, WorldOK
      <4>2. CASE Evict \/ Delete
        BY <4>2 DEF Evict, Delete, TInv, WorldOK
      <4>3. CASE ChangeDecision
        BY <4>3, Zenon DEF ChangeDecision, TInv, WorldOK
      <4> QED
        BY <2>2, <4>1, <4>2, <4>3, Zenon
    <3> QED
      BY <2>2, <3>1, Unchanged, Zenon DEF Age, Evict, Delete, ChangeDecision
  <2> QED
    BY <1>20, <2>1, <2>2, Zenon
<1>21. CASE UNCHANGED vars
  BY <1>21, Unchanged, Zenon DEF vars, world, chans
<1> QED
  BY <1>1, <1>2, <1>3, <1>4, <1>5, <1>6, <1>7, <1>8, <1>9, <1>10, <1>11, <1>12, <1>13,
     <1>14, <1>15, <1>16, <1>17, <1>18, <1>19, <1>20, <1>21 DEF Next, Step

\* ... which hold at first.
LEMMA TInvInit == ASSUME Init PROVE TInv
<1>1. WorldOK /\ ChansOK
  BY BoundAssumption DEF Init, WorldOK, ChansOK
<1>2. PlacesOK /\ LocalsOK /\ StacksOK
  BY BoundAssumption DEF Init, PlacesOK, LocalsOK, StacksOK, Place, Goroutine
<1>3. ResultsOK
  BY NoResult \in Result, Zenon DEF Init, ResultsOK, NoResult, Result
<1> QED
  BY <1>1, <1>2, <1>3, Zenon DEF TInv

\* The types of the cache, of storage, of the two maps of channels and of the
\* goroutines' calls (handshake.go).
THEOREM HandshakeTypes == Spec => []TypeOK
<1>1. Init => TInv
  BY TInvInit, Zenon
<1>2. TInv => TypeOK
  BY Zenon DEF TInv, WorldOK, ChansOK, PlacesOK, LocalsOK, StacksOK, ResultsOK, TypeOK
<1> QED
  BY <1>1, <1>2, TInvStep, PTL DEF Spec

-----------------------------------------------------------------------------
(* OneWorker *)

\* Nobody new gets to work on the certificate.
NoNewWorker == \A h \in Goroutine : pc'[h] \in Working => pc[h] \in Working

\* A goroutine that moves to a place outside the work, or was at work, is no
\* new worker.
LEMMA NoNewWorkerGoto ==
  ASSUME TInv, NEW g \in Goroutine, NEW to, Goto(g, to),
         to \in Working => pc[g] \in Working
  PROVE  NoNewWorker
BY Zenon DEF NoNewWorker, TInv, PlacesOK, Goto

\* A step that leaves the stacks and the channel, and brings no worker, keeps
\* the owners.
LEMMA OwnersKept ==
  ASSUME Owners, UNCHANGED <<stack, obtainChan>>, NoNewWorker
  PROVE  Owners'
BY Zenon DEF Owners, NoNewWorker

\* So does a call other than the one that registers the channel ...
LEMMA OwnersKeptByPush ==
  ASSUME TInv, Owners, NoNewWorker, UNCHANGED obtainChan, NEW g \in Goroutine,
         NEW call \in {"optional", "load", "getCert"}, NEW c \in 0 .. MaxIssued, Push(g, call, c)
  PROVE  Owners'
<1>1. stack[g] \in Seq(Frame) /\ [call |-> call, cert |-> c] \in Frame
  BY Zenon DEF TInv, StacksOK, Frame
<1>2. /\ Owning(stack'[g]) <=> Owning(stack[g])
      /\ OwningOnce(stack[g]) => OwningOnce(stack'[g])
      /\ \A h \in Goroutine : h # g => stack'[h] = stack[h]
  BY <1>1, PushOther, Zenon DEF Push, TInv, StacksOK
<1> QED
  BY <1>2, Zenon DEF Owners, NoNewWorker

\* ... the one that registers it when there is none, and makes its goroutine
\* the owner ...
LEMMA OwnerMade ==
  ASSUME TInv, Owners, NEW g \in Goroutine, obtainChan = Nobody, obtainChan' = g,
         Push(g, "owner", 0),
         \A h \in Goroutine : pc'[h] \in Working => pc[h] \in Working \/ h = g
  PROVE  Owners'
<1>1. stack[g] \in Seq(Frame) /\ [call |-> "owner", cert |-> 0] \in Frame
  BY BoundAssumption, 0 \in 0 .. MaxIssued, Zenon DEF TInv, StacksOK, Frame
<1>2. \A h \in Goroutine : ~Owning(stack[h])
  BY NamesAssumption, Zenon DEF Owners
<1>3. /\ Owning(stack'[g]) /\ OwningOnce(stack'[g])
      /\ \A h \in Goroutine : h # g => stack'[h] = stack[h]
  BY <1>1, <1>2, PushOwner, Zenon DEF Push, TInv, StacksOK
<1> QED
  BY <1>2, <1>3, Zenon DEF Owners

\* ... and a return, which closes the channel if it is the owner's.
LEMMA OwnersKeptByPop ==
  ASSUME TInv, Owners, NoNewWorker, NEW g \in Goroutine, pc[g] = "return", stack[g] # <<>>, Pop(g),
         IF Top(g).call = "owner" THEN obtainChan' = Nobody ELSE UNCHANGED obtainChan
  PROVE  Owners'
<1>1. stack[g] \in Seq(Frame)
  BY Zenon DEF TInv, StacksOK
<1>2. stack'[g] = Tail(stack[g]) /\ \A h \in Goroutine : h # g => stack'[h] = stack[h]
  BY Zenon DEF Pop, TInv, StacksOK
<1>3. /\ Owning(stack'[g]) => Owning(stack[g])
      /\ OwningOnce(stack[g]) => OwningOnce(stack'[g])
      /\ Top(g).call = "owner" /\ OwningOnce(stack[g]) => ~Owning(stack'[g])
  BY <1>1, <1>2, PopOther DEF Top
<1>4. Top(g).call = "owner" => Owning(stack[g])
  BY <1>1, Popped DEF Top, Owning
<1>5. pc[g] \notin Working
  BY Zenon DEF Working
<1> QED
  BY <1>2, <1>3, <1>4, <1>5, Zenon DEF Owners, NoNewWorker

\* Every step keeps the owners.
LEMMA OwnersStep ==
  ASSUME TInv, Owners, [Next]_vars
  PROVE  Owners'
<1>1. ASSUME NEW g \in Goroutine,
             Start(g) \/ AskManagers(g) \/ Decide(g) \/ LoadFails(g) \/ Maintain(g)
             \/ ReturnLast(g) \/ Finish(g) \/ TimeOut(g)
      PROVE  Owners'
  <2>1. UNCHANGED <<stack, obtainChan>>
    BY <1>1, Zenon DEF Start, AskManagers, Decide, LoadFails, Maintain, ReturnLast, Finish, TimeOut, chans
  <2>2. \E to \in Place : Goto(g, to) /\ to \notin Working
    BY <1>1, Zenon DEF Start, AskManagers, Decide, LoadFails, Maintain, ReturnLast, Finish, TimeOut,
                Return, Place, Working
  <2> QED
    BY <2>1, <2>2, NoNewWorkerGoto, OwnersKept, Zenon
<1>2. ASSUME NEW g \in Goroutine, ObtainCert(g) \/ RenewCheck(g) \/ RenewCert(g) \/ Reload(g)
      PROVE  Owners'
  <2>1. UNCHANGED <<stack, obtainChan>> /\ pc[g] \in Working
    BY <1>2, Zenon DEF ObtainCert, RenewCheck, RenewCert, Reload, chans, Working
  <2>2. \E to \in Place : Goto(g, to)
    BY <1>2, Zenon DEF ObtainCert, RenewCheck, RenewCert, Reload, Return, Place
  <2> QED
    BY <2>1, <2>2, NoNewWorkerGoto, OwnersKept, Zenon
<1>3. ASSUME NEW g \in Goroutine, Lookup(g) \/ Enter(g) \/ LoadFromStorage(g) PROVE Owners'
  <2>1. UNCHANGED obtainChan
    BY <1>3, Zenon DEF Lookup, Enter, LoadFromStorage, chans
  <2>2. \E to \in Place : Goto(g, to) /\ to \notin Working
    BY <1>3, Zenon DEF Lookup, Enter, LoadFromStorage, Return, Place, Working
  <2>3. \/ UNCHANGED stack
        \/ \E c \in 0 .. MaxIssued, call \in {"optional", "load", "getCert"} : Push(g, call, c)
    <3>1. \A c \in SelectCert : c \in 0 .. MaxIssued
      BY Certificates, Zenon
    <3>2. 0 \in 0 .. MaxIssued
      BY BoundAssumption
    <3>3. \/ UNCHANGED stack \/ Push(g, "load", 0) \/ Push(g, "getCert", 0)
          \/ \E c \in SelectCert : Push(g, "optional", c)
      BY <1>3, Zenon DEF Lookup, Enter, LoadFromStorage
    <3> QED
      BY <3>1, <3>2, <3>3, Zenon
  <2> QED
    BY <2>1, <2>2, <2>3, NoNewWorkerGoto, OwnersKept, OwnersKeptByPush, Zenon
<1>4. ASSUME NEW g \in Goroutine, Obtain(g) PROVE Owners'
  <2>1. CASE obtainChan = Nobody
    <3>1. obtainChan' = g /\ Push(g, "owner", 0) /\ Goto(g, "obtaining")
      BY <1>4, <2>1, Zenon DEF Obtain
    <3> QED
      BY <2>1, <3>1, OwnerMade, Zenon DEF Goto, TInv, PlacesOK
  <2>2. CASE obtainChan # Nobody
    <3>1. UNCHANGED <<stack, obtainChan>> /\ Goto(g, "waitObtain") /\ "waitObtain" \notin Working
      BY <1>4, <2>2, Zenon DEF Obtain, Working
    <3> QED
      BY <3>1, NoNewWorkerGoto, OwnersKept, Zenon
  <2> QED
    BY <2>1, <2>2, Zenon
<1>5. ASSUME NEW g \in Goroutine, RenewDynamic(g) PROVE Owners'
  <2>1. CASE obtainChan # Nobody
    <3>1. UNCHANGED <<stack, obtainChan>>
          /\ \E to \in {"return", "waitObtain"} : Goto(g, to) /\ to \notin Working
      BY <1>5, <2>1, Zenon DEF RenewDynamic, Return, Working
    <3> QED
      BY <3>1, NoNewWorkerGoto, OwnersKept, Zenon
  <2>2. CASE obtainChan = Nobody /\ ~Expired(cert[g])
    <3>1. obtainChan' = Background /\ Push(Background, "owner", 0)
          /\ pc' = [pc EXCEPT ![g] = "return", ![Background] = "renewCheck"]
      BY <1>5, <2>2, Zenon DEF RenewDynamic
    <3>2. \A h \in Goroutine : pc'[h] \in Working => pc[h] \in Working \/ h = Background
      BY <3>1, Zenon DEF TInv, PlacesOK, Working
    <3> QED
      BY <2>2, <3>1, <3>2, OwnerMade, Background \in Goroutine, Zenon DEF Goroutine
  <2>3. CASE obtainChan = Nobody /\ Expired(cert[g])
    <3>1. obtainChan' = g /\ Push(g, "owner", 0) /\ Goto(g, "renewCheck")
      BY <1>5, <2>3, Zenon DEF RenewDynamic
    <3> QED
      BY <2>3, <3>1, OwnerMade, Zenon DEF Goto, TInv, PlacesOK
  <2> QED
    BY <2>1, <2>2, <2>3, Zenon
<1>6. ASSUME NEW g \in Goroutine,
             ReturnOptional(g) \/ ReturnLoad(g) \/ ReturnOwner(g) \/ ReturnGetCert(g)
      PROVE  Owners'
  <2>1. pc[g] = "return" /\ stack[g] # <<>> /\ Pop(g)
    BY <1>6, Zenon DEF ReturnOptional, ReturnLoad, ReturnOwner, ReturnGetCert, Returning
  <2>2. IF Top(g).call = "owner" THEN obtainChan' = Nobody ELSE UNCHANGED obtainChan
    BY <1>6, Zenon DEF ReturnOptional, ReturnLoad, ReturnOwner, ReturnGetCert, Returning, chans
  <2>3. NoNewWorker
    BY <1>6, Zenon DEF ReturnOptional, ReturnLoad, ReturnOwner, ReturnGetCert, Wake, NoNewWorker, Working
  <2> QED
    BY <2>1, <2>2, <2>3, OwnersKeptByPop, Zenon
<1>7. CASE Age \/ Evict \/ Delete \/ OtherIssues \/ ChangeDecision
  BY <1>7, OwnersKept, Zenon DEF Age, Evict, Delete, OtherIssues, ChangeDecision, NoNewWorker, chans
<1>8. CASE UNCHANGED vars
  BY <1>8, OwnersKept, Zenon DEF vars, NoNewWorker
<1> QED
  BY <1>1, <1>2, <1>3, <1>4, <1>5, <1>6, <1>7, <1>8, Zenon DEF Next, Step

\* Who works has registered the channel, and is the only one.
LEMMA OwnersInvariant == Spec => [](TInv /\ Owners)
<1>1. Init => TInv
  BY TInvInit, Zenon
<1>2. Init => Owners
  BY DEF Init, Owners, Owning, OwningOnce, Working
<1> QED
  BY <1>1, <1>2, TInvStep, OwnersStep, PTL DEF Spec

\* "We must protect this process from happening concurrently", for any number
\* of handshakes: at most one goroutine obtains or renews the certificate,
\* because it has the call that will close obtainCertWaitChans[name].
THEOREM HandshakeOneWorker == Spec => []OneWorker
<1>1. Owners => OneWorker
  BY Zenon DEF Owners, OneWorker
<1> QED
  BY <1>1, OwnersInvariant, PTL

-----------------------------------------------------------------------------
(* AskedBefore *)

\* It is enough to look at the goroutine g that moves if no other gets to
\* where it would have to be allowed.
LEMMA PermittedIf ==
  ASSUME Permitted, UNCHANGED setup, NEW g \in Goroutine,
         \A h \in Goroutine \ {g} : pc'[h] \in Asking =>
             pc[h] \in Asking /\ asked'[h] = asked[h] /\ found'[h] = found[h],
         Unasked(g)' /\ pc'[g] \in Asking => asked'[g]
  PROVE  Permitted'
BY Zenon DEF Permitted, Unasked, OnDemand

\* A goroutine that moves on keeps its permission.
LEMMA PermittedOn ==
  ASSUME TInv, Permitted, UNCHANGED <<setup, asked, found>>, NEW g \in Goroutine,
         NEW to, Goto(g, to), to \in Asking => pc[g] \in Asking
  PROVE  Permitted'
BY Zenon DEF Permitted, Unasked, OnDemand, Goto, TInv, PlacesOK

\* No goroutine comes to the work without having been through the decision.
LEMMA PermittedStep ==
  ASSUME TInv, Permitted, [Next]_vars
  PROVE  Permitted'
<1>1. ASSUME NEW g \in Goroutine, Start(g) \/ Finish(g) PROVE Permitted'
  <2>1. /\ UNCHANGED setup /\ pc'[g] \notin Asking
        /\ \A h \in Goroutine \ {g} :
              pc'[h] = pc[h] /\ asked'[h] = asked[h] /\ found'[h] = found[h]
    BY <1>1, Zenon DEF Start, Finish, Goto, TInv, PlacesOK, LocalsOK, Asking, world
  <2> QED
    BY <2>1, PermittedIf, Zenon
<1>2. ASSUME NEW g \in Goroutine, Lookup(g) PROVE Permitted'
  <2>1. /\ UNCHANGED setup
        /\ \A h \in Goroutine \ {g} :
              pc'[h] = pc[h] /\ asked'[h] = asked[h] /\ found'[h] = found[h]
    BY <1>2 DEF Lookup, Return, Goto, TInv, PlacesOK, LocalsOK, world
  <2>2. pc'[g] \in Asking => found'[g] # 0
    <3>1. \A c \in SelectCert : c # 0
      BY Certificates DEF Version
    <3> QED
      BY <1>2, <3>1 DEF Lookup, Return, Goto, TInv, PlacesOK, LocalsOK, Asking
  <2> QED
    BY <2>1, <2>2, PermittedIf, Zenon DEF Unasked
<1>3. ASSUME NEW g \in Goroutine,
             Enter(g) \/ AskManagers(g) \/ Reload(g) \/ ReturnLast(g) \/ TimeOut(g)
      PROVE  Permitted'
  <2>1. \E to \in Place : Goto(g, to) /\ to \notin Asking
    BY <1>3, Zenon DEF Enter, AskManagers, Reload, ReturnLast, TimeOut, Return, Place, Asking
  <2> QED
    BY <1>3, <2>1, PermittedOn, Zenon DEF Enter, AskManagers, Reload, ReturnLast, TimeOut, world
<1>4. ASSUME NEW g \in Goroutine, Decide(g) PROVE Permitted'
  <2>1. /\ UNCHANGED setup
        /\ \A h \in Goroutine \ {g} :
              pc'[h] = pc[h] /\ asked'[h] = asked[h] /\ found'[h] = found[h]
    BY <1>4, Zenon DEF Decide, Return, Goto, TInv, PlacesOK, LocalsOK, world
  <2>2. Unasked(g)' /\ pc'[g] \in Asking => asked'[g]
    BY <1>4, Zenon DEF Decide, Return, Goto, TInv, PlacesOK, LocalsOK, Asking, Unasked, OnDemand, world
  <2> QED
    BY <2>1, <2>2, PermittedIf, Zenon
<1>5. ASSUME NEW g \in Goroutine,
             LoadFromStorage(g) \/ LoadFails(g) \/ Maintain(g) \/ Obtain(g) \/ ObtainCert(g)
             \/ RenewCert(g)
      PROVE  Permitted'
  <2>1. pc[g] \in Asking /\ UNCHANGED <<asked, found>>
    BY <1>5, Zenon DEF LoadFromStorage, LoadFails, Maintain, Obtain, ObtainCert, RenewCert, Asking
  <2>2. UNCHANGED setup
    BY <1>5, Zenon DEF LoadFromStorage, LoadFails, Maintain, Obtain, ObtainCert, RenewCert, IssueNew, world
  <2>3. \E to \in Place : Goto(g, to)
    BY <1>5, Zenon DEF LoadFromStorage, LoadFails, Maintain, Obtain, ObtainCert, RenewCert, Return, Place
  <2> QED
    BY <2>1, <2>2, <2>3, PermittedOn, Zenon
<1>6. ASSUME NEW g \in Goroutine, RenewDynamic(g) PROVE Permitted'
  <2>1. UNCHANGED setup
    BY <1>6, Zenon DEF RenewDynamic, world
  <2>2. \A h \in Goroutine : pc'[h] \in Asking =>
           pc[h] \in Asking /\ asked'[h] = asked[h] /\ found'[h] = found[h]
    <3>1. UNCHANGED found
      BY <1>6, Zenon DEF RenewDynamic
    <3>2. ASSUME NEW to \in {"return", "waitObtain", "renewCheck"}, Goto(g, to), UNCHANGED asked
          PROVE  \A h \in Goroutine : pc'[h] \in Asking => pc[h] \in Asking /\ asked'[h] = asked[h]
      BY <3>2, Zenon DEF Goto, TInv, PlacesOK, Asking
    <3>3. ASSUME pc' = [pc EXCEPT ![g] = "return", ![Background] = "renewCheck"],
                 asked' = [asked EXCEPT ![Background] = FALSE]
          PROVE  \A h \in Goroutine : pc'[h] \in Asking => pc[h] \in Asking /\ asked'[h] = asked[h]
      BY <3>3, Zenon DEF TInv, PlacesOK, LocalsOK, Asking
    <3>4. \/ (\E to \in {"return", "waitObtain", "renewCheck"} : Goto(g, to)) /\ UNCHANGED asked
          \/ /\ pc' = [pc EXCEPT ![g] = "return", ![Background] = "renewCheck"]
             /\ asked' = [asked EXCEPT ![Background] = FALSE]
      BY <1>6, Zenon DEF RenewDynamic, Return
    <3> QED
      BY <3>1, <3>2, <3>3, <3>4, Zenon
  <2> QED
    BY <2>1, <2>2, Zenon DEF Permitted, Unasked, OnDemand
<1>7. ASSUME NEW g \in Goroutine, RenewCheck(g) PROVE Permitted'
  <2>1. /\ UNCHANGED setup
        /\ \A h \in Goroutine \ {g} :
              pc'[h] = pc[h] /\ asked'[h] = asked[h] /\ found'[h] = found[h]
    BY <1>7, Zenon DEF RenewCheck, Return, Goto, TInv, PlacesOK, LocalsOK
  <2>2. pc'[g] \in Asking => asked'[g]
    BY <1>7, Zenon DEF RenewCheck, Return, Goto, TInv, PlacesOK, LocalsOK, Asking
  <2> QED
    BY <2>1, <2>2, PermittedIf, Zenon
<1>8. ASSUME NEW g \in Goroutine,
             ReturnOptional(g) \/ ReturnLoad(g) \/ ReturnOwner(g) \/ ReturnGetCert(g)
      PROVE  Permitted'
  <2>1. UNCHANGED <<setup, asked, found>>
    BY <1>8, Zenon DEF ReturnOptional, ReturnLoad, ReturnOwner, ReturnGetCert, world
  <2>2. \A h \in Goroutine : pc'[h] \in Asking => pc[h] \in Asking
    BY <1>8, Zenon DEF ReturnOptional, ReturnLoad, ReturnOwner, ReturnGetCert, Wake, Asking
  <2> QED
    BY <2>1, <2>2, Zenon DEF Permitted, Unasked, OnDemand
<1>9. CASE Age \/ Evict \/ Delete \/ OtherIssues \/ ChangeDecision
  BY <1>9, Zenon DEF Age, Evict, Delete, OtherIssues, ChangeDecision, IssueNew, Permitted, Unasked, OnDemand
<1>10. CASE UNCHANGED vars
  BY <1>10, Zenon DEF vars, Permitted, Unasked, OnDemand
<1> QED
  BY <1>1, <1>2, <1>3, <1>4, <1>5, <1>6, <1>7, <1>8, <1>9, <1>10, Zenon DEF Next, Step

\* DecisionFunc, for any number of handshakes: whoever obtains or renews on
\* demand was allowed to or found a certificate in the cache.
THEOREM HandshakeAskedBefore == Spec => []AskedBefore
<1>1. Init => TInv
  BY TInvInit, Zenon
<1>2. Init => Permitted
  BY Zenon DEF Init, Permitted, Asking
<1>3. Permitted => AskedBefore
  BY Zenon DEF Permitted, AskedBefore, Unasked, Asking
<1> QED
  BY <1>1, <1>2, <1>3, TInvStep, PermittedStep, PTL DEF Spec

-----------------------------------------------------------------------------
(* FoundIsServed *)

\* Stacks of up to three calls.
LEMMA StackOfOne ==
  ASSUME NEW a
  PROVE  <<a>> \o <<>> = <<a>> /\ Tail(<<a>>) = <<>> /\ <<a>> # <<>> /\ <<a>>[1] = a
OBVIOUS

\* What pushing to and popping from short stacks gives.
LEMMA StackOfTwo ==
  ASSUME NEW a, NEW b
  PROVE  /\ <<a>> \o <<b>> = <<a, b>>
         /\ Tail(<<a, b>>) = <<b>> /\ <<a, b>> # <<>> /\ <<a, b>>[1] = a
<1> DEFINE S == {a, b}
<1> DEFINE two == <<a>> \o <<b>>
<1>1. /\ <<a>> \in Seq(S) /\ Len(<<a>>) = 1 /\ <<b>> \in Seq(S) /\ Len(<<b>>) = 1
      /\ <<a, b>> \in Seq(S) /\ Len(<<a, b>>) = 2
  OBVIOUS
<1>2. two \in Seq(S) /\ Len(two) = 2 /\ two[1] = a /\ two[2] = b
  BY <1>1, ConcatProperties
<1>3. \A i \in 1 .. 2 : two[i] = <<a, b>>[i]
  BY <1>2
<1>4. two = <<a, b>>
  <2> HIDE DEF two
  <2> QED
    BY <1>1, <1>2, <1>3, SeqEqual, Zenon
<1>5. Tail(<<a, b>>) = <<b>> /\ <<a, b>> # <<>> /\ <<a, b>>[1] = a
  OBVIOUS
<1> QED
  BY <1>4, <1>5, Zenon

\* The same for a stack of three.
LEMMA StackOfThree ==
  ASSUME NEW a, NEW b, NEW c
  PROVE  /\ <<a>> \o <<b, c>> = <<a, b, c>>
         /\ Tail(<<a, b, c>>) = <<b, c>> /\ <<a, b, c>> # <<>> /\ <<a, b, c>>[1] = a
<1> DEFINE S == {a, b, c}
<1> DEFINE three == <<a>> \o <<b, c>>
<1>1. /\ <<a>> \in Seq(S) /\ Len(<<a>>) = 1 /\ <<b, c>> \in Seq(S) /\ Len(<<b, c>>) = 2
      /\ <<a, b, c>> \in Seq(S) /\ Len(<<a, b, c>>) = 3
  OBVIOUS
<1>2. three \in Seq(S) /\ Len(three) = 3 /\ three[1] = a /\ three[2] = b /\ three[3] = c
  BY <1>1, ConcatProperties
<1>3. \A i \in 1 .. 3 : three[i] = <<a, b, c>>[i]
  BY <1>2
<1>4. three = <<a, b, c>>
  <2> HIDE DEF three
  <2> QED
    BY <1>1, <1>2, <1>3, SeqEqual
<1>5. Tail(<<a, b, c>>) = <<b, c>> /\ <<a, b, c>> # <<>> /\ <<a, b, c>>[1] = a
  OBVIOUS
<1> QED
  BY <1>4, <1>5, Zenon

\* The handshake h does not move.
Still(h) ==
    /\ pc'[h] = pc[h] /\ full'[h] = full[h] /\ found'[h] = found[h]
    /\ stack'[h] = stack[h] /\ cert'[h] = cert[h] /\ res'[h] = res[h]

\* Steps of others do not disturb a handshake unless a certificate comes into
\* its renewal window.
LEMMA OtherKept ==
  ASSUME NEW h \in Client, Kept(h), Still(h), UNCHANGED <<due, expired>>,
         StoredIsNew => StoredIsNew'
  PROVE  Kept(h)'
<1>1. /\ pc'[h] = pc[h] /\ full'[h] = full[h] /\ found'[h] = found[h]
      /\ stack'[h] = stack[h] /\ cert'[h] = cert[h] /\ res'[h] = res[h]
  BY Zenon DEF Still
<1>2. Optional(h)' = Optional(h) /\ Definite(h)' = Definite(h) /\ Served(h)' = Served(h)
  BY <1>1, Zenon DEF Optional, Definite, Served, Expired
<1>3. InOptional(h) => InOptional(h)'
  BY <1>1, <1>2, Zenon DEF InOptional
<1>4. InGetCert(h) => InGetCert(h)'
  BY <1>1, <1>2, Zenon DEF InGetCert, Call
<1>5. InOwner(h) => InOwner(h)'
  BY <1>1, <1>2, Zenon DEF InOwner, Call
<1>6. InLoad(h) => InLoad(h)'
  BY <1>1, <1>2, Zenon DEF InLoad, Call
<1> QED
  BY <1>1, <1>2, <1>3, <1>4, <1>5, <1>6, Zenon DEF Kept, Shape

\* Only one handshake moves.
LEMMA OneMoves ==
  ASSUME FoundKept, NEW g \in Goroutine, g \in Client => Kept(g)',
         \A h \in Client \ {g} : Still(h),
         UNCHANGED <<due, expired>>, StoredIsNew => StoredIsNew'
  PROVE  FoundKept'
BY OtherKept, Zenon DEF FoundKept

\* A certificate that is issued is not due.
LEMMA IssuedIsNew ==
  ASSUME TInv, IssueNew
  PROVE  StoredIsNew' /\ UNCHANGED <<due, expired>>
BY DEF TInv, WorldOK, IssueNew, StoredIsNew

\* A client that finds its certificate has an empty stack.
LEMMA KeptByLookup ==
  ASSUME TInv, FoundKept, NEW g \in Goroutine, Lookup(g)
  PROVE  FoundKept'
<1> USE DEF TInv
<1>1. \A h \in Goroutine \ {g} : Still(h)
  BY DEF Lookup, Return, Goto, Push, Still, PlacesOK, LocalsOK, StacksOK, ResultsOK
<1>2. UNCHANGED <<due, expired, stored>>
  BY Zenon DEF Lookup, world
<1>3. g \in Client /\ Kept(g)
  BY Zenon DEF Lookup, PlacesOK, FoundKept, Goroutine
<1>4. ASSUME cache = {}, Goto(g, "enter"), UNCHANGED <<full, cert, stack, res, found>> PROVE Kept(g)'
  <2>1. pc[g] = "lookup" /\ pc'[g] = "enter"
    BY <1>4, Zenon DEF Lookup, Goto, PlacesOK
  <2>2. found[g] # 0 => InOptional(g)
    BY <1>3, <2>1, Zenon DEF Kept, Shape, InOptional, InGetCert, InOwner, InLoad
  <2>3. found[g] # 0 => InOptional(g)'
    BY <1>4, <2>1, <2>2, Zenon DEF InOptional, Optional
  <2> QED
    BY <1>4, <2>1, <2>3, Zenon DEF Kept, Shape
<1>5. ASSUME NEW c \in SelectCert, found' = [found EXCEPT ![g] = IF full[g] THEN c ELSE @],
             full[g], Goto(g, "maintain"), Push(g, "optional", c), cert' = [cert EXCEPT ![g] = c]
      PROVE  Kept(g)'
  <2>1. pc[g] = "lookup" /\ pc'[g] = "maintain" /\ found'[g] = c /\ cert'[g] = c /\ c # 0
    BY <1>5, Certificates DEF Lookup, Goto, PlacesOK, LocalsOK, Version
  <2>2. stack'[g] = <<[call |-> "optional", cert |-> c]>>
    BY <1>3, <1>5, <2>1, StackOfOne, Zenon DEF Kept, Push, StacksOK
  <2> QED
    BY <2>1, <2>2, Zenon DEF Kept, Shape, InOptional, Optional
<1>6. ASSUME NEW c \in SelectCert, found' = [found EXCEPT ![g] = IF full[g] THEN c ELSE @],
             Return(g, c, FALSE), UNCHANGED <<full, cert, stack>>
      PROVE  Kept(g)'
  <2>1. /\ pc[g] = "lookup" /\ pc'[g] = "return" /\ c # 0
        /\ res'[g].cert = c /\ res'[g].err = FALSE
        /\ found'[g] = IF full[g] THEN c ELSE found[g]
    BY <1>6, Certificates DEF Lookup, Return, Goto, PlacesOK, LocalsOK, ResultsOK, Version
  <2>2. CASE full[g]
    BY <1>3, <1>6, <2>1, <2>2, Zenon DEF Kept, Shape, Served
  <2>3. CASE ~full[g]
    <3>1. found[g] # 0 => InOptional(g)
      BY <1>3, <2>1, Zenon DEF Kept, Shape, InOptional, InGetCert, InOwner, InLoad
    <3>2. found[g] # 0 => InOptional(g)'
      BY <1>6, <2>1, <2>3, <3>1, Zenon DEF InOptional, Optional, Definite
    <3> QED
      BY <2>1, <2>3, <3>2, Zenon DEF Kept, Shape
  <2> QED
    BY <2>2, <2>3, Zenon
<1>7. Kept(g)'
  BY <1>4, <1>5, <1>6, Zenon DEF Lookup
<1> QED
  BY <1>1, <1>2, <1>7, OneMoves, Zenon DEF StoredIsNew, Goroutine

\* An error on the way is a definite result for optionalMaintenance.
LEMMA ErrorKept ==
  ASSUME TInv, NEW g \in Client, found[g] # 0, Shape(g), pc[g] \notin {"return", "done", "maintain"},
         Return(g, 0, TRUE), UNCHANGED <<full, stack, found>>
  PROVE  Shape(g)'
<1>1. g \in Goroutine
  BY Zenon DEF Goroutine
<1>2. pc'[g] = "return" /\ res'[g].err
  BY <1>1, Zenon DEF Return, Goto, TInv, PlacesOK, ResultsOK
<1>3. Definite(g)' /\ Optional(g)' = Optional(g) /\ Call("owner")' = Call("owner")
      /\ Call("getCert")' = Call("getCert")
  BY <1>2, Zenon DEF Definite, Optional, Call
<1>4. InOptional(g) \/ InGetCert(g) \/ InOwner(g)
  BY Zenon DEF Shape, InLoad
<1>5. InOptional(g) => InOptional(g)'
  BY <1>2, <1>3, Zenon DEF InOptional
<1>6. InGetCert(g) => InGetCert(g)'
  BY <1>2, <1>3, Zenon DEF InGetCert
<1>7. InOwner(g) => InOwner(g)'
  BY <1>2, <1>3, Zenon DEF InOwner
<1> QED
  BY <1>4, <1>5, <1>6, <1>7, Zenon DEF Shape

\* What a call puts on the stack.
LEMMA PushCall ==
  ASSUME TInv, NEW g \in Goroutine, NEW call, Push(g, call, 0)
  PROVE  stack'[g] = <<Call(call)>> \o stack[g]
BY Zenon DEF Push, Call, TInv, StacksOK

\* A client that goes on keeps what it found if the shape of its stack is one
\* of those.
LEMMA KeptIf ==
  ASSUME NEW g \in Client, found'[g] = found[g], pc'[g] \notin {"idle", "done", "lookup"},
         found[g] # 0 => Shape(g)'
  PROVE  Kept(g)'
BY Zenon DEF Kept

\* A client that starts has found nothing yet; a background goroutine is no
\* client.
LEMMA KeptByStart ==
  ASSUME TInv, FoundKept, NEW g \in Goroutine, Start(g)
  PROVE  FoundKept'
<1>1. \A h \in Goroutine \ {g} : Still(h)
  BY Zenon DEF Start, Goto, Still, TInv, PlacesOK, LocalsOK
<1>2. UNCHANGED <<due, expired, stored>>
  BY Zenon DEF Start, world
<1>3. g \in Client /\ Kept(g) /\ pc[g] = "idle" /\ pc'[g] = "lookup" /\ UNCHANGED <<stack, found>>
  BY Zenon DEF Start, Goto, TInv, PlacesOK, FoundKept
<1>4. Kept(g)'
  BY <1>3, Zenon DEF Kept
<1> QED
  BY <1>1, <1>2, <1>4, OneMoves, Zenon DEF StoredIsNew, Goroutine

\* A client that enters getCertDuringHandshake again, after waiting, keeps the
\* frame that has the certificate below.
LEMMA KeptByEnter ==
  ASSUME TInv, FoundKept, NEW g \in Goroutine, Enter(g)
  PROVE  FoundKept'
<1>1. \A h \in Goroutine \ {g} : Still(h)
  BY Zenon DEF Enter, Goto, Push, Still, TInv, PlacesOK, LocalsOK, StacksOK
<1>2. UNCHANGED <<due, expired, stored, full, found>>
  BY Zenon DEF Enter, world
<1>3. g \in Client /\ Kept(g) /\ pc[g] = "enter" /\ pc'[g] \in {"manager", "waitLoad"}
  BY Zenon DEF Enter, Goto, TInv, PlacesOK, FoundKept, Goroutine
<1>4. ASSUME found[g] # 0 PROVE Shape(g)'
  <2>1. InOptional(g)
    BY <1>3, <1>4, Zenon DEF Kept, Shape, InOptional, InGetCert, InOwner, InLoad
  <2>2. Optional(g)' = Optional(g)
    BY <1>2, Zenon DEF Optional
  <2>3. CASE loadChan = Nobody
    <3>1. Push(g, "getCert", 0) /\ pc'[g] = "manager"
      BY <2>3, Zenon DEF Enter, Goto, TInv, PlacesOK
    <3>2. stack'[g] = <<Call("getCert"), Optional(g)>>
      <4>1. stack'[g] = <<Call("getCert")>> \o stack[g]
        BY <3>1, PushCall, Zenon
      <4> QED
        BY <2>1, <4>1, StackOfTwo DEF InOptional
    <3> QED
      BY <1>2, <1>3, <2>1, <2>2, <3>1, <3>2, Zenon DEF Shape, InGetCert, InOptional, Call
  <2>4. CASE loadChan # Nobody
    <3>1. stack'[g] = stack[g] /\ pc'[g] = "waitLoad"
      BY <2>4, Zenon DEF Enter, Goto, TInv, PlacesOK
    <3> QED
      BY <1>2, <1>3, <2>1, <2>2, <3>1, Zenon DEF Shape, InOptional
  <2> QED
    BY <2>3, <2>4, Zenon
<1> QED
  BY <1>1, <1>2, <1>3, <1>4, KeptIf, OneMoves, Zenon DEF StoredIsNew, Goroutine

\* So does one that asks the managers, and one that decides whether to load.
LEMMA KeptByAsking ==
  ASSUME TInv, FoundKept, NEW g \in Goroutine, AskManagers(g) \/ Decide(g)
  PROVE  FoundKept'
<1>1. \A h \in Goroutine \ {g} : Still(h)
  BY Zenon DEF AskManagers, Decide, Return, Goto, Still, TInv, PlacesOK, LocalsOK, ResultsOK
<1>2. UNCHANGED <<due, expired, stored, full, stack, found>>
  BY Zenon DEF AskManagers, Decide, world
<1>3. /\ g \in Client /\ Kept(g) /\ pc[g] \in {"manager", "decide"}
      /\ pc'[g] \in {"decide", "load", "return"}
  BY Zenon DEF AskManagers, Decide, Return, Goto, TInv, PlacesOK, FoundKept, Goroutine
<1>4. ASSUME found[g] # 0 PROVE Shape(g)'
  <2>1. InGetCert(g)
    BY <1>3, <1>4, Zenon DEF Kept, Shape, InOptional, InGetCert, InOwner, InLoad
  <2>2. CASE Return(g, 0, TRUE)
    BY <1>2, <1>3, <1>4, <2>1, <2>2, ErrorKept, Zenon DEF Shape
  <2>3. CASE Goto(g, "decide") \/ Return(g, External, FALSE)
    <3>1. pc'[g] = "decide" \/ (pc'[g] = "return" /\ Definite(g)')
      BY <2>3 DEF Return, Goto, TInv, PlacesOK, ResultsOK, Definite, External
    <3> QED
      BY <1>2, <2>1, <3>1, Zenon DEF Shape, InGetCert, Optional, Call
  <2> QED
    BY <2>1, <2>2, <2>3, Zenon DEF AskManagers, Decide, InGetCert
<1> QED
  BY <1>1, <1>2, <1>3, <1>4, KeptIf, OneMoves, Zenon DEF StoredIsNew, Goroutine

\* A load from storage returns an error or a certificate to that frame.
LEMMA KeptByLoading ==
  ASSUME TInv, FoundKept, NEW g \in Goroutine, LoadFromStorage(g) \/ LoadFails(g)
  PROVE  FoundKept'
<1>1. \A h \in Goroutine \ {g} : Still(h)
  BY DEF LoadFromStorage, LoadFails, Return, Goto, Push, Still, TInv, PlacesOK, LocalsOK,
         StacksOK, ResultsOK
<1>2. UNCHANGED <<due, expired, stored, full, found>>
  BY Zenon DEF LoadFromStorage, LoadFails, world
<1>3. /\ g \in Client /\ Kept(g) /\ pc[g] \in {"load", "loadObtained"}
      /\ pc'[g] \in {"maintain", "obtain", "return"}
  BY Zenon DEF LoadFromStorage, LoadFails, Return, Goto, TInv, PlacesOK, FoundKept, Goroutine
<1>4. ASSUME found[g] # 0 PROVE Shape(g)'
  <2>1. InOwner(g) /\ pc[g] = "loadObtained" /\ StoredIsNew
    BY <1>3, <1>4, Zenon DEF Kept, Shape, InOptional, InGetCert, InOwner, InLoad
  <2>2. CASE LoadFromStorage(g)
    <3>1. /\ stored > due /\ cert'[g] = stored /\ pc'[g] = "maintain"
      BY <2>1, <2>2, Zenon DEF LoadFromStorage, StoredIsNew, Goto, TInv, PlacesOK, LocalsOK
    <3>2. stack'[g] = <<Call("load"), Call("owner"), Optional(g)>>
      <4>1. stack'[g] = <<Call("load")>> \o stack[g]
        BY <2>2, PushCall, Zenon DEF LoadFromStorage
      <4> QED
        BY <2>1, <4>1, StackOfThree DEF InOwner
    <3> QED
      BY <1>2, <3>1, <3>2, Zenon DEF Shape, InLoad, Optional, Call
  <2>3. CASE LoadFails(g)
    <3>1. Return(g, 0, TRUE) /\ UNCHANGED stack
      BY <2>1, <2>3, Zenon DEF LoadFails
    <3> QED
      BY <1>2, <1>3, <1>4, <2>1, <3>1, ErrorKept, Zenon DEF Shape
  <2> QED
    BY <2>2, <2>3, Zenon
<1> QED
  BY <1>1, <1>2, <1>3, <1>4, KeptIf, OneMoves, Zenon DEF StoredIsNew, Goroutine

\* The upkeep of the certificate returns it, renews it, or obtains another.
LEMMA KeptByMaintain ==
  ASSUME TInv, FoundKept, NEW g \in Goroutine, Maintain(g)
  PROVE  FoundKept'
<1>1. \A h \in Goroutine \ {g} : Still(h)
  BY Zenon DEF Maintain, Return, Goto, Still, TInv, PlacesOK, LocalsOK, ResultsOK
<1>2. UNCHANGED <<due, expired, stored, full, found, stack, cert>>
  BY Zenon DEF Maintain, world
<1>3. /\ g \in Client /\ Kept(g) /\ pc[g] = "maintain" /\ pc'[g] \in {"obtain", "renew", "return"}
  BY Zenon DEF Maintain, Return, Goto, TInv, PlacesOK, FoundKept, Goroutine
<1>4. ASSUME found[g] # 0 PROVE Shape(g)'
  <2>1. Optional(g)' = Optional(g)
    BY <1>2, Zenon DEF Optional
  <2>2. \/ NeedsRenewal(cert[g]) /\ pc'[g] = IF stored = 0 THEN "obtain" ELSE "renew"
        \/ ~NeedsRenewal(cert[g]) /\ pc'[g] = "return" /\ res'[g].cert = cert[g] /\ res'[g].err = FALSE
    BY DEF Maintain, Return, Goto, TInv, PlacesOK, ResultsOK
  <2>3. CASE InOptional(g)
    <3>1. stack'[g] = <<Optional(g)>> /\ cert'[g] # 0
      BY <1>2, <1>3, <2>3, Zenon DEF InOptional
    <3>2. InOptional(g)'
      BY <1>2, <2>1, <2>2, <3>1, Zenon DEF InOptional, Definite, StoredIsNew
    <3> QED
      BY <3>2, Zenon DEF Shape
  <2>4. CASE InLoad(g)
    <3>1. cert[g] > due /\ cert[g] \in Nat /\ due \in Nat
      BY <1>2, <1>3, <2>4 DEF InLoad, TInv, LocalsOK, WorldOK
    <3>2. pc'[g] = "return" /\ res'[g].cert # 0 /\ res'[g].err = FALSE
      BY <2>2, <3>1 DEF NeedsRenewal
    <3>3. InLoad(g)'
      BY <1>2, <2>1, <2>4, <3>2, Zenon DEF InLoad, Call
    <3> QED
      BY <3>3, Zenon DEF Shape
  <2> QED
    BY <1>3, <1>4, <2>3, <2>4, Zenon DEF Kept, Shape, InGetCert, InOwner
<1> QED
  BY <1>1, <1>2, <1>3, <1>4, KeptIf, OneMoves, Zenon DEF StoredIsNew, Goroutine

\* A client whose certificate is gone from storage obtains one, or waits for
\* who does, above that frame.
LEMMA KeptByObtain ==
  ASSUME TInv, FoundKept, NEW g \in Goroutine, Obtain(g)
  PROVE  FoundKept'
<1>1. \A h \in Goroutine \ {g} : Still(h)
  BY Zenon DEF Obtain, Push, Goto, Still, TInv, PlacesOK, LocalsOK, StacksOK
<1>2. UNCHANGED <<due, expired, stored, full, found>>
  BY Zenon DEF Obtain, world
<1>3. /\ g \in Client /\ Kept(g) /\ pc[g] = "obtain" /\ pc'[g] \in {"obtaining", "waitObtain"}
  BY Zenon DEF Obtain, Goto, TInv, PlacesOK, FoundKept, Goroutine
<1>4. ASSUME found[g] # 0 PROVE Shape(g)'
  <2>1. InOptional(g) /\ StoredIsNew
    BY <1>3, <1>4, Zenon DEF Kept, Shape, InOptional, InGetCert, InOwner, InLoad
  <2>2. Optional(g)' = Optional(g) /\ StoredIsNew'
    BY <1>2, <2>1, Zenon DEF Optional, StoredIsNew
  <2>3. CASE obtainChan = Nobody
    <3>1. pc'[g] = "obtaining" /\ Push(g, "owner", 0)
      BY <2>3, Zenon DEF Obtain, Goto, TInv, PlacesOK
    <3>2. stack'[g] = <<Call("owner")>> \o stack[g]
      BY <3>1, PushCall, Zenon
    <3>3. stack'[g] = <<Call("owner"), Optional(g)>>
      BY <2>1, <3>2, StackOfTwo DEF InOptional
    <3> QED
      BY <2>2, <3>1, <3>3, Zenon DEF Shape, InOwner, Call
  <2>4. CASE obtainChan # Nobody
    <3>1. pc'[g] = "waitObtain" /\ stack'[g] = stack[g]
      BY <2>4, Zenon DEF Obtain, Goto, TInv, PlacesOK
    <3> QED
      BY <2>1, <2>2, <3>1, Zenon DEF Shape, InOptional
  <2> QED
    BY <2>3, <2>4, Zenon
<1> QED
  BY <1>1, <1>2, <1>3, <1>4, KeptIf, OneMoves, Zenon DEF StoredIsNew, Goroutine

\* The work returns an error or a certificate to the frame that has one.
LEMMA KeptByWork ==
  ASSUME TInv, FoundKept, NEW g \in Goroutine,
         ObtainCert(g) \/ RenewCheck(g) \/ RenewCert(g) \/ Reload(g)
  PROVE  FoundKept'
<1>1. \A h \in Goroutine \ {g} : Still(h)
  BY Zenon DEF ObtainCert, RenewCheck, RenewCert, Reload, Return, Goto, Still, TInv, PlacesOK,
         LocalsOK, ResultsOK
<1>2. UNCHANGED <<due, expired, full, found, stack>> /\ (StoredIsNew => StoredIsNew')
  <2>1. UNCHANGED <<full, found, stack>>
    BY Zenon DEF ObtainCert, RenewCheck, RenewCert, Reload
  <2>2. UNCHANGED <<due, expired, stored>> \/ IssueNew
    BY Zenon DEF ObtainCert, RenewCheck, RenewCert, Reload, world
  <2> QED
    BY <2>1, <2>2, IssuedIsNew, Zenon DEF StoredIsNew
<1>3. /\ pc[g] \in {"obtaining", "renewCheck", "renewing", "reload"}
      /\ pc'[g] \in {"loadObtained", "renewing", "reload", "return"}
      /\ pc[g] # "obtaining" => pc'[g] # "loadObtained"
  BY Zenon DEF ObtainCert, RenewCheck, RenewCert, Reload, Return, Goto, TInv, PlacesOK
<1>4. ASSUME g \in Client, found[g] # 0 PROVE Shape(g)'
  <2>1. InOwner(g) /\ (pc[g] = "obtaining" => StoredIsNew)
    BY <1>3, <1>4, Zenon DEF FoundKept, Kept, Shape, InOptional, InGetCert, InOwner, InLoad
  <2>2. CASE Return(g, 0, TRUE)
    BY <1>2, <1>3, <1>4, <2>1, <2>2, ErrorKept, Zenon DEF Shape
  <2>3. CASE ~Return(g, 0, TRUE)
    <3>1. pc'[g] = "return" => Definite(g)'
      <4>1. pc'[g] = "return" => stored # 0 /\ Return(g, stored, FALSE)
        BY <1>3, <2>3, Zenon DEF ObtainCert, RenewCheck, RenewCert, Reload, Goto, TInv, PlacesOK
      <4> QED
        BY <4>1 DEF Return, TInv, ResultsOK, Definite
    <3> QED
      BY <1>2, <1>3, <2>1, <3>1, Zenon DEF Shape, InOwner, Optional, Call
  <2> QED
    BY <2>2, <2>3, Zenon
<1>5. g \in Client => Kept(g)'
  BY <1>2, <1>3, <1>4, KeptIf, Zenon
<1> QED
  BY <1>1, <1>2, <1>5, OneMoves, Zenon DEF Goroutine

\* A renewal puts the owner's frame on, above the frame that has the
\* certificate.
LEMMA KeptByRenewDynamic ==
  ASSUME TInv, FoundKept, NEW g \in Goroutine, RenewDynamic(g)
  PROVE  FoundKept'
<1>1. g \in Client /\ Kept(g) /\ pc[g] = "renew" /\ Background \notin Client
  BY NamesAssumption, Zenon DEF RenewDynamic, TInv, PlacesOK, FoundKept, Goroutine
<1>2. \A h \in Client \ {g} : Still(h)
  <2>1. \A h \in Client \ {g} : h \in Goroutine /\ h # g /\ h # Background
    BY <1>1, Zenon DEF Goroutine
  <2>2. \A h \in Client \ {g} : pc'[h] = pc[h] /\ cert'[h] = cert[h] /\ res'[h] = res[h]
    BY <2>1, Zenon DEF RenewDynamic, Return, Goto, TInv, PlacesOK, LocalsOK, ResultsOK
  <2>3. \A h \in Client \ {g} : stack'[h] = stack[h]
    BY <2>1, Zenon DEF RenewDynamic, Push, TInv, StacksOK
  <2> QED
    BY <2>2, <2>3, Zenon DEF RenewDynamic, Still
<1>3. UNCHANGED <<due, expired, stored, full, found>>
  BY Zenon DEF RenewDynamic, world
<1>4. \/ pc'[g] = "return" /\ res'[g].cert = cert[g] /\ stack'[g] = stack[g]
      \/ pc'[g] = "waitObtain" /\ stack'[g] = stack[g]
      \/ pc'[g] = "renewCheck" /\ Push(g, "owner", 0)
  <2>1. CASE Return(g, cert[g], FALSE) /\ UNCHANGED stack
    BY <2>1, Zenon DEF Return, Goto, TInv, PlacesOK, ResultsOK
  <2>2. CASE Goto(g, "waitObtain") /\ UNCHANGED stack
    BY <2>2, Zenon DEF Goto, TInv, PlacesOK
  <2>3. CASE Goto(g, "renewCheck") /\ Push(g, "owner", 0)
    BY <2>3, Zenon DEF Goto, TInv, PlacesOK
  <2>4. CASE /\ pc' = [pc EXCEPT ![g] = "return", ![Background] = "renewCheck"]
             /\ res' = [res EXCEPT ![g] = [cert |-> cert[g], err |-> FALSE]]
             /\ Push(Background, "owner", 0)
    BY <1>1, <2>4, Zenon DEF Push, TInv, PlacesOK, ResultsOK, StacksOK
  <2> QED
    BY <2>1, <2>2, <2>3, <2>4, Zenon DEF RenewDynamic
<1>5. ASSUME found[g] # 0 PROVE Shape(g)'
  <2>1. InOptional(g) /\ cert[g] # 0
    BY <1>1, <1>5, Zenon DEF Kept, Shape, InOptional, InGetCert, InOwner, InLoad
  <2>2. Optional(g)' = Optional(g)
    BY <1>3, Zenon DEF Optional
  <2>3. CASE pc'[g] = "renewCheck" /\ Push(g, "owner", 0)
    <3>1. stack'[g] = <<Call("owner")>> \o stack[g]
      BY <2>3, PushCall, Zenon
    <3>2. stack'[g] = <<Call("owner"), Optional(g)>>
      BY <2>1, <3>1, StackOfTwo DEF InOptional
    <3> QED
      BY <2>2, <2>3, <3>2, Zenon DEF Shape, InOwner, Call
  <2> QED
    BY <1>4, <2>1, <2>2, <2>3, Zenon DEF Shape, InOptional, Definite
<1>6. Kept(g)'
  BY <1>1, <1>3, <1>4, <1>5, KeptIf, Zenon
<1> QED
  BY <1>2, <1>3, <1>6, OneMoves, Zenon DEF StoredIsNew

\* Who stops waiting returns to the frame that has the certificate.
LEMMA KeptByTimeOut ==
  ASSUME TInv, FoundKept, NEW g \in Goroutine, TimeOut(g)
  PROVE  FoundKept'
<1>1. \A h \in Goroutine \ {g} : Still(h)
  BY Zenon DEF TimeOut, Return, Goto, Still, TInv, PlacesOK, LocalsOK, ResultsOK
<1>2. UNCHANGED <<due, expired, stored, full, found, stack>> /\ Return(g, 0, TRUE)
  BY Zenon DEF TimeOut, world
<1>3. g \in Client /\ Kept(g) /\ pc[g] \in {"waitLoad", "waitObtain"} /\ pc'[g] = "return"
  BY Zenon DEF TimeOut, Return, Goto, TInv, PlacesOK, FoundKept, Goroutine
<1>4. found[g] # 0 => Shape(g)'
  BY <1>2, <1>3, ErrorKept, Zenon DEF Kept
<1> QED
  BY <1>1, <1>2, <1>3, <1>4, KeptIf, OneMoves, Zenon DEF StoredIsNew, Goroutine

\* With the stack empty, the result is a certificate, unless the one that was
\* found has expired.
LEMMA KeptByLast ==
  ASSUME TInv, FoundKept, NEW g \in Goroutine, ReturnLast(g) \/ Finish(g)
  PROVE  FoundKept'
<1>1. \A h \in Goroutine \ {g} : Still(h)
  BY Zenon DEF ReturnLast, Finish, Goto, Still, TInv, PlacesOK, LocalsOK, ResultsOK
<1>2. UNCHANGED <<due, expired, stored, stack>>
  BY Zenon DEF ReturnLast, Finish, world
<1>3. ASSUME g \in Client PROVE Kept(g)'
  <2>1. Kept(g)
    BY <1>3, Zenon DEF FoundKept
  <2>2. CASE ReturnLast(g)
    <3>1. pc[g] = "return" /\ pc'[g] = "done" /\ stack[g] = <<>> /\ UNCHANGED <<found, res>>
      BY <2>2, Zenon DEF ReturnLast, Goto, TInv, PlacesOK
    <3>2. found[g] # 0 => Served(g)
      BY <2>1, <3>1, StackOfOne, StackOfTwo, StackOfThree
         DEF Kept, Shape, InOptional, InGetCert, InOwner, InLoad
    <3> QED
      BY <1>2, <3>1, <3>2, Zenon DEF Kept, Shape, Served, Expired
  <2>3. CASE Finish(g)
    <3>1. pc[g] = "done" /\ pc'[g] = "idle" /\ found'[g] = 0
      BY <2>3, Zenon DEF Finish, Goto, TInv, PlacesOK, LocalsOK
    <3> QED
      BY <1>2, <2>1, <3>1, Zenon DEF Kept
  <2> QED
    BY <1>3, <2>2, <2>3, Zenon
<1> QED
  BY <1>1, <1>2, <1>3, OneMoves, Zenon DEF StoredIsNew, Goroutine

\* Whoever waits starts again from the cache, with its certificate at hand.
LEMMA WokenKept ==
  ASSUME TInv, NEW h \in Client, Kept(h), NEW waiting \in {"waitLoad", "waitObtain"}, Wake(waiting),
         stack'[h] = stack[h], UNCHANGED <<due, expired, stored, cert, res, found>>
  PROVE  Kept(h)'
<1>1. h \in Goroutine
  BY Zenon DEF Goroutine
<1>2. CASE pc[h] = waiting
  <2>1. pc'[h] = "lookup" /\ full'[h] = FALSE
    BY <1>1, <1>2, Zenon DEF Wake
  <2>2. found[h] # 0 => InOptional(h)
    BY <1>2, Zenon DEF Kept, Shape, InOptional, InGetCert, InOwner, InLoad
  <2>3. found[h] # 0 => InOptional(h)'
    BY <2>1, <2>2, Zenon DEF InOptional, Optional
  <2> QED
    BY <2>1, <2>3, Zenon DEF Kept, Shape
<1>3. CASE pc[h] # waiting
  <2>1. pc'[h] = pc[h] /\ full'[h] = full[h]
    BY <1>1, <1>3, Zenon DEF Wake, TInv, LocalsOK
  <2> QED
    BY <2>1, OtherKept, Zenon DEF Still, StoredIsNew
<1> QED
  BY <1>2, <1>3, Zenon

\* Of the calls of a handshake that found a certificate, the innermost says
\* which one returns.
LEMMA WhoReturns ==
  ASSUME NEW g \in Client, Kept(g), found[g] # 0, pc[g] = "return", stack[g] # <<>>
  PROVE  /\ Top(g).call = "optional" =>
               stack[g] = <<Optional(g)>> /\ Definite(g)
         /\ Top(g).call = "getCert" =>
               stack[g] = <<Call("getCert"), Optional(g)>> /\ Definite(g)
         /\ Top(g).call = "owner" =>
               stack[g] = <<Call("owner"), Optional(g)>> /\ Definite(g)
         /\ Top(g).call = "load" =>
               /\ stack[g] = <<Call("load"), Call("owner"), Optional(g)>>
               /\ ~res[g].err /\ res[g].cert # 0
<1>1. /\ Optional(g).call = "optional" /\ Call("getCert").call = "getCert"
      /\ Call("owner").call = "owner" /\ Call("load").call = "load"
  BY Zenon DEF Optional, Call
<1>2. CASE InOptional(g)
  <2>1. stack[g] = <<Optional(g)>> /\ Definite(g)
    BY <1>2, Zenon DEF InOptional
  <2>2. Top(g) = Optional(g)
    BY <2>1, StackOfOne, Zenon DEF Top
  <2> QED
    BY <1>1, <2>1, <2>2, Zenon
<1>3. CASE InGetCert(g)
  <2>1. stack[g] = <<Call("getCert"), Optional(g)>> /\ Definite(g)
    BY <1>3, Zenon DEF InGetCert
  <2>2. Top(g) = Call("getCert")
    BY <2>1, StackOfTwo, Zenon DEF Top
  <2> QED
    BY <1>1, <2>1, <2>2, Zenon
<1>4. CASE InOwner(g)
  <2>1. stack[g] = <<Call("owner"), Optional(g)>> /\ Definite(g)
    BY <1>4, Zenon DEF InOwner
  <2>2. Top(g) = Call("owner")
    BY <2>1, StackOfTwo, Zenon DEF Top
  <2> QED
    BY <1>1, <2>1, <2>2, Zenon
<1>5. CASE InLoad(g)
  <2>1. /\ stack[g] = <<Call("load"), Call("owner"), Optional(g)>>
        /\ ~res[g].err /\ res[g].cert # 0
    BY <1>5, Zenon DEF InLoad
  <2>2. Top(g) = Call("load")
    BY <2>1, StackOfThree DEF Top
  <2> QED
    BY <1>1, <2>1, <2>2, Zenon
<1> QED
  BY <1>2, <1>3, <1>4, <1>5, Zenon DEF Kept, Shape

\* A return takes a frame off, down to the one that has the certificate.
LEMMA KeptByReturn ==
  ASSUME TInv, FoundKept, NEW g \in Goroutine,
         ReturnOptional(g) \/ ReturnLoad(g) \/ ReturnOwner(g) \/ ReturnGetCert(g)
  PROVE  FoundKept'
<1>1. /\ UNCHANGED <<due, expired, stored, cert, found>>
      /\ pc[g] = "return" /\ stack[g] # <<>> /\ Pop(g)
  BY Zenon DEF ReturnOptional, ReturnLoad, ReturnOwner, ReturnGetCert, Returning, world
<1>2. pc'[g] = "return" /\ full'[g] = full[g]
  BY <1>1, Zenon DEF ReturnOptional, ReturnLoad, ReturnOwner, ReturnGetCert, Wake, TInv, LocalsOK
<1>3. stack'[g] = Tail(stack[g]) /\ \A h \in Goroutine \ {g} : stack'[h] = stack[h]
  BY <1>1, Zenon DEF Pop, TInv, StacksOK
<1>4. ASSUME g \in Client, found[g] # 0 PROVE Shape(g)'
  <2>1. Kept(g) /\ Optional(g)' = Optional(g)
    BY <1>1, <1>4, Zenon DEF FoundKept, Optional
  <2>2. CASE ReturnOptional(g)
    <3>1. stack[g] = <<Optional(g)>> /\ Definite(g)
      BY <1>1, <1>4, <2>1, <2>2, WhoReturns, Zenon DEF ReturnOptional, Returning
    <3>2. stack'[g] = <<>> /\ Top(g).cert = found[g]
      BY <1>3, <3>1, StackOfOne DEF Top, Optional
    <3>3. res'[g] = IF res[g].err THEN [cert |-> found[g], err |-> Expired(found[g])] ELSE res[g]
      BY <2>2, <3>2, Zenon DEF ReturnOptional, TInv, ResultsOK
    <3>4. Served(g)'
      <4>1. CASE res[g].err
        <5>1. res'[g].cert = found[g] /\ res'[g].err = Expired(found[g])
          BY <3>3, <4>1
        <5> QED
          BY <1>1, <1>4, <5>1, Zenon DEF Served, Expired
      <4>2. CASE ~res[g].err
        BY <1>1, <3>1, <3>3, <4>2, Zenon DEF Served, Definite, Expired
      <4> QED
        BY <4>1, <4>2, Zenon
    <3> QED
      BY <1>2, <3>2, <3>4, Zenon DEF Shape
  <2>3. CASE ReturnLoad(g)
    <3>1. /\ stack[g] = <<Call("load"), Call("owner"), Optional(g)>>
          /\ ~res[g].err /\ res[g].cert # 0
      BY <1>1, <1>4, <2>1, <2>3, WhoReturns, Zenon DEF ReturnLoad, Returning
    <3>2. stack'[g] = <<Call("owner"), Optional(g)>>
      BY <1>3, <3>1, StackOfThree
    <3>3. res'[g].cert = res[g].cert
      BY <2>3, Zenon DEF ReturnLoad, TInv, ResultsOK, Result
    <3> QED
      BY <1>2, <2>1, <3>1, <3>2, <3>3, Zenon DEF Shape, InOwner, Definite, Call
  <2>4. CASE ReturnOwner(g) \/ ReturnGetCert(g)
    <3>1. /\ \E name \in {"owner", "getCert"} : stack[g] = <<Call(name), Optional(g)>>
          /\ Definite(g)
      BY <1>1, <1>4, <2>1, <2>4, WhoReturns, Zenon DEF ReturnOwner, ReturnGetCert, Returning
    <3>2. stack'[g] = <<Optional(g)>>
      BY <1>3, <3>1, StackOfTwo
    <3>3. res'[g] = res[g]
      BY <2>4, Zenon DEF ReturnOwner, ReturnGetCert
    <3> QED
      BY <1>2, <2>1, <3>1, <3>2, <3>3, Zenon DEF Shape, InOptional, Definite
  <2> QED
    BY <2>2, <2>3, <2>4, Zenon
<1>5. g \in Client => Kept(g)'
  BY <1>1, <1>2, <1>4, KeptIf, Zenon
<1>6. CASE ReturnOptional(g) \/ ReturnLoad(g)
  <2>1. \A h \in Goroutine \ {g} : Still(h)
    BY <1>1, <1>3, <1>6, Zenon DEF ReturnOptional, ReturnLoad, Still, TInv, ResultsOK
  <2> QED
    BY <1>1, <1>5, <2>1, OneMoves, Zenon DEF StoredIsNew, Goroutine
<1>7. CASE ReturnOwner(g) \/ ReturnGetCert(g)
  <2>1. UNCHANGED res /\ \E waiting \in {"waitLoad", "waitObtain"} : Wake(waiting)
    BY <1>7, Zenon DEF ReturnOwner, ReturnGetCert
  <2>2. ASSUME NEW h \in Client \ {g} PROVE Kept(h)'
    BY <1>1, <1>3, <2>1, WokenKept, Zenon DEF FoundKept, Goroutine
  <2> QED
    BY <1>5, <2>2, Zenon DEF FoundKept
<1> QED
  BY <1>6, <1>7, Zenon

\* The environment.  A certificate that is being obtained does not come into
\* its renewal window.
LEMMA KeptByEnvironment ==
  ASSUME TInv, Owners, FoundKept, Age \/ Evict \/ Delete \/ OtherIssues \/ ChangeDecision
  PROVE  FoundKept'
<1>1. \A h \in Client : Still(h)
  BY Zenon DEF Age, Evict, Delete, OtherIssues, ChangeDecision, Still
<1>2. CASE Evict \/ Delete \/ OtherIssues \/ ChangeDecision
  <2>1. UNCHANGED <<due, expired>>
    BY <1>2, Zenon DEF Evict, Delete, OtherIssues, IssueNew, ChangeDecision
  <2>2. StoredIsNew => StoredIsNew'
    <3>1. UNCHANGED stored \/ stored' = 0 \/ IssueNew
      BY <1>2, Zenon DEF Evict, Delete, OtherIssues, ChangeDecision
    <3> QED
      BY <2>1, <3>1, IssuedIsNew, Zenon DEF StoredIsNew
  <2> QED
    BY <1>1, <2>1, <2>2, OtherKept, Zenon DEF FoundKept
<1>3. CASE Age
  <2> SUFFICES ASSUME NEW h \in Client PROVE Kept(h)'
    BY Zenon DEF FoundKept
  <2>1. h \in Goroutine /\ Kept(h) /\ Still(h) /\ UNCHANGED stored
    BY <1>1, <1>3, Zenon DEF FoundKept, Goroutine, Age
  <2>2. /\ Optional(h)' = Optional(h) /\ Definite(h)' = Definite(h)
        /\ Call("owner")' = Call("owner") /\ Call("getCert")' = Call("getCert")
    BY <2>1, Zenon DEF Optional, Definite, Call, Still
  <2>3. Served(h) => Served(h)'
    BY <1>3, <2>1 DEF Served, Expired, Age, Still, TInv, WorldOK, LocalsOK
  <2>4. InGetCert(h) => InGetCert(h)'
    BY <2>1, <2>2, Zenon DEF InGetCert, Still
  <2>5. CASE expired' = due /\ UNCHANGED due
    <3>1. StoredIsNew' = StoredIsNew
      BY <2>1, <2>5, Zenon DEF StoredIsNew
    <3>2. InOptional(h) => InOptional(h)'
      BY <2>1, <2>2, <3>1, Zenon DEF InOptional, Still
    <3>3. InOwner(h) => InOwner(h)'
      BY <2>1, <2>2, <3>1, Zenon DEF InOwner, Still
    <3>4. InLoad(h) => InLoad(h)'
      BY <2>1, <2>2, <2>5, Zenon DEF InLoad, Still, Call
    <3> QED
      BY <2>1, <2>3, <2>4, <3>2, <3>3, <3>4, Zenon DEF Kept, Shape, Still
  <2>6. CASE obtainChan = Nobody /\ \A g \in Client : pc[g] # "obtain"
    <3>1. ~Owning(stack[h])
      BY <2>1, <2>6, NamesAssumption, Zenon DEF Owners
    <3>2. ~InOwner(h)
      <4>1. Owning(<<Call("owner"), Optional(h)>>)
        BY DEF Owning, Call
      <4> QED
        BY <3>1, <4>1, Zenon DEF InOwner
    <3>3. ~InLoad(h)
      <4>1. Owning(<<Call("load"), Call("owner"), Optional(h)>>)
        BY DEF Owning, Call
      <4> QED
        BY <3>1, <4>1, Zenon DEF InLoad
    <3>4. InOptional(h) => InOptional(h)'
      BY <2>1, <2>2, <2>6, Zenon DEF InOptional, Still
    <3> QED
      BY <2>1, <2>3, <2>4, <3>2, <3>3, <3>4, Zenon DEF Kept, Shape, Still
  <2> QED
    BY <1>3, <2>5, <2>6, Zenon DEF Age
<1> QED
  BY <1>2, <1>3, Zenon

\* Every step keeps what a client found.
LEMMA FoundKeptStep ==
  ASSUME TInv, Owners, FoundKept, [Next]_vars
  PROVE  FoundKept'
<1>1. CASE UNCHANGED vars
  <2>1. \A h \in Client : Still(h)
    BY <1>1, Zenon DEF vars, Still
  <2> QED
    BY <1>1, <2>1, OtherKept, Zenon DEF vars, StoredIsNew, FoundKept
<1> QED
  BY <1>1, KeptByStart, KeptByLookup, KeptByEnter, KeptByAsking, KeptByLoading, KeptByMaintain,
     KeptByObtain, KeptByWork, KeptByRenewDynamic, KeptByReturn, KeptByLast, KeptByTimeOut,
     KeptByEnvironment, Zenon DEF Next, Step

\* "Still has time remaining, so serve it anyway", for any number of
\* handshakes and whatever fails, is denied, deleted, evicted or renewed at the
\* same time: a handshake that found an unexpired certificate gets one.
THEOREM HandshakeFoundIsServed == Spec => []FoundIsServed
<1>1. Init => FoundKept
  BY Zenon DEF Init, FoundKept, Kept, Goroutine
<1>2. FoundKept => FoundIsServed
  <2> SUFFICES ASSUME FoundKept, NEW g \in Client, pc[g] = "done", found[g] # 0
               PROVE  Served(g)
    BY Zenon DEF FoundIsServed, Served
  <2> QED
    BY Zenon DEF FoundKept, Kept, Shape, InOptional, InGetCert, InOwner, InLoad
<1> QED
  BY <1>1, <1>2, OwnersInvariant, FoundKeptStep, PTL DEF Spec
=============================================================================
