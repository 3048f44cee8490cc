-------------------------- MODULE ACMEClientProof ---------------------------
(***************************************************************************)
(* Proofs about what stands between a certificate and its order, for any   *)
(* number of calls, faults and registrations: the account of the ACME      *)
(* client (ACMEAccounts) and the rate limiter that its orders go through   *)
(* (RateLimiter).  The two have no state in common.                        *)
(*                                                                         *)
(* Accounts are registered once (RegisteredOnce).  Two facts are behind    *)
(* it: whoever is about to register an account or is saving it holds the   *)
(* lock (LockHeld), and whoever is about to register one has found, after  *)
(* taking the lock, that storage has none (NoneFound).  That remains true  *)
(* until the account is saved, as only the holder of the lock saves        *)
(* accounts and everybody else can but delete them.  The types (TypeOK)    *)
(* and the origin of certificates (TestCertsDiscarded) are an invariant of *)
(* their own, with the bound on the orders (TwoOrders).  That the two      *)
(* files are of one account (AccountNotMixed) rests on the lock too:       *)
(* between SaveReg and SaveKey the registration stays the one that was     *)
(* saved or is deleted (Saving).                                           *)
(*                                                                         *)
(* No window has more tickets than the limit (WindowRespected).  Going     *)
(* back from the cursor, the slots of the ring hold the records of the     *)
(* last tickets, no older than the tickets themselves (RingFollows).  So   *)
(* when the record at the cursor has left the window, which the loop waits *)
(* for (Waited), the ticket MaxEvents before the next one has left it, and *)
(* with it all the earlier ones (OthersOut, OldestFirst).  A wait that was *)
(* computed for another limit or window can but matter to the first ticket *)
(* after the change.                                                       *)
(***************************************************************************)
EXTENDS ACMEAccounts, RateLimiter, FiniteSetTheorems, TLAPS

-----------------------------------------------------------------------------
(* Accounts: the inductive invariant *)


Location ==
    Outcome \cup {"loadReg", "loadKey", "lock", "register", "saveReg", "saveKey", "undo",
                  "order", "deleteReg", "deleteKey"}

\* The types of the variables that the argument is about.
Shape ==
    /\ reg \in [CA -> Nat] /\ key \in [CA -> Nat]
    /\ known \in [CA -> SUBSET Nat] /\ made \in Nat
    /\ lock \in Worker \cup {Nobody}
    /\ pc \in [Worker -> Location]
    /\ round \in [Worker -> {"first", "test", "again"}]
    /\ acct \in [Worker -> [reg : Nat, key : Nat]]

\* Where newACMEClientWithAccount registers and saves an account.
Registering == {"register", "saveReg", "saveKey", "undo"}

LockHeld == \A w \in Worker : pc[w] \in Registering => lock = w

\* The account in storage is one account, whether the authority knows it or not.
Loadable(c) == reg[c] # 0 /\ reg[c] = key[c]

NoneFound == \A w \in Worker : pc[w] = "register" => ~Loadable(Directory(w))

IInv == Shape /\ LockHeld /\ NoneFound

-----------------------------------------------------------------------------
\* What an account without files is made of.
LEMMA NoAccountShape == NoAccount \in [reg : Nat, key : Nat]
BY SMTT(30) DEF NoAccount

\* Every step keeps the types, the lock and what was found under it.
LEMMA IInvStep ==
  ASSUME IInv, [Next]_vars
  PROVE  IInv'
<1> USE NamesAssumption, NoAccountShape
<1> USE DEF IInv, Shape, LockHeld, NoneFound, Loadable, Directory, Registering, Location, CA,
            Goto, files, server, local
<1>1. ASSUME NEW w \in Worker, NEW how \in {"first", "test"}, Begin(w, how) PROVE IInv'
  BY <1>1, Zenon DEF Begin, Outcome
<1>2. ASSUME NEW w \in Worker, LoadReg(w) PROVE IInv'
  BY <1>2, SMTT(30) DEF LoadReg, NewAccount
<1>3. ASSUME NEW w \in Worker, LoadKey(w) PROVE IInv'
  <2>0. pc[w] = "loadKey" /\ UNCHANGED <<reg, key, known, made>>
    BY <1>3, Zenon DEF LoadKey
  <2>1. CASE key[Directory(w)] = 0 /\ NewAccount(w)
    BY <2>0, <2>1, Zenon DEF NewAccount
  <2>2. ASSUME NEW a, Connected(w, a) PROVE IInv'
    <3>1. CASE tries[w] = 2
      BY <2>0, <2>2, <3>1, SMTT(30) DEF Connected, ReleaseLock, Clear, Outcome
    <3>2. CASE tries[w] # 2
      <4>1. /\ pc' = [pc EXCEPT ![w] = "order"]
            /\ acct' = [acct EXCEPT ![w] = NoAccount]
            /\ round' = round
            /\ lock' = IF lock = w THEN Nobody ELSE lock
        BY <2>2, <3>2, Zenon DEF Connected, ReleaseLock
      <4> QED
        BY <2>0, <4>1, Zenon
    <3> QED
      BY <3>1, <3>2, Zenon
  <2> QED
    BY <1>3, <2>1, <2>2, Zenon DEF LoadKey
<1>4. ASSUME NEW w \in Worker, LoadFails(w) PROVE IInv'
  BY <1>4, Zenon DEF LoadFails, Fail, ReleaseLock, Clear, Fault, Outcome
<1>5. ASSUME NEW w \in Worker, AcquireLock(w) PROVE IInv'
  BY <1>5, Zenon DEF AcquireLock
<1>6. ASSUME NEW w \in Worker, Register(w) PROVE IInv'
  BY <1>6 DEF Register
<1>7. ASSUME NEW w \in Worker, RegisterFails(w) PROVE IInv'
  BY <1>7, Zenon DEF RegisterFails, Fail, ReleaseLock, Clear, Outcome
<1>8. ASSUME NEW w \in Worker, SaveReg(w) PROVE IInv'
  BY <1>8 DEF SaveReg
<1>9. ASSUME NEW w \in Worker, SaveKey(w) PROVE IInv'
  BY <1>9, SMTT(30) DEF SaveKey, Connected, ReleaseLock, Clear, Outcome
<1>10. ASSUME NEW w \in Worker, SaveFails(w) PROVE IInv'
  <2>1. CASE pc[w] = "saveReg"
    BY <1>10, <2>1, SMTT(30) DEF SaveFails, Fail, ReleaseLock, Clear, Outcome
  <2>2. CASE pc[w] = "saveKey"
    BY <1>10, <2>2, Zenon DEF SaveFails
  <2> QED
    BY <1>10, <2>1, <2>2, Zenon DEF SaveFails
<1>11. ASSUME NEW w \in Worker, UndoSave(w) PROVE IInv'
  BY <1>11, Zenon DEF UndoSave, Fail, ReleaseLock, Clear, Outcome
<1>12. ASSUME NEW w \in Worker, UndoFails(w) PROVE IInv'
  BY <1>12, Zenon DEF UndoFails, Fail, ReleaseLock, Clear, Fault, Outcome
<1>13. ASSUME NEW w \in Worker, Order(w) PROVE IInv'
  <2>1. CASE Succeed(w) /\ UNCHANGED lock
    <3>1. CASE round[w] = "test"
      BY <1>13, <2>1, <3>1 DEF Order, Succeed
    <3>2. CASE round[w] # "test"
      <4>1. /\ pc' = [pc EXCEPT ![w] = "cert"]
            /\ round' = [round EXCEPT ![w] = "first"]
            /\ acct' = [acct EXCEPT ![w] = NoAccount]
            /\ UNCHANGED <<reg, key, known, made, lock>>
        BY <1>13, <2>1, <3>2, Zenon DEF Order, Succeed, Clear
      <4> QED
        BY <4>1, Zenon DEF Outcome
    <3> QED
      BY <3>1, <3>2, Zenon
  <2>2. CASE Goto(w, "deleteReg") /\ UNCHANGED <<lock, round, acct>>
    BY <1>13, <2>2, Zenon DEF Order
  <2>3. CASE Fail(w, FALSE)
    BY <1>13, <2>3, Zenon DEF Order, Fail, ReleaseLock, Clear, Outcome
  <2> QED
    BY <1>13, <2>1, <2>2, <2>3, Zenon DEF Order
<1>14. ASSUME NEW w \in Worker, OrderFails(w) PROVE IInv'
  BY <1>14 DEF OrderFails, Fail, ReleaseLock, Clear, Outcome
<1>15. ASSUME NEW w \in Worker, DeleteReg(w) PROVE IInv'
  BY <1>15, Zenon DEF DeleteReg
<1>16. ASSUME NEW w \in Worker, DeleteKey(w) PROVE IInv'
  BY <1>16, Zenon DEF DeleteKey
<1>17. ASSUME NEW w \in Worker, DeleteFails(w) PROVE IInv'
  BY <1>17, Zenon DEF DeleteFails, Fail, ReleaseLock, Clear, Fault, Outcome
<1>18. ASSUME NEW w \in Worker, Crash(w) PROVE IInv'
  BY <1>18, Zenon DEF Crash, Clear, Fault, Outcome
<1>19. ASSUME NEW c \in CA, Reset(c) PROVE IInv'
  BY <1>19, Zenon DEF Reset, Fault
<1>20. CASE LockExpires
  BY <1>20, Zenon DEF LockExpires
<1>21. CASE UNCHANGED vars
  BY <1>21, Zenon DEF vars
<1> QED
  BY <1>1, <1>2, <1>3, <1>4, <1>5, <1>6, <1>7, <1>8, <1>9, <1>10,
     <1>11, <1>12, <1>13, <1>14, <1>15, <1>16, <1>17, <1>18, <1>19, <1>20, <1>21, Zenon
  DEF Next, Step

\* The invariant holds in every state.
THEOREM IInvInvariant == Spec => []IInv
<1>1. Init => IInv
  BY NoAccountShape DEF Init, IInv, Shape, LockHeld, NoneFound, Registering, Location, Outcome
<1>2. IInv /\ [Next]_vars => IInv'
  BY IInvStep, Zenon
<1> QED
  BY <1>1, <1>2, PTL DEF Spec

\* "synchronize this so the account is only created once": no call of
\* newACMEClientWithAccount registers an account with an authority while storage
\* has one that it knows, for any number of concurrent calls and any faults.
THEOREM AccountsRegisteredOnce == Spec => RegisteredOnce
<1> DEFINE Once == \A c \in CA : known'[c] \subseteq known[c] \/ ~Usable(c)
<1>1. IInv /\ [Next]_vars => [Once]_vars
  <2> SUFFICES ASSUME IInv, Next PROVE Once
    BY Zenon
  <2>1. ASSUME NEW w \in Worker, Register(w) PROVE Once
    BY <2>1, Zenon DEF Register, IInv, Shape, NoneFound, Loadable, Usable, Valid, Directory, CA
  <2>2. ASSUME NEW c \in CA, Reset(c) PROVE Once
    BY <2>2, Zenon DEF Reset, IInv, Shape
  <2>3. CASE UNCHANGED known
    BY <2>3, Zenon
  <2> QED
    BY <2>1, <2>2, <2>3, Zenon
    DEF Next, Step, Begin, LoadReg, LoadKey, LoadFails, AcquireLock, RegisterFails, SaveReg,
        SaveKey, SaveFails, UndoSave, UndoFails, Order, OrderFails, DeleteReg, DeleteKey,
        DeleteFails, Crash, LockExpires, server
<1> QED
  BY IInvInvariant, <1>1, PTL DEF Spec, RegisteredOnce

-----------------------------------------------------------------------------
\* doIssue places an order only if it has placed less than two.
TwoOrders == \A w \in Worker : pc[w] = "order" => tries[w] \in {0, 1}

TInv == TypeOK /\ TwoOrders /\ TestCertsDiscarded

\* An account without files is one.
LEMMA NoAccountType == NoAccount \in [reg : Account, key : Account]
BY BoundAssumption DEF NoAccount, Account

\* A call that is over leaves variables of their types, whichever its outcome.
LEMMA ClearTypes ==
  ASSUME TInv, NEW w \in Worker, NEW o \in Outcome \ {"cert"}, Clear(w, o),
         chain' \in {chain, [chain EXCEPT ![w] = "none"]}
  PROVE  /\ pc' \in [Worker -> Outcome \cup {"loadReg", "loadKey", "lock", "register",
                               "saveReg", "saveKey", "undo", "order", "deleteReg", "deleteKey"}]
         /\ round' \in [Worker -> {"first", "test", "again"}]
         /\ tries' \in [Worker -> 0 .. 2]
         /\ acct' \in [Worker -> [reg : Account, key : Account]]
         /\ params' \in [Worker -> [reg : Account, key : Account]]
         /\ chain' \in [Worker -> CA \cup {"none"}]
         /\ TwoOrders' /\ TestCertsDiscarded'
BY NoAccountType DEF TInv, TypeOK, TwoOrders, TestCertsDiscarded, Clear, Outcome

\* Every step keeps the types, the number of orders and whose certificate it is.
LEMMA TInvStep ==
  ASSUME TInv, [Next]_vars
  PROVE  TInv'
<1> USE NamesAssumption, BoundAssumption, FaultAssumption, NoAccountType
<1> USE DEF TInv, Goto, files, server, local
<1>1. ASSUME NEW w \in Worker, NEW how \in {"first", "test"}, Begin(w, how) PROVE TInv'
  BY <1>1, Zenon DEF Begin, TypeOK, TwoOrders, TestCertsDiscarded, Outcome
<1>2. ASSUME NEW w \in Worker, NEW b \in BOOLEAN, Fail(w, b),
             reg' \in [CA -> Account], UNCHANGED <<key, server>>, faults' \subseteq FaultKind
      PROVE  TInv'
  <2>1. PICK o \in {"noRetry", "error"} : Clear(w, o)
    BY <1>2, Zenon DEF Fail
  <2> QED
    BY <1>2, <2>1, ClearTypes, Zenon DEF Fail, ReleaseLock, TypeOK, Outcome
<1>3. ASSUME NEW w \in Worker, NEW a \in [reg : Account, key : Account], Connected(w, a),
             key' \in [CA -> Account], UNCHANGED <<reg, server, faults>>
      PROVE  TInv'
  <2>1. CASE tries[w] = 2
    BY <1>3, <2>1, ClearTypes DEF Connected, ReleaseLock, TypeOK, Outcome
  <2>2. CASE tries[w] \in {0, 1}
    <3>1. /\ pc' = [pc EXCEPT ![w] = "order"]
          /\ acct' = [acct EXCEPT ![w] = NoAccount]
          /\ params' = params \/ params' = [params EXCEPT ![w] = a]
          /\ lock' \in {lock, Nobody}
          /\ UNCHANGED <<round, tries, chain>>
      BY <1>3, <2>2 DEF Connected, ReleaseLock
    <3>2. /\ acct' \in [Worker -> [reg : Account, key : Account]]
          /\ params' \in [Worker -> [reg : Account, key : Account]]
      <4>1. /\ acct \in [Worker -> [reg : Account, key : Account]]
            /\ params \in [Worker -> [reg : Account, key : Account]]
        BY Zenon DEF TypeOK
      <4>2. acct' \in [Worker -> [reg : Account, key : Account]]
        BY <3>1, <4>1, Zenon
      <4>3. params' \in [Worker -> [reg : Account, key : Account]]
        BY <3>1, <4>1, Zenon
      <4> QED
        BY <4>2, <4>3, Zenon
    <3>3. pc' \in [Worker -> Outcome \cup {"loadReg", "loadKey", "lock", "register",
                               "saveReg", "saveKey", "undo", "order", "deleteReg", "deleteKey"}]
      BY <3>1, Zenon DEF TypeOK
    <3>4. lock' \in Worker \cup {Nobody}
      BY <3>1, Zenon DEF TypeOK
    <3>5. TypeOK'
      BY <1>3, <3>1, <3>2, <3>3, <3>4, Zenon DEF TypeOK
    <3> QED
      BY <2>2, <3>1, <3>5 DEF TypeOK, TwoOrders, TestCertsDiscarded
  <2> QED
    BY <1>3, <2>1, <2>2, Zenon DEF Connected
<1>4. ASSUME NEW w \in Worker, NewAccount(w), UNCHANGED <<files, server, faults>> PROVE TInv'
  BY <1>4 DEF NewAccount, TypeOK, TwoOrders, TestCertsDiscarded, Outcome
<1>5. ASSUME NEW w \in Worker PROVE Directory(w) \in CA
  BY Zenon DEF Directory, CA
<1>6. ASSUME NEW w \in Worker, LoadReg(w) PROVE TInv'
  <2>1. CASE NewAccount(w)
    BY <1>4, <1>6, <2>1, Zenon DEF LoadReg
  <2>2. CASE /\ Goto(w, "loadKey") /\ acct' = [acct EXCEPT ![w].reg = reg[Directory(w)]]
             /\ UNCHANGED <<lock, round, tries, params, chain>>
    <3>1. UNCHANGED <<reg, key, known, made, faults>>
      BY <1>6, Zenon DEF LoadReg
    <3>2. acct' \in [Worker -> [reg : Account, key : Account]]
      BY <1>5, <2>2 DEF TypeOK
    <3> QED
      BY <2>2, <3>1, <3>2 DEF TypeOK, TwoOrders, TestCertsDiscarded, Outcome
  <2> QED
    BY <1>6, <2>1, <2>2, Zenon DEF LoadReg
<1>7. ASSUME NEW w \in Worker, LoadKey(w) PROVE TInv'
  <2>1. [acct[w] EXCEPT !.key = key[Directory(w)]] \in [reg : Account, key : Account]
    BY <1>5 DEF TypeOK
  <2> QED
    BY <1>3, <1>4, <1>7, <2>1, Zenon DEF LoadKey, TypeOK
<1>8. ASSUME NEW w \in Worker, LoadFails(w) \/ UndoFails(w) \/ DeleteFails(w) PROVE TInv'
  BY <1>2, <1>8, Zenon DEF LoadFails, UndoFails, DeleteFails, Fault, TypeOK
<1>9. ASSUME NEW w \in Worker, RegisterFails(w) \/ OrderFails(w) PROVE TInv'
  BY <1>2, <1>9, Zenon DEF RegisterFails, OrderFails, TypeOK
<1>10. ASSUME NEW w \in Worker, AcquireLock(w) PROVE TInv'
  BY <1>10, Zenon DEF AcquireLock, TypeOK, TwoOrders, TestCertsDiscarded, Outcome
<1>11. ASSUME NEW w \in Worker, Register(w) PROVE TInv'
  <2>1. made' \in Account /\ made' = made + 1 /\ made \in Nat
    BY <1>11 DEF Register, TypeOK, Account
  <2>2. known' \in [CA -> SUBSET (1 .. made')]
    BY <1>5, <1>11, <2>1 DEF Register, TypeOK
  <2> QED
    BY <1>11, <2>1, <2>2, Zenon DEF Register, TypeOK, TwoOrders, TestCertsDiscarded, Outcome
<1>12. ASSUME NEW w \in Worker, SaveReg(w) PROVE TInv'
  BY <1>5, <1>12, Zenon DEF SaveReg, TypeOK, TwoOrders, TestCertsDiscarded, Outcome
<1>13. ASSUME NEW w \in Worker, SaveKey(w) PROVE TInv'
  BY <1>3, <1>5, <1>13, Zenon DEF SaveKey, TypeOK
<1>14. ASSUME NEW w \in Worker, SaveFails(w) PROVE TInv'
  <2>1. faults' \subseteq FaultKind
    BY <1>14, Zenon DEF SaveFails, Fault, TypeOK
  <2>2. CASE Fail(w, FALSE)
    BY <1>2, <1>14, <2>1, <2>2, Zenon DEF SaveFails, TypeOK
  <2>3. CASE Goto(w, "undo") /\ UNCHANGED <<lock, round, tries, acct, params, chain>>
    BY <1>14, <2>1, <2>3, Zenon DEF SaveFails, TypeOK, TwoOrders, TestCertsDiscarded, Outcome
  <2> QED
    BY <1>14, <2>2, <2>3, Zenon DEF SaveFails
<1>15. ASSUME NEW w \in Worker, UndoSave(w) PROVE TInv'
  <2>1. reg' \in [CA -> Account]
    BY <1>5, <1>15 DEF UndoSave, TypeOK, Account
  <2> QED
    BY <1>2, <1>15, <2>1, Zenon DEF UndoSave, TypeOK
<1>16. ASSUME NEW w \in Worker, Order(w) PROVE TInv'
  <2>1. CASE Succeed(w) /\ UNCHANGED lock
    <3>1. CASE round[w] = "test"
      <4>1. /\ pc' = [pc EXCEPT ![w] = "loadReg"]
            /\ round' = [round EXCEPT ![w] = "again"]
            /\ tries' = [tries EXCEPT ![w] = 0]
            /\ params' = [params EXCEPT ![w] = NoAccount]
            /\ chain' = [chain EXCEPT ![w] = Directory(w)]
            /\ UNCHANGED <<reg, key, known, made, lock, acct, faults>>
        BY <1>16, <2>1, <3>1, Zenon DEF Order, Succeed
      <4>2. TypeOK'
        BY <1>5, <4>1, SMTT(30) DEF TypeOK, Outcome
      <4> QED
        BY <4>1, <4>2 DEF TypeOK, TwoOrders, TestCertsDiscarded
    <3>2. CASE round[w] # "test"
      <4>1. /\ pc' = [pc EXCEPT ![w] = "cert"]
            /\ round' = [round EXCEPT ![w] = "first"]
            /\ tries' = [tries EXCEPT ![w] = 0]
            /\ acct' = [acct EXCEPT ![w] = NoAccount]
            /\ params' = [params EXCEPT ![w] = NoAccount]
            /\ chain' = [chain EXCEPT ![w] = "main"]
            /\ UNCHANGED <<reg, key, known, made, lock, faults>>
        BY <1>16, <2>1, <3>2, Zenon DEF Order, Succeed, Clear, Directory
      <4>2. TypeOK'
        BY <4>1 DEF TypeOK, Outcome, CA
      <4> QED
        BY <4>1, <4>2 DEF TypeOK, TwoOrders, TestCertsDiscarded
    <3> QED
      BY <3>1, <3>2, Zenon
  <2>2. CASE /\ Goto(w, "deleteReg") /\ tries' = [tries EXCEPT ![w] = @ + 1]
             /\ UNCHANGED <<lock, round, acct, params, chain>>
    BY <1>16, <2>2 DEF Order, TypeOK, TwoOrders, TestCertsDiscarded, Outcome
  <2>3. CASE Fail(w, FALSE)
    BY <1>2, <1>16, <2>3, Zenon DEF Order, TypeOK
  <2> QED
    BY <1>16, <2>1, <2>2, <2>3, Zenon DEF Order
<1>17. ASSUME NEW w \in Worker, DeleteReg(w) \/ DeleteKey(w) PROVE TInv'
  <2>1. PICK l \in {"deleteKey", "loadReg"} : pc' = [pc EXCEPT ![w] = l]
    BY <1>17, Zenon DEF DeleteReg, DeleteKey
  <2>2. reg' \in [CA -> Account] /\ key' \in [CA -> Account]
    <3>1. 0 \in Account /\ reg \in [CA -> Account] /\ key \in [CA -> Account]
      BY DEF TypeOK, Account
    <3>2. CASE DeleteReg(w)
      BY <3>1, <3>2, Zenon DEF DeleteReg
    <3>3. CASE DeleteKey(w)
      BY <3>1, <3>3, Zenon DEF DeleteKey
    <3> QED
      BY <1>17, <3>2, <3>3, Zenon
  <2>3. UNCHANGED <<known, made, lock, round, tries, acct, params, chain, faults>>
    BY <1>17, Zenon DEF DeleteReg, DeleteKey
  <2> QED
    BY <2>1, <2>2, <2>3, Zenon DEF TypeOK, TwoOrders, TestCertsDiscarded, Outcome
<1>18. ASSUME NEW w \in Worker, Crash(w) PROVE TInv'
  BY <1>18, ClearTypes, Zenon DEF Crash, Fault, TypeOK, Outcome
<1>19. ASSUME NEW c \in CA, Reset(c) PROVE TInv'
  BY <1>19, Zenon DEF Reset, Fault, TypeOK, TwoOrders, TestCertsDiscarded
<1>20. CASE LockExpires
  BY <1>20, Zenon DEF LockExpires, TypeOK, TwoOrders, TestCertsDiscarded
<1>21. CASE UNCHANGED vars
  BY <1>21, Zenon DEF vars, TypeOK, TwoOrders, TestCertsDiscarded
<1> QED
  BY <1>1, <1>6, <1>7, <1>8, <1>9, <1>10, <1>11, <1>12, <1>13, <1>14, <1>15, <1>16, <1>17,
     <1>18, <1>19, <1>20, <1>21, Zenon
  DEF Next, Step

\* The types, the two orders and the origin of certificates hold in every state.
THEOREM TInvInvariant == Spec => []TInv
<1>1. Init => TInv
  BY NoAccountType, BoundAssumption
  DEF Init, TInv, TypeOK, TwoOrders, TestCertsDiscarded, Outcome, Account
<1>2. TInv /\ [Next]_vars => TInv'
  BY TInvStep, Zenon
<1> QED
  BY <1>1, <1>2, PTL DEF Spec

\* Files, accounts and calls of Issue keep their types, in particular no call of
\* doIssue places more than two orders.
THEOREM AccountsTypes == Spec => []TypeOK
<1>1. TInv => TypeOK
  BY Zenon DEF TInv
<1> QED
  BY TInvInvariant, <1>1, PTL

\* "any certs obtained from this CA are discarded": no call of Issue returns a
\* certificate of the test CA, for any number of calls, resets and faults.
THEOREM AccountsTestCertsDiscarded == Spec => []TestCertsDiscarded
<1>1. TInv => TestCertsDiscarded
  BY Zenon DEF TInv
<1> QED
  BY TInvInvariant, <1>1, PTL

-----------------------------------------------------------------------------
\* What is being saved is one account, and no other registration comes in
\* between its two files: only the holder of the lock saves accounts, and
\* whoever does not hold it can but delete them.
Saving ==
    \A w \in Worker :
        /\ pc[w] \in {"saveReg", "saveKey", "undo"} => acct[w].reg = acct[w].key
        /\ pc[w] \in {"saveKey", "undo"} => reg[Directory(w)] \in {0, acct[w].reg}
        /\ pc[w] = "undo" => "store" \in faults

\* An account whose files do not match is just being saved.
Mending ==
    \/ "crash" \in faults \/ {"store", "io"} \subseteq faults
    \/ \A c \in CA :
          \/ reg[c] = 0 \/ key[c] = 0 \/ reg[c] = key[c]
          \/ \E w \in Worker : pc[w] \in {"saveKey", "undo"} /\ Directory(w) = c

MInv == IInv /\ Saving /\ Mending

\* Call w does a step that the others do not notice, after which it is not
\* saving.
Aside(w) ==
    /\ pc'[w] \notin {"saveReg", "saveKey", "undo"}
    /\ \A v \in Worker \ {w} : pc'[v] = pc[v] /\ acct'[v] = acct[v] /\ round'[v] = round[v]
    /\ faults \subseteq faults'

\* Files are left as they are or deleted.
LEMMA AsideSaving ==
  ASSUME Saving, NEW w \in Worker, Aside(w), \A c \in CA : reg'[c] \in {0, reg[c]}
  PROVE  Saving'
<1> SUFFICES ASSUME NEW v \in Worker
             PROVE  /\ pc'[v] \in {"saveReg", "saveKey", "undo"} => acct'[v].reg = acct'[v].key
                    /\ pc'[v] \in {"saveKey", "undo"} =>
                          reg'[Directory(v)'] \in {0, acct'[v].reg}
                    /\ pc'[v] = "undo" => "store" \in faults'
  BY Zenon DEF Saving
<1>1. CASE v = w
  BY <1>1, Zenon DEF Aside
<1>2. CASE v # w
  <2>1. Directory(v)' = Directory(v) /\ Directory(v) \in CA
    BY <1>2, Zenon DEF Aside, Directory, CA
  <2> QED
    BY <1>2, <2>1, Zenon DEF Aside, Saving
<1> QED
  BY <1>1, <1>2, Zenon

\* A step of a worker that is not saving leaves what is being mended as it is,
\* or empties it.
LEMMA AsideMending ==
  ASSUME Mending, NEW w \in Worker, Aside(w), pc[w] \notin {"saveKey", "undo"},
         \A c \in CA : reg'[c] \in {0, reg[c]} /\ key'[c] \in {0, key[c]}
  PROVE  Mending'
<1>1. ASSUME NEW v \in Worker, pc[v] \in {"saveKey", "undo"}
      PROVE  pc'[v] = pc[v] /\ Directory(v)' = Directory(v)
  BY <1>1, Zenon DEF Aside, Directory
<1> QED
  BY <1>1 DEF Mending, Aside

\* The steps of a call that is not saving, and is not registering.
LEMMA AsideSteps ==
  ASSUME IInv, NEW w \in Worker,
         \/ \E how \in {"first", "test"} : Begin(w, how)
         \/ LoadReg(w) \/ LoadKey(w) \/ LoadFails(w) \/ AcquireLock(w) \/ RegisterFails(w)
         \/ Order(w) \/ OrderFails(w) \/ DeleteReg(w) \/ DeleteKey(w) \/ DeleteFails(w)
  PROVE  /\ Aside(w) /\ pc[w] \notin {"saveKey", "undo"}
         /\ \A c \in CA : reg'[c] \in {0, reg[c]} /\ key'[c] \in {0, key[c]}
<1> USE DEF IInv, Shape, Goto, files, server, Aside
<1>1. ASSUME pc[w] \notin {"saveKey", "undo"}, UNCHANGED <<reg, key>>, faults \subseteq faults',
             NEW l, l \notin {"saveReg", "saveKey", "undo"}, pc' = [pc EXCEPT ![w] = l],
             \E a : acct' = [acct EXCEPT ![w] = a], \E r : round' = [round EXCEPT ![w] = r]
      PROVE  /\ Aside(w) /\ pc[w] \notin {"saveKey", "undo"}
             /\ \A c \in CA : reg'[c] \in {0, reg[c]} /\ key'[c] \in {0, key[c]}
  BY <1>1, Zenon
<1>2. ASSUME NEW b \in BOOLEAN, Fail(w, b), UNCHANGED <<reg, key>>, faults \subseteq faults',
             pc[w] \notin {"saveKey", "undo"}
      PROVE  /\ Aside(w) /\ pc[w] \notin {"saveKey", "undo"}
             /\ \A c \in CA : reg'[c] \in {0, reg[c]} /\ key'[c] \in {0, key[c]}
  BY <1>1, <1>2, Zenon DEF Fail, Clear
<1>3. ASSUME NEW how \in {"first", "test"}, Begin(w, how)
      PROVE  /\ Aside(w) /\ pc[w] \notin {"saveKey", "undo"}
             /\ \A c \in CA : reg'[c] \in {0, reg[c]} /\ key'[c] \in {0, key[c]}
  BY <1>3, Zenon DEF Begin, Outcome
<1>4. CASE LoadReg(w)
  BY <1>4, Zenon DEF LoadReg, NewAccount
<1>5. CASE LoadKey(w)
  <2>1. CASE NewAccount(w)
    BY <1>5, <2>1, Zenon DEF LoadKey, NewAccount
  <2>2. ASSUME NEW a, Connected(w, a)
        PROVE  Aside(w)
    BY <1>5, <2>2, Zenon DEF LoadKey, Connected, Clear
  <2> QED
    BY <1>5, <2>1, <2>2, Zenon DEF LoadKey
<1>6. CASE LoadFails(w) \/ DeleteFails(w)
  BY <1>2, <1>6, Zenon DEF LoadFails, DeleteFails, Fault
<1>7. CASE RegisterFails(w) \/ OrderFails(w)
  BY <1>2, <1>7, Zenon DEF RegisterFails, OrderFails
<1>8. CASE AcquireLock(w)
  BY <1>8, Zenon DEF AcquireLock
<1>9. CASE Order(w)
  <2>1. CASE Succeed(w)
    BY <1>9, <2>1, Zenon DEF Order, Succeed, Clear
  <2>2. CASE Goto(w, "deleteReg") /\ UNCHANGED <<round, acct>>
    BY <1>9, <2>2, Zenon DEF Order
  <2>3. CASE Fail(w, FALSE)
    BY <1>2, <1>9, <2>3, Zenon DEF Order
  <2> QED
    BY <1>9, <2>1, <2>2, <2>3, Zenon DEF Order
<1>10. CASE DeleteReg(w)
  BY <1>10, Zenon DEF DeleteReg
<1>11. CASE DeleteKey(w)
  BY <1>11, Zenon DEF DeleteKey
<1> QED
  BY <1>3, <1>4, <1>5, <1>6, <1>7, <1>8, <1>9, <1>10, <1>11, Zenon

\* Every step keeps the account whole.
LEMMA MInvStep ==
  ASSUME MInv, [Next]_vars
  PROVE  MInv'
<1> USE DEF MInv
<1>a. IInv'
  BY IInvStep, Zenon
<1>b. \A w \in Worker : Directory(w) \in CA
  BY Zenon DEF Directory, CA
<1>1. ASSUME NEW w \in Worker,
             \/ \E how \in {"first", "test"} : Begin(w, how)
             \/ LoadReg(w) \/ LoadKey(w) \/ LoadFails(w) \/ AcquireLock(w) \/ RegisterFails(w)
             \/ Order(w) \/ OrderFails(w) \/ DeleteReg(w) \/ DeleteKey(w) \/ DeleteFails(w)
      PROVE  MInv'
  BY <1>1, <1>a, AsideSteps, AsideSaving, AsideMending, Zenon
<1>2. ASSUME NEW w \in Worker, Register(w) PROVE MInv'
  <2>1. Saving'
    BY <1>2, Zenon DEF Register, Saving, Directory, Goto, files, IInv, Shape
  <2>2. Mending'
    BY <1>2 DEF Register, Mending, Directory, Goto, files, IInv, Shape
  <2> QED
    BY <1>a, <2>1, <2>2, Zenon
\* Nobody else is saving, as the lock is held.
<1>3. ASSUME NEW w \in Worker, pc[w] \in {"saveReg", "saveKey", "undo"}
      PROVE  \A v \in Worker \ {w} : pc[v] \notin {"register", "saveReg", "saveKey", "undo"}
  BY <1>3, Zenon DEF IInv, LockHeld, Registering
<1>4. ASSUME NEW w \in Worker, SaveReg(w) PROVE MInv'
  <2>0. /\ pc[w] = "saveReg" /\ pc' = [pc EXCEPT ![w] = "saveKey"]
        /\ reg' = [reg EXCEPT ![Directory(w)] = acct[w].reg]
        /\ UNCHANGED <<key, round, acct, faults>>
    BY <1>4, Zenon DEF SaveReg, Goto
  <2>1. \A v \in Worker : Directory(v)' = Directory(v)
    BY <2>0, Zenon DEF Directory
  <2>2. Saving'
    BY <1>3, <1>b, <2>0, <2>1, Zenon DEF Saving, IInv, Shape
  <2>3. Mending'
    BY <1>b, <2>0, <2>1, Zenon DEF Mending, IInv, Shape
  <2> QED
    BY <1>a, <2>2, <2>3, Zenon
<1>5. ASSUME NEW w \in Worker, SaveKey(w) PROVE MInv'
  <2>0. /\ pc[w] = "saveKey" /\ reg' = reg /\ faults' = faults
        /\ key' = [key EXCEPT ![Directory(w)] = acct[w].key]
        /\ Connected(w, acct[w])
    BY <1>5, Zenon DEF SaveKey
  <2>1. Aside(w)
    BY <2>0, Zenon DEF Connected, Clear, Goto, Aside, IInv, Shape
  <2>2. Saving'
    BY <2>0, <2>1, AsideSaving, Zenon
  <2>3. reg[Directory(w)] = 0 \/ reg[Directory(w)] = acct[w].key
    BY <2>0, Zenon DEF Saving
  <2>4. \A v \in Worker : pc[v] \in {"saveKey", "undo"} => v = w
    BY <1>3, <2>0, Zenon
  <2>5. Mending'
    BY <1>b, <2>0, <2>3, <2>4, Zenon DEF Mending, IInv, Shape
  <2> QED
    BY <1>a, <2>2, <2>5, Zenon
<1>6. ASSUME NEW w \in Worker, SaveFails(w) PROVE MInv'
  <2>0. UNCHANGED <<reg, key>> /\ faults' = faults \cup {"store"}
    BY <1>6, Zenon DEF SaveFails, Fault, files
  <2>1. CASE pc[w] = "saveReg"
    <3>1. Fail(w, FALSE)
      BY <1>6, <2>1, Zenon DEF SaveFails
    <3>2. Aside(w)
      BY <2>0, <3>1, Zenon DEF Fail, Clear, Aside, IInv, Shape
    <3> QED
      BY <1>a, <2>0, <2>1, <3>2, AsideSaving, AsideMending, Zenon
  <2>2. CASE pc[w] = "saveKey"
    <3>1. pc' = [pc EXCEPT ![w] = "undo"] /\ UNCHANGED <<round, acct>>
      BY <1>6, <2>2, Zenon DEF SaveFails, Goto
    <3>2. \A v \in Worker : Directory(v)' = Directory(v)
      BY <3>1, Zenon DEF Directory
    <3>3. Saving'
      BY <2>0, <2>2, <3>1, <3>2, Zenon DEF Saving, IInv, Shape
    <3>4. Mending'
      BY <2>0, <2>2, <3>1, <3>2, Zenon DEF Mending, IInv, Shape
    <3> QED
      BY <1>a, <3>3, <3>4, Zenon
  <2> QED
    BY <1>6, <2>1, <2>2, Zenon DEF SaveFails
<1>7. ASSUME NEW w \in Worker, UndoSave(w) PROVE MInv'
  <2>0. /\ pc[w] = "undo" /\ reg' = [reg EXCEPT ![Directory(w)] = 0] /\ key' = key
        /\ faults' = faults /\ Fail(w, FALSE)
    BY <1>7, Zenon DEF UndoSave
  <2>1. Aside(w)
    BY <2>0, Zenon DEF Fail, Clear, Aside, IInv, Shape
  <2>2. Saving'
    BY <1>b, <2>0, <2>1, AsideSaving, Zenon DEF IInv, Shape
  <2>3. \A v \in Worker : pc[v] \in {"saveKey", "undo"} => v = w
    BY <1>3, <2>0, Zenon
  <2>4. Mending'
    BY <1>b, <2>0, <2>3, Zenon DEF Mending, IInv, Shape
  <2> QED
    BY <1>a, <2>2, <2>4, Zenon
<1>8. ASSUME NEW w \in Worker, UndoFails(w) PROVE MInv'
  <2>0. pc[w] = "undo" /\ reg' = reg /\ faults' = faults \cup {"io"} /\ Fail(w, FALSE)
    BY <1>8, Zenon DEF UndoFails, Fault, files
  <2>1. Aside(w)
    BY <2>0, Zenon DEF Fail, Clear, Aside, IInv, Shape
  <2>2. {"store", "io"} \subseteq faults'
    BY <2>0, Zenon DEF Saving
  <2> QED
    BY <1>a, <2>0, <2>1, <2>2, AsideSaving, Zenon DEF Mending
<1>9. ASSUME NEW w \in Worker, Crash(w) PROVE MInv'
  <2>0. reg' = reg /\ faults' = faults \cup {"crash"} /\ Clear(w, "idle")
    BY <1>9, Zenon DEF Crash, Fault, files
  <2>1. Aside(w)
    BY <2>0, Zenon DEF Clear, Aside, IInv, Shape
  <2> QED
    BY <1>a, <2>0, <2>1, AsideSaving, Zenon DEF Mending
<1>10. ASSUME UNCHANGED <<reg, key, pc, round, acct>>, faults \subseteq faults' PROVE MInv'
  <2>1. \A v \in Worker : Directory(v)' = Directory(v)
    BY <1>10, Zenon DEF Directory
  <2> QED
    BY <1>10, <1>a, <2>1, Zenon DEF Saving, Mending
<1>11. ASSUME NEW c \in CA, Reset(c) PROVE MInv'
  BY <1>10, <1>11, Zenon DEF Reset, Fault, files, local
<1>12. CASE LockExpires \/ UNCHANGED vars
  BY <1>10, <1>12, Zenon DEF LockExpires, files, local, vars
<1> QED
  BY <1>1, <1>2, <1>4, <1>5, <1>6, <1>7, <1>8, <1>9, <1>11, <1>12, Zenon DEF Next, Step

\* saveAccount, its rollback and deleteAccountLocally never leave in storage the
\* registration of one account with the key of another, for any number of
\* concurrent calls of Issue, although deleteAccountLocally takes no lock.
THEOREM AccountsNotMixed == Spec => []AccountNotMixed
<1>1. Init => MInv
  <2>1. Init => IInv
    BY NoAccountShape DEF Init, IInv, Shape, LockHeld, NoneFound, Registering, Location, Outcome
  <2> QED
    BY <2>1, Zenon DEF Init, MInv, Saving, Mending
<1>2. MInv /\ [Next]_vars => MInv'
  BY MInvStep, Zenon
<1>3. MInv => AccountNotMixed
  BY Zenon DEF MInv, Mending, AccountNotMixed
<1> QED
  BY <1>1, <1>2, <1>3, PTL DEF Spec

-----------------------------------------------------------------------------
(* The rate limiter: the inductive invariant *)

\* How many of the tickets taken since the last reconfiguration have been
\* recorded: all, or all but the one permit has just given.
Recorded == IF loop = "record" /\ events # <<>> THEN Len(events) - 1 ELSE Len(events)

\* The slot of the j-th latest record.
Slot(j) == IF j <= cursor THEN cursor - j ELSE cursor - j + MaxEvents

\* Tickets are remembered in the order in which they were taken, ...
OldestFirst == \A i, j \in DOMAIN events : i <= j => events[j] <= events[i]

\* ... each is at least as old as its record in the ring, ...
RingFollows ==
    \A j \in 1 .. MaxEvents : j <= Recorded => ring[Slot(j)] <= events[Recorded - j + 1]

\* ... and all but the first one were given after the record at the cursor had
\* left the present window.
Waited ==
    /\ (loop = "sleep" /\ events # <<>>) => ring[cursor] + wait >= window
    /\ (loop = "permit" /\ events # <<>>) => ring[cursor] >= window
    /\ (loop = "readWindow" \/ window = 0) => events = <<>>

\* The tickets before the last MaxEvents ones are out of the window.
OthersOut == \A i \in DOMAIN events : i + MaxEvents <= Len(events) => events[i] >= window

LimiterIInv == LimiterTypeOK /\ OldestFirst /\ RingFollows /\ Waited /\ OthersOut

-----------------------------------------------------------------------------
(* The rate limiter: its ring and the types *)

\* The limit is the number of slots, and the cursor is at one of them.
LEMMA RingLength ==
    ASSUME NEW n \in Nat, NEW r \in [0 .. n - 1 -> Age]
    PROVE  Cardinality(DOMAIN r) = n
  <1>1. DOMAIN r = 0 .. n - 1
    BY Zenon
  <1>2. Cardinality(0 .. n - 1) = IF 0 > n - 1 THEN 0 ELSE (n - 1) - 0 + 1
    BY FS_Interval
  <1> QED BY <1>1, <1>2

\* A limiter of the right types has its limit from the configuration.
LEMMA Limits ==
    ASSUME LimiterTypeOK
    PROVE  /\ MaxEvents \in EventLimit /\ MaxEvents \in Nat
           /\ ring \in [0 .. MaxEvents - 1 -> Age] /\ DOMAIN ring = 0 .. MaxEvents - 1
  <1>1. PICK n \in EventLimit : ring \in [0 .. n - 1 -> Age]
    BY Zenon DEF LimiterTypeOK
  <1>2. n \in Nat
    BY EventLimitAssumption, Zenon
  <1>3. MaxEvents = n
    BY <1>1, <1>2, RingLength, Zenon DEF MaxEvents
  <1> QED BY <1>1, <1>2, <1>3, Zenon

\* Ages.
LEMMA AgeFacts ==
    /\ Age \subseteq Nat /\ 0 \in Age /\ MaxWindow \in Age /\ \A a \in Age : a <= MaxWindow
    /\ \A a \in Age : Older(a) \in Age /\ a <= Older(a)
    /\ \A a, b \in Age : a <= b => Older(a) <= Older(b)
  BY MaxWindowAssumption DEF Age, Older

\* A new limiter has the types.
LEMMA LimiterInitTypes == LimiterInit => LimiterTypeOK
  <1> SUFFICES ASSUME LimiterInit PROVE LimiterTypeOK
    BY Zenon
  <1>1. PICK n \in EventLimit : ring = EmptyRing(n)
    BY Zenon DEF LimiterInit
  <1>2. ring \in [0 .. n - 1 -> Age]
    BY <1>1, AgeFacts, Zenon DEF EmptyRing
  <1>3. cursor \in Nat /\ cursor = 0 /\ wait \in Age
    BY AgeFacts, Zenon DEF LimiterInit
  <1>4. queue \in Seq(Caller) /\ events \in Seq(Age)
    BY DEF LimiterInit
  <1> QED BY <1>2, <1>3, <1>4, Zenon DEF LimiterInit, LimiterTypeOK

\* A step that leaves the ring's length and the window alone keeps the relation
\* of the two.
LEMMA RingTypes ==
    ASSUME LimiterTypeOK, NEW n \in EventLimit, ring' \in [0 .. n - 1 -> Age]
    PROVE  MaxEvents' = n /\ \E m \in EventLimit : ring' \in [0 .. m - 1 -> Age]
  <1>1. n \in Nat
    BY EventLimitAssumption, Zenon
  <1> QED BY <1>1, RingLength, Zenon DEF MaxEvents

\* The newest times are taken from slots of the old ring.
LEMMA CopiedSlots ==
    ASSUME NEW m \in Nat, m # 0, NEW c \in Nat, NEW k \in Nat, NEW i \in Nat
    PROVE  (c + k + i) % m \in 0 .. m - 1
  BY Z3

\* A ticket is an event of age zero.
LEMMA TicketTypes ==
    ASSUME LimiterTypeOK, Ticket
    PROVE  events' \in Seq(Age) /\ loop' = "record"
  BY AgeFacts DEF LimiterTypeOK, Ticket

\* The callers that wait.
LEMMA QueueTypes ==
    ASSUME LimiterTypeOK, NEW c \in Caller
    PROVE  /\ Wait(c) => queue' \in Seq(Caller)
           /\ CancelWait(c) => queue' \in Seq(Caller)
           /\ GiveTicket => queue' \in Seq(Caller)
  <1>1. queue \in Seq(Caller)
    BY Zenon DEF LimiterTypeOK
  <1>2. Wait(c) => queue' \in Seq(Caller)
    BY <1>1 DEF Wait
  <1>3. CancelWait(c) => queue' \in Seq(Caller)
    <2> SUFFICES ASSUME NEW i \in DOMAIN queue,
                        queue' = SubSeq(queue, 1, i - 1) \o SubSeq(queue, i + 1, Len(queue))
                 PROVE  queue' \in Seq(Caller)
      BY Zenon DEF CancelWait
    <2>1. /\ SubSeq(queue, 1, i - 1) \in Seq(Caller)
          /\ SubSeq(queue, i + 1, Len(queue)) \in Seq(Caller)
      BY <1>1
    <2> QED BY <2>1
  <1>4. GiveTicket => queue' \in Seq(Caller)
    BY <1>1 DEF GiveTicket
  <1> QED BY <1>2, <1>3, <1>4, Zenon

\* Time passes for the events that are remembered.
LEMMA TickEvents ==
    ASSUME LimiterTypeOK, Tick
    PROVE  /\ events' \in Seq(Age)
           /\ \E k \in 0 .. Len(events) :
                 /\ Len(events') = Len(events) - k
                 /\ \A i \in 1 .. Len(events) - k :
                       i + k \in DOMAIN events /\ events'[i] = Older(events[i + k])
  <1>1. events \in Seq(Age) /\ Len(events) \in Nat /\ DOMAIN events = 1 .. Len(events)
    BY DEF LimiterTypeOK
  <1>2. PICK k \in 0 .. Len(events) :
           events' = [i \in 1 .. Len(events) - k |-> Older(events[i + k])]
    BY Zenon DEF Tick
  <1>3. \A i \in 1 .. Len(events) - k : i + k \in DOMAIN events /\ events[i + k] \in Age
    BY <1>1
  <1>4. \A i \in 1 .. Len(events) - k : Older(events[i + k]) \in Age
    BY <1>3, AgeFacts, Zenon
  <1>5. Len(events) - k \in Nat
    BY <1>1
  <1>6. events' \in Seq(Age) /\ Len(events') = Len(events) - k
    BY <1>2, <1>4, <1>5
  <1> QED BY <1>2, <1>3, <1>6, Zenon

\* Every step of the limiter keeps the types.
LEMMA LimiterTypesStep ==
    ASSUME LimiterTypeOK, [LimiterNext]_limiterVars
    PROVE  LimiterTypeOK'
  <1> USE DEF limitVars
  <1>a. /\ MaxEvents \in EventLimit /\ MaxEvents \in Nat
        /\ ring \in [0 .. MaxEvents - 1 -> Age] /\ DOMAIN ring = 0 .. MaxEvents - 1
    BY Limits, Zenon
  <1>b. UNCHANGED ring => UNCHANGED MaxEvents
    BY Zenon DEF MaxEvents
  <1>1. CASE LoopTop \/ ReadWindow \/ WaitOver \/ ReceiveStop \/ Stop
    BY <1>1, <1>b, Zenon DEF LoopTop, ReadWindow, WaitOver, ReceiveStop, Stop, LimiterTypeOK
  <1>2. CASE ComputeWait
    <2>1. wait' \in Age
      <3>1. CASE MaxEvents > 0
        <4>1. cursor \in 0 .. MaxEvents - 1 /\ window \in Age
          BY <3>1, <1>a DEF LimiterTypeOK
        <4>2. ring[cursor] \in Age
          BY <4>1, <1>a, Zenon
        <4>3. wait' = IF ring[cursor] < window THEN window - ring[cursor] ELSE 0
          BY <1>2, <3>1, <1>a DEF ComputeWait
        <4> QED BY <4>1, <4>2, <4>3, MaxWindowAssumption DEF Age
      <3>2. CASE ~(MaxEvents > 0)
        BY <1>2, <3>2, Zenon DEF ComputeWait, LimiterTypeOK
      <3> QED BY <3>1, <3>2, Zenon
    <2> QED BY <1>2, <1>b, <2>1, Zenon DEF ComputeWait, LimiterTypeOK
  <1>3. CASE GiveTicket \/ Allow
    <2>1. Ticket /\ queue' \in Seq(Caller)
      BY <1>3, QueueTypes DEF GiveTicket, Allow, LimiterTypeOK
    <2>2. events' \in Seq(Age) /\ loop' = "record"
      BY <2>1, TicketTypes, Zenon
    <2> QED BY <2>1, <2>2, <1>b, Zenon DEF Ticket, LimiterTypeOK
  <1>4. CASE RecordEvent
    <2>1. CASE MaxEvents > 0
      <3>1. ring' \in [0 .. MaxEvents - 1 -> Age]
        BY <1>4, <2>1, <1>a, AgeFacts, Zenon DEF RecordEvent
      <3>2. MaxEvents' = MaxEvents /\ \E m \in EventLimit : ring' \in [0 .. m - 1 -> Age]
        BY <1>a, <3>1, RingTypes, Zenon
      <3>3. cursor' \in Nat /\ (cursor' < MaxEvents' \/ cursor' = 0)
        BY <1>4, <2>1, <3>2, <1>a DEF RecordEvent, Advance, LimiterTypeOK
      <3> QED BY <1>4, <3>2, <3>3, Zenon DEF RecordEvent, LimiterTypeOK
    <2>2. CASE ~(MaxEvents > 0)
      BY <1>4, <2>2, <1>b, Zenon DEF RecordEvent, LimiterTypeOK
    <2> QED BY <2>1, <2>2, Zenon
  <1>5. ASSUME NEW c \in Caller, Wait(c) \/ CancelWait(c) PROVE LimiterTypeOK'
    <2>1. queue' \in Seq(Caller)
      BY <1>5, QueueTypes, Zenon
    <2> QED BY <1>5, <2>1, <1>b, Zenon DEF Wait, CancelWait, LimiterTypeOK
  <1>6. ASSUME NEW n \in EventLimit, SetMaxEvents(n) PROVE LimiterTypeOK'
    <2>1. ring' \in [0 .. n - 1 -> Age]
      <3> DEFINE skipped == IF MaxEvents > n THEN MaxEvents - n ELSE 0
      <3>1. n \in Nat /\ skipped \in Nat
        BY <1>a, EventLimitAssumption
      <3>2. ASSUME NEW i \in 0 .. n - 1, i < MaxEvents
            PROVE  ring[(cursor + skipped + i) % MaxEvents] \in Age
        <4> HIDE DEF skipped
        <4>1. (cursor + skipped + i) % MaxEvents \in 0 .. MaxEvents - 1
          <5>1. i \in Nat /\ MaxEvents # 0 /\ cursor \in Nat
            BY <3>1, <3>2, <1>a DEF LimiterTypeOK
          <5> QED BY <3>1, <5>1, <1>a, CopiedSlots, Zenon
        <4> QED BY <4>1, <1>a, Zenon
      <3>3. ring' = [i \in 0 .. n - 1 |->
                        IF i < MaxEvents THEN ring[(cursor + skipped + i) % MaxEvents]
                                         ELSE MaxWindow]
        BY <1>6, Zenon DEF SetMaxEvents
      <3> HIDE DEF skipped
      <3> QED BY <3>2, <3>3, AgeFacts, Zenon
    <2>2. MaxEvents' = n /\ \E m \in EventLimit : ring' \in [0 .. m - 1 -> Age]
      BY <2>1, RingTypes, Zenon
    <2>3. MaxEvents' = 0 => window' = 0
      BY <1>6, <2>2, Zenon DEF SetMaxEvents
    <2>4. events' \in Seq(Age)
      BY <1>6 DEF SetMaxEvents
    <2>5. cursor' = 0 /\ cursor' \in Nat
      BY <1>6, Zenon DEF SetMaxEvents
    <2> QED BY <1>6, <2>2, <2>3, <2>4, <2>5, Zenon DEF SetMaxEvents, LimiterTypeOK
  <1>7. ASSUME NEW w \in Age, SetWindow(w) PROVE LimiterTypeOK'
    <2>1. events' \in Seq(Age)
      BY <1>7 DEF SetWindow
    <2> QED BY <1>7, <2>1, <1>b, Zenon DEF SetWindow, LimiterTypeOK
  <1>8. CASE Tick
    <2>1. ring' \in [0 .. MaxEvents - 1 -> Age]
      BY <1>8, <1>a, AgeFacts, Zenon DEF Tick
    <2>2. MaxEvents' = MaxEvents /\ \E m \in EventLimit : ring' \in [0 .. m - 1 -> Age]
      BY <1>a, <2>1, RingTypes, Zenon
    <2>3. events' \in Seq(Age)
      BY <1>8, TickEvents, Zenon
    <2>4. wait' \in Age
      BY <1>8, MaxWindowAssumption DEF Tick, LimiterTypeOK, Age
    <2> QED BY <1>8, <2>2, <2>3, <2>4, Zenon DEF Tick, LimiterTypeOK
  <1>9. CASE UNCHANGED limiterVars
    BY <1>9, <1>b, Zenon DEF limiterVars, LimiterTypeOK
  <1> QED BY <1>1, <1>2, <1>3, <1>4, <1>5, <1>6, <1>7, <1>8, <1>9, Zenon DEF LimiterNext, LoopStep

-----------------------------------------------------------------------------
(* The rate limiter: tickets and their records *)

\* What the types say about the tickets that are remembered.
LEMMA EventFacts ==
    ASSUME LimiterTypeOK
    PROVE  /\ events \in Seq(Age) /\ Len(events) \in Nat /\ DOMAIN events = 1 .. Len(events)
           /\ \A i \in DOMAIN events : events[i] \in Age /\ events[i] \in Nat
           /\ events = <<>> <=> Len(events) = 0
           /\ Recorded \in Nat /\ Recorded <= Len(events)
  <1>1. events \in Seq(Age)
    BY Zenon DEF LimiterTypeOK
  <1>2. events = <<>> <=> Len(events) = 0
    BY <1>1
  <1>3. Len(events) \in Nat /\ DOMAIN events = 1 .. Len(events)
    BY <1>1
  <1>4. \A i \in DOMAIN events : events[i] \in Age /\ events[i] \in Nat
    <2>1. \A i \in DOMAIN events : events[i] \in Age
      BY <1>1
    <2> QED BY <2>1, AgeFacts, Zenon
  <1> QED BY <1>1, <1>2, <1>3, <1>4 DEF Recorded

\* The slots of the last MaxEvents records are different slots of the ring.
LEMMA SlotFacts ==
    ASSUME LimiterTypeOK, NEW j \in 1 .. MaxEvents
    PROVE  /\ Slot(j) \in 0 .. MaxEvents - 1 /\ ring[Slot(j)] \in Age
           /\ Slot(j) = cursor <=> j = MaxEvents
  <1>1. MaxEvents \in Nat /\ ring \in [0 .. MaxEvents - 1 -> Age]
    BY Limits, Zenon
  <1>2. cursor \in 0 .. MaxEvents - 1
    BY <1>1 DEF LimiterTypeOK
  <1>3. Slot(j) \in 0 .. MaxEvents - 1 /\ (Slot(j) = cursor <=> j = MaxEvents)
    BY <1>1, <1>2 DEF Slot
  <1> QED BY <1>1, <1>3, Zenon

\* Where no ticket is remembered, nothing is said.
LEMMA Reconfigured ==
    ASSUME events' = <<>>
    PROVE  (OldestFirst /\ RingFollows /\ Waited /\ OthersOut)'
  <1>1. Len(events') = 0 /\ DOMAIN events' = {}
    OBVIOUS
  <1>2. Recorded' = 0
    BY <1>1, Zenon DEF Recorded
  <1>3. RingFollows'
    BY <1>2 DEF RingFollows
  <1> QED BY <1>1, <1>3, Zenon DEF OldestFirst, Waited, OthersOut

\* Steps that change neither the ring nor the tickets.
LEMMA LoopGoesOn ==
    ASSUME LimiterIInv, UNCHANGED <<ring, cursor, window, events>>,
           loop = "record" <=> loop' = "record", Waited'
    PROVE  (OldestFirst /\ RingFollows /\ Waited /\ OthersOut)'
  <1>1. UNCHANGED MaxEvents
    BY Zenon DEF MaxEvents
  <1>2. UNCHANGED Recorded
    BY Zenon DEF Recorded
  <1>3. \A j : UNCHANGED Slot(j)
    BY <1>1, Zenon DEF Slot
  <1>4. OldestFirst' /\ OthersOut'
    BY <1>1, Zenon DEF LimiterIInv, OldestFirst, OthersOut
  <1>5. RingFollows'
    BY <1>1, <1>2, <1>3, Zenon DEF LimiterIInv, RingFollows
  <1> QED BY <1>4, <1>5, Zenon

\* The loop waits until the record at the cursor has left the window.
LEMMA WaitedStep ==
    ASSUME LimiterIInv, UNCHANGED <<ring, cursor, window, events>>,
           LoopTop \/ ReadWindow \/ ComputeWait \/ WaitOver \/ ReceiveStop
    PROVE  Waited' /\ (loop = "record" <=> loop' = "record")
  <1> USE DEF LimiterIInv
  <1>1. CASE LoopTop
    <2>1. MaxEvents = 0 => events = <<>>
      BY Zenon DEF LimiterTypeOK, Waited
    <2> QED BY <1>1, <2>1, Zenon DEF LoopTop, Waited
  <1>2. CASE ReadWindow
    BY <1>2, Zenon DEF ReadWindow, Waited
  <1>3. CASE ComputeWait
    <2>1. CASE MaxEvents > 0
      <3>1. MaxEvents \in Nat /\ ring \in [0 .. MaxEvents - 1 -> Age]
        BY Limits, Zenon
      <3>2. cursor \in 0 .. MaxEvents - 1 /\ window \in Nat
        BY <3>1, <2>1, AgeFacts DEF LimiterTypeOK
      <3>3. ring[cursor] \in Nat
        BY <3>1, <3>2, AgeFacts, Zenon
      <3> QED BY <1>3, <2>1, <3>2, <3>3 DEF ComputeWait, Waited
    <2>2. CASE ~(MaxEvents > 0)
      BY <1>3, <2>2, Zenon DEF ComputeWait, Waited
    <2> QED BY <2>1, <2>2, Zenon
  <1>4. CASE WaitOver
    <2>1. CASE events = <<>>
      BY <1>4, <2>1, Zenon DEF WaitOver, Waited
    <2>2. CASE events # <<>>
      <3>1. window # 0 /\ MaxEvents # 0
        BY <2>2, Zenon DEF LimiterTypeOK, Waited
      <3>2. MaxEvents \in Nat /\ ring \in [0 .. MaxEvents - 1 -> Age]
        BY Limits, Zenon
      <3>3. ring[cursor] \in Nat
        BY <3>1, <3>2, AgeFacts DEF LimiterTypeOK
      <3> QED BY <1>4, <2>2, <3>3 DEF WaitOver, Waited
    <2> QED BY <2>1, <2>2, Zenon
  <1>5. CASE ReceiveStop
    BY <1>5, Zenon DEF ReceiveStop, Waited
  <1> QED BY <1>1, <1>2, <1>3, <1>4, <1>5, Zenon

\* A ticket is taken when the one MaxEvents tickets before it is out of the
\* window.
LEMMA TicketStep ==
    ASSUME LimiterIInv, Ticket
    PROVE  (OldestFirst /\ RingFollows /\ Waited /\ OthersOut)'
  <1> USE DEF LimiterIInv
  <1>0. /\ UNCHANGED <<ring, cursor, window>> /\ UNCHANGED MaxEvents
        /\ loop = "permit" /\ loop' = "record"
    BY Zenon DEF Ticket, limitVars, MaxEvents
  <1>1. CASE window = 0
    <2>1. events' = <<>>
      BY <1>1, Zenon DEF Ticket, Waited
    <2> QED BY <2>1, Reconfigured, Zenon
  <1>2. CASE window # 0
    <2>1. events' = Append(events, 0)
      BY <1>2, Zenon DEF Ticket
    <2>2. /\ Len(events') = Len(events) + 1 /\ DOMAIN events' = 1 .. Len(events) + 1
          /\ events'[Len(events) + 1] = 0
          /\ \A i \in 1 .. Len(events) : events'[i] = events[i]
      BY <2>1, EventFacts
    <2>3. events' # <<>>
      BY <2>1, EventFacts
    <2>4. Recorded = Len(events) /\ Recorded' = Len(events)
      BY <1>0, <2>2, <2>3, EventFacts DEF Recorded
    <2>5. MaxEvents \in Nat /\ MaxEvents # 0 /\ window \in Nat
      BY <1>2, Limits, AgeFacts, Zenon DEF LimiterTypeOK
    <2>6. OldestFirst'
      BY <2>2, EventFacts DEF OldestFirst
    <2>7. RingFollows'
      <3> SUFFICES ASSUME NEW j \in 1 .. MaxEvents, j <= Len(events)
                   PROVE  ring[Slot(j)] <= events'[Len(events) - j + 1]
        BY <1>0, <2>4, Zenon DEF RingFollows, Slot
      <3>1. Len(events) - j + 1 \in 1 .. Len(events)
        BY EventFacts, <2>5
      <3>2. ring[Slot(j)] <= events[Len(events) - j + 1]
        BY <2>4, Zenon DEF RingFollows
      <3> QED BY <3>1, <3>2, <2>2, Zenon
    <2>8. OthersOut'
      <3> SUFFICES ASSUME NEW i \in 1 .. Len(events) + 1, i + MaxEvents <= Len(events) + 1
                   PROVE  events'[i] >= window
        BY <1>0, <2>2, Zenon DEF OthersOut
      <3>1. i \in 1 .. Len(events) /\ events'[i] = events[i]
        BY <2>2, <2>5, EventFacts
      <3>2. CASE i + MaxEvents <= Len(events)
        BY <3>1, <3>2, EventFacts, Zenon DEF OthersOut
      <3>3. CASE i = Len(events) - MaxEvents + 1
        <4>1. MaxEvents \in 1 .. MaxEvents /\ MaxEvents <= Recorded
          BY <3>1, <3>3, <2>4, <2>5, EventFacts
        <4>2. ring[Slot(MaxEvents)] <= events[i]
          BY <4>1, <3>3, <2>4, Zenon DEF RingFollows
        <4>3. Slot(MaxEvents) = cursor /\ ring[cursor] \in Age
          BY <4>1, SlotFacts, Zenon
        <4>4. ring[cursor] >= window
          BY <1>0, <3>1, EventFacts DEF Waited
        <4>5. events[i] \in Nat /\ ring[cursor] \in Nat
          BY <3>1, <4>3, EventFacts, AgeFacts, Zenon
        <4> QED BY <4>2, <4>3, <4>4, <4>5, <3>1, <2>5
      <3> QED BY <3>2, <3>3, <2>5, EventFacts
    <2>9. Waited'
      BY <1>0, <1>2, Zenon DEF Waited
    <2> QED BY <2>6, <2>7, <2>8, <2>9, Zenon
  <1> QED BY <1>1, <1>2, Zenon

\* A ticket is recorded in the slot of the oldest record.
LEMMA RecordStep ==
    ASSUME LimiterIInv, RecordEvent
    PROVE  (OldestFirst /\ RingFollows /\ Waited /\ OthersOut)'
  <1> USE DEF LimiterIInv
  <1>0. UNCHANGED <<window, events>> /\ loop = "record" /\ loop' = "top"
    BY Zenon DEF RecordEvent
  <1>1. CASE events = <<>>
    BY <1>0, <1>1, Reconfigured, Zenon
  <1>2. CASE events # <<>>
    <2>1. MaxEvents \in Nat /\ MaxEvents # 0 /\ cursor \in 0 .. MaxEvents - 1
      BY <1>2, Limits DEF LimiterTypeOK, Waited
    <2>2. ring' = [ring EXCEPT ![cursor] = 0] /\ cursor' = Advance(cursor)
      BY <2>1 DEF RecordEvent
    <2>3. UNCHANGED MaxEvents
      BY <2>2, Zenon DEF MaxEvents
    <2>4. Recorded = Len(events) - 1 /\ Recorded' = Len(events) /\ Len(events) \in Nat \ {0}
      BY <1>0, <1>2, EventFacts, Zenon DEF Recorded
    <2>5. OldestFirst' /\ OthersOut' /\ Waited'
      BY <1>0, <2>3, Zenon DEF OldestFirst, OthersOut, Waited
    <2>6. RingFollows'
      <3> SUFFICES ASSUME NEW j \in 1 .. MaxEvents, j <= Len(events)
                   PROVE  ring'[Slot(j)'] <= events[Len(events) - j + 1]
        BY <1>0, <2>3, <2>4, Zenon DEF RingFollows
      <3>1. Len(events) - j + 1 \in DOMAIN events
        BY <2>1, <2>4, EventFacts
      <3>2. CASE j = 1
        <4>1. Slot(j)' = cursor
          BY <2>1, <2>2, <2>3, <3>2 DEF Slot, Advance
        <4>2. ring'[cursor] = 0
          BY <2>1, <2>2, Limits, Zenon
        <4> QED BY <4>1, <4>2, <3>1, EventFacts
      <3>3. CASE j # 1
        <4>1. j - 1 \in 1 .. MaxEvents /\ j - 1 # MaxEvents /\ j - 1 <= Recorded
          BY <2>1, <2>4, <3>3
        <4>2. Slot(j)' = Slot(j - 1)
          BY <2>1, <2>2, <2>3, <4>1 DEF Slot, Advance
        <4>3. Slot(j - 1) \in 0 .. MaxEvents - 1 /\ Slot(j - 1) # cursor
          BY <4>1, SlotFacts, Zenon
        <4>4. ring'[Slot(j - 1)] = ring[Slot(j - 1)]
          BY <4>3, <2>2, Limits, Zenon
        <4>5. ring[Slot(j - 1)] <= events[Recorded - (j - 1) + 1]
          BY <4>1, Zenon DEF RingFollows
        <4>6. Recorded - (j - 1) + 1 = Len(events) - j + 1
          BY <2>1, <2>4
        <4> QED BY <4>2, <4>4, <4>5, <4>6, Zenon
      <3> QED BY <3>2, <3>3, Zenon
    <2> QED BY <2>5, <2>6, Zenon
  <1> QED BY <1>1, <1>2, Zenon

\* Time passes for tickets and records alike.
LEMMA TickStep ==
    ASSUME LimiterIInv, Tick
    PROVE  (OldestFirst /\ RingFollows /\ Waited /\ OthersOut)'
  <1> USE DEF LimiterIInv
  <1>0. UNCHANGED <<cursor, window, loop>>
    BY Zenon DEF Tick
  <1>1. CASE events' = <<>>
    BY <1>1, Reconfigured, Zenon
  <1>2. CASE events' # <<>>
    <2>1. PICK k \in 0 .. Len(events) :
             /\ Len(events') = Len(events) - k
             /\ \A i \in 1 .. Len(events) - k :
                   i + k \in DOMAIN events /\ events'[i] = Older(events[i + k])
      BY TickEvents, Zenon
    <2>2. events' \in Seq(Age)
      BY TickEvents, Zenon
    <2>3. DOMAIN events' = 1 .. Len(events) - k /\ Len(events') # 0
      BY <2>1, <2>2, <1>2
    <2>4. events # <<>> /\ window # 0
      BY <2>1, <2>3, EventFacts DEF Waited
    <2>5. MaxEvents \in Nat /\ MaxEvents # 0 /\ cursor \in 0 .. MaxEvents - 1 /\ window \in Age
      BY <2>4, Limits DEF LimiterTypeOK
    <2>6. DOMAIN ring = 0 .. MaxEvents - 1 /\ ring \in [0 .. MaxEvents - 1 -> Age]
      BY Limits, Zenon
    <2>7. \A i \in 0 .. MaxEvents - 1 : ring'[i] = Older(ring[i]) /\ ring[i] \in Age
      BY <2>6, Zenon DEF Tick
    <2>8. UNCHANGED MaxEvents
      BY <2>6, Zenon DEF Tick, MaxEvents
    <2>9. Recorded' = Recorded - k
      BY <1>0, <1>2, <2>1, <2>4, EventFacts DEF Recorded
    <2>10. \A j : Slot(j)' = Slot(j)
      BY <1>0, <2>8, Zenon DEF Slot
    <2>11. OldestFirst'
      <3> SUFFICES ASSUME NEW i \in 1 .. Len(events) - k, NEW j \in 1 .. Len(events) - k, i <= j
                   PROVE  events'[j] <= events'[i]
        BY <2>3, Zenon DEF OldestFirst
      <3>1. i + k \in DOMAIN events /\ j + k \in DOMAIN events /\ i + k <= j + k
        BY <2>1, EventFacts
      <3>2. events[j + k] <= events[i + k]
        BY <3>1, Zenon DEF OldestFirst
      <3> QED BY <2>1, <3>1, <3>2, EventFacts, AgeFacts, Zenon
    <2>12. RingFollows'
      <3> SUFFICES ASSUME NEW j \in 1 .. MaxEvents, j <= Recorded - k
                   PROVE  ring'[Slot(j)] <= events'[Recorded - k - j + 1]
        BY <2>8, <2>9, <2>10, Zenon DEF RingFollows
      <3>1. j <= Recorded /\ Recorded - k - j + 1 \in 1 .. Len(events) - k
        BY <2>5, EventFacts
      <3>2. (Recorded - k - j + 1) + k = Recorded - j + 1
        BY <2>5, EventFacts
      <3>3. /\ Recorded - j + 1 \in DOMAIN events
            /\ events'[Recorded - k - j + 1] = Older(events[Recorded - j + 1])
        BY <2>1, <3>1, <3>2, Zenon
      <3>4. ring[Slot(j)] <= events[Recorded - j + 1]
        BY <3>1, Zenon DEF RingFollows
      <3>5. Slot(j) \in 0 .. MaxEvents - 1
        BY SlotFacts, Zenon
      <3> QED BY <2>7, <3>3, <3>4, <3>5, EventFacts, AgeFacts, Zenon
    <2>13. OthersOut'
      <3> SUFFICES ASSUME NEW i \in 1 .. Len(events) - k, i + MaxEvents <= Len(events) - k
                   PROVE  events'[i] >= window
        BY <1>0, <2>1, <2>3, <2>8, Zenon DEF OthersOut
      <3>1. i + k \in DOMAIN events /\ (i + k) + MaxEvents <= Len(events)
        BY <2>1, <2>5, EventFacts
      <3>2. events[i + k] >= window
        BY <3>1, Zenon DEF OthersOut
      <3>3. events[i + k] \in Age
        BY <3>1, EventFacts, Zenon
      <3> QED BY <2>1, <2>5, <3>2, <3>3, MaxWindowAssumption DEF Older, Age
    <2>14. Waited'
      <3>1. ring[cursor] \in Age /\ ring'[cursor] = Older(ring[cursor])
        BY <2>5, <2>7, Zenon
      <3>2. wait \in Nat /\ wait' = IF wait > 0 THEN wait - 1 ELSE 0
        BY AgeFacts, Zenon DEF Tick, LimiterTypeOK
      <3>3. ring[cursor] >= window => ring'[cursor] >= window
        BY <3>1, <2>5, MaxWindowAssumption DEF Older, Age
      <3>4. ring[cursor] + wait >= window => ring'[cursor] + wait' >= window
        BY <3>1, <3>2, <2>5, MaxWindowAssumption DEF Older, Age
      <3> QED BY <1>0, <2>4, <3>3, <3>4, Zenon DEF Waited
    <2> QED BY <2>11, <2>12, <2>13, <2>14, Zenon
  <1> QED BY <1>1, <1>2, Zenon

\* Every step keeps the invariant.
LEMMA LimiterInvariantStep ==
    ASSUME LimiterIInv, [LimiterNext]_limiterVars
    PROVE  LimiterIInv'
  <1>1. LimiterTypeOK'
    BY LimiterTypesStep, Zenon DEF LimiterIInv
  <1>2. (OldestFirst /\ RingFollows /\ Waited /\ OthersOut)'
    <2>1. CASE LoopTop \/ ReadWindow \/ ComputeWait \/ WaitOver \/ ReceiveStop
      <3>1. UNCHANGED <<ring, cursor, window, events>>
        BY <2>1, Zenon DEF LoopTop, ReadWindow, ComputeWait, WaitOver, ReceiveStop, limitVars
      <3> QED BY <2>1, <3>1, WaitedStep, LoopGoesOn, Zenon
    <2>2. CASE \/ Stop \/ UNCHANGED limiterVars
               \/ \E c \in Caller : Wait(c) \/ CancelWait(c)
      <3>1. UNCHANGED <<ring, cursor, window, events, loop, wait>>
        BY <2>2, Zenon DEF Stop, Wait, CancelWait, limiterVars, limitVars
      <3>2. Waited'
        BY <3>1, Zenon DEF Waited, LimiterIInv
      <3> QED BY <3>1, <3>2, LoopGoesOn, Zenon
    <2>3. CASE GiveTicket \/ Allow
      BY <2>3, TicketStep, Zenon DEF GiveTicket, Allow
    <2>4. CASE RecordEvent
      BY <2>4, RecordStep, Zenon
    <2>5. CASE (\E n \in EventLimit : SetMaxEvents(n)) \/ (\E w \in Age : SetWindow(w))
      BY <2>5, Reconfigured, Zenon DEF SetMaxEvents, SetWindow
    <2>6. CASE Tick
      BY <2>6, TickStep, Zenon
    <2> QED BY <2>1, <2>2, <2>3, <2>4, <2>5, <2>6, Zenon DEF LimiterNext, LoopStep
  <1> QED BY <1>1, <1>2, Zenon DEF LimiterIInv

\* The invariant holds of every behaviour of the limiter.
LEMMA LimiterInvariant == LimiterSpec => []LimiterIInv
  <1>1. LimiterInit => LimiterIInv
    <2> SUFFICES ASSUME LimiterInit PROVE LimiterIInv
      BY Zenon
    <2>1. events = <<>> /\ Len(events) = 0 /\ DOMAIN events = {}
      BY DEF LimiterInit
    <2>2. Recorded = 0
      BY <2>1, Zenon DEF Recorded
    <2>3. RingFollows
      BY <2>2 DEF RingFollows
    <2> QED BY <2>1, <2>3, LimiterInitTypes, Zenon DEF LimiterIInv, OldestFirst, Waited, OthersOut
  <1> QED BY <1>1, LimiterInvariantStep, PTL DEF LimiterSpec

\* The rate limiter keeps the types of its fields, whatever calls, stops and
\* reconfigures it, and for every limit and window.
THEOREM LimiterTypes == LimiterSpec => []LimiterTypeOK
  <1>1. LimiterIInv => LimiterTypeOK
    BY Zenon DEF LimiterIInv
  <1> QED BY <1>1, LimiterInvariant, PTL

\* "allows up to maxEvents in a sliding window of size window", for every limit
\* and window, and any number of callers: no sequence of tickets, stops and
\* reconfigurations gives out more tickets than that in a window.
THEOREM LimiterWindow == LimiterSpec => []WindowRespected
  <1>1. ASSUME LimiterIInv PROVE WindowRespected
    <2> DEFINE inWindow == {i \in DOMAIN events : events[i] < window}
    <2> DEFINE from == IF MaxEvents < Len(events) THEN Len(events) - MaxEvents + 1 ELSE 1
    <2>0. LimiterTypeOK
      BY <1>1, Zenon DEF LimiterIInv
    <2>1. MaxEvents \in Nat /\ Len(events) \in Nat /\ window \in Nat
      BY <2>0, Limits, EventFacts, AgeFacts, Zenon DEF LimiterTypeOK
    <2>7. from \in Int /\ (from > Len(events) \/ Len(events) - from + 1 <= MaxEvents)
      BY <2>1
    <2>2. inWindow \subseteq from .. Len(events)
      <3> SUFFICES ASSUME NEW i \in DOMAIN events, events[i] < window
                   PROVE  i \in from .. Len(events)
        BY Zenon
      <3>1. i \in 1 .. Len(events) /\ events[i] \in Nat
        BY <2>0, EventFacts, Zenon
      <3>2. ~(i + MaxEvents <= Len(events))
        BY <1>1, <3>1, <2>1 DEF LimiterIInv, OthersOut
      <3> QED BY <2>1, <3>1, <3>2
    <2>3. /\ IsFiniteSet(from .. Len(events))
          /\ Cardinality(from .. Len(events)) =
                IF from > Len(events) THEN 0 ELSE Len(events) - from + 1
      <3> HIDE DEF from
      <3> QED BY <2>1, <2>7, FS_Interval
    <2>4. Cardinality(from .. Len(events)) <= MaxEvents
      <3> HIDE DEF from
      <3> QED BY <2>1, <2>3, <2>7
    <2>5. Cardinality(inWindow) <= Cardinality(from .. Len(events)) /\ IsFiniteSet(inWindow)
      BY <2>2, <2>3, FS_Subset, Zenon
    <2>6. Cardinality(inWindow) \in Nat /\ Cardinality(from .. Len(events)) \in Nat
      BY <2>3, <2>5, FS_CardinalityType, Zenon
    <2> QED BY <2>1, <2>4, <2>5, <2>6 DEF WindowRespected
  <1> QED BY <1>1, LimiterInvariant, PTL

=============================================================================
