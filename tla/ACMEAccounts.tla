---------------------------- MODULE ACMEAccounts ----------------------------
(***************************************************************************)
(* The ACME account of one email address (account.go, acmeclient.go) and   *)
(* the orders placed with it (acmeissuer.go): concurrent calls of          *)
(* ACMEIssuer.Issue load the account from storage, register one if there   *)
(* is none, and recreate one that the authority no longer knows.           *)
(*                                                                         *)
(* There are two authorities, the one of the issuer and its test CA, where *)
(* retries go first.  They have accounts of their own, in files of their   *)
(* own, but one registration lock: its name holds the address only.        *)
(* Accounts are numbered as they are registered; 0 is none.  A stored      *)
(* account is two files, the registration and the private key.  What the   *)
(* storage does to one file is atomic, an order is one step, and waiting   *)
(* for the rate limiter is left out (see FileLock, Challenges and          *)
(* RateLimiter).  AccountKeyPEM is not set.                                *)
(***************************************************************************)
EXTENDS Naturals, FiniteSets

CONSTANTS
    Worker,         \* concurrent calls of Issue, on any instances
    Nobody,
    FaultKind,      \* the faults that happen, each at most once
    MaxFaults,      \* bound on the faults in a behaviour
    MaxAccounts     \* bound on the accounts registered in a behaviour

ASSUME NamesAssumption == Nobody \notin Worker
ASSUME FaultAssumption ==
    FaultKind \subseteq {"io", "store", "crash", "reset"}
ASSUME BoundAssumption == MaxFaults \in Nat /\ MaxAccounts \in Nat

CA == {"main", "test"}
Account == 0 .. MaxAccounts

VARIABLES
    reg, key,   \* the two files of the account, for each authority
    known,      \* the accounts each authority knows
    made,       \* how many accounts have been registered
    lock,       \* who holds register_acme_account_<email>
    pc,
    round,      \* which call of doIssue this is
    tries,      \* how many orders this call of doIssue has placed
    acct,       \* the account being loaded or saved
    params,     \* the account of the order parameters
    chain,      \* whose certificate has been obtained
    faults      \* the faults so far (history)

files == <<reg, key>>
server == <<known, made>>
local == <<pc, round, tries, acct, params, chain>>
vars == <<reg, key, known, made, lock, pc, round, tries, acct, params, chain, faults>>

Outcome == {"idle", "cert", "error", "noRetry", "panic"}
NoAccount == [reg |-> 0, key |-> 0]

\* The types of the variables (storage, authorities and calls of Issue), with
\* at most two orders in one call of doIssue.
TypeOK ==
    /\ reg \in [CA -> Account] /\ key \in [CA -> Account]
    /\ known \in [CA -> SUBSET (1 .. made)] /\ made \in Account
    /\ lock \in Worker \cup {Nobody}
    /\ pc \in [Worker -> Outcome \cup {"loadReg", "loadKey", "lock", "register", "saveReg",
                                       "saveKey", "undo", "order", "deleteReg", "deleteKey"}]
    /\ round \in [Worker -> {"first", "test", "again"}]
    /\ tries \in [Worker -> 0 .. 2]
    /\ acct \in [Worker -> [reg : Account, key : Account]]
    /\ params \in [Worker -> [reg : Account, key : Account]]
    /\ chain \in [Worker -> CA \cup {"none"}]
    /\ faults \subseteq FaultKind

Init ==
    /\ reg = [c \in CA |-> 0] /\ key = [c \in CA |-> 0]
    /\ known = [c \in CA |-> {}] /\ made = 0
    /\ lock = Nobody
    /\ pc = [w \in Worker |-> "idle"]
    /\ round = [w \in Worker |-> "first"]
    /\ tries = [w \in Worker |-> 0]
    /\ acct = [w \in Worker |-> NoAccount]
    /\ params = [w \in Worker |-> NoAccount]
    /\ chain = [w \in Worker |-> "none"]
    /\ faults = {}

\* client.Directory: an attempt that is a retry goes to the test CA.
Directory(w) == IF round[w] = "test" THEN "test" ELSE "main"

\* What is left of a call that is over.
Clear(w, outcome) ==
    /\ pc' = [pc EXCEPT ![w] = outcome]
    /\ round' = [round EXCEPT ![w] = "first"]
    /\ tries' = [tries EXCEPT ![w] = 0]
    /\ acct' = [acct EXCEPT ![w] = NoAccount]
    /\ params' = [params EXCEPT ![w] = NoAccount]

\* The deferred releaseLock of newACMEClientWithAccount.
ReleaseLock(w) == lock' = IF lock = w THEN Nobody ELSE lock

\* Issue returns an error.  The one of the order that follows a success with
\* the test CA ends the retries, unless it is a 429.
Fail(w, tooMany) ==
    /\ Clear(w, IF round[w] = "again" /\ ~tooMany THEN "noRetry" ELSE "error")
    /\ chain' = [chain EXCEPT ![w] = "none"]
    /\ ReleaseLock(w)

Goto(w, to) == pc' = [pc EXCEPT ![w] = to]

Fault(kind) ==
    /\ kind \in FaultKind \ faults
    /\ Cardinality(faults) < MaxFaults
    /\ faults' = faults \cup {kind}

-----------------------------------------------------------------------------
(* newACMEClientWithAccount *)

\* Issue, and the doIssue of a first attempt or of a retry.
Begin(w, how) ==
    /\ pc[w] \in Outcome /\ lock # w
    /\ Goto(w, "loadReg")
    /\ round' = [round EXCEPT ![w] = how]
    /\ chain' = [chain EXCEPT ![w] = "none"]
    /\ UNCHANGED <<files, server, lock, tries, acct, params, faults>>

\* newACMEClientWithAccount returns a client with account a.  The order
\* parameters are made once, from the first client.  With two orders placed
\* in vain the loop is over and there is no chain to select.
Connected(w, a) ==
    /\ ReleaseLock(w)
    /\ UNCHANGED chain
    /\ \/ tries[w] = 0
          /\ Goto(w, "order")
          /\ params' = [params EXCEPT ![w] = a]
          /\ acct' = [acct EXCEPT ![w] = NoAccount]
          /\ UNCHANGED <<round, tries>>
       \/ tries[w] = 1
          /\ Goto(w, "order")
          /\ acct' = [acct EXCEPT ![w] = NoAccount]
          /\ UNCHANGED <<round, tries, params>>
       \/ tries[w] = 2
          /\ Clear(w, "panic")

\* loadAccount found a file missing: newAccount makes an account without a
\* status, to be registered under the lock.
NewAccount(w) ==
    /\ Goto(w, IF lock = w THEN "register" ELSE "lock")
    /\ acct' = [acct EXCEPT ![w] = NoAccount]
    /\ UNCHANGED <<lock, round, tries, params, chain>>

LoadReg(w) ==
    /\ pc[w] = "loadReg"
    /\ \/ /\ reg[Directory(w)] = 0
          /\ NewAccount(w)
       \/ /\ reg[Directory(w)] # 0
          /\ Goto(w, "loadKey")
          /\ acct' = [acct EXCEPT ![w].reg = reg[Directory(w)]]
          /\ UNCHANGED <<lock, round, tries, params, chain>>
    /\ UNCHANGED <<files, server, faults>>

LoadKey(w) ==
    /\ pc[w] = "loadKey"
    /\ \/ key[Directory(w)] = 0 /\ NewAccount(w)
       \/ key[Directory(w)] # 0 /\ Connected(w, [acct[w] EXCEPT !.key = key[Directory(w)]])
    /\ UNCHANGED <<files, server, faults>>

LoadFails(w) ==
    /\ Fault("io")
    /\ pc[w] \in {"loadReg", "loadKey"}
    /\ Fail(w, FALSE)
    /\ UNCHANGED <<files, server>>

\* Mutant of AcquireLock: the account is not looked for again.
RegisterAtOnce(w) ==
    /\ pc[w] = "lock"
    /\ lock = Nobody
    /\ lock' = w
    /\ Goto(w, "register")
    /\ UNCHANGED <<files, server, round, tries, acct, params, chain, faults>>

\* "synchronize this so the account is only created once"
AcquireLock(w) ==
    /\ pc[w] = "lock"
    /\ lock = Nobody
    /\ lock' = w
    /\ Goto(w, "loadReg")
    /\ UNCHANGED <<files, server, round, tries, acct, params, chain, faults>>

\* client.NewAccount
Register(w) ==
    /\ pc[w] = "register"
    /\ made < MaxAccounts
    /\ made' = made + 1
    /\ known' = [known EXCEPT ![Directory(w)] = @ \cup {made'}]
    /\ acct' = [acct EXCEPT ![w] = [reg |-> made', key |-> made']]
    /\ Goto(w, "saveReg")
    /\ UNCHANGED <<files, lock, round, tries, params, chain, faults>>

\* The callback, the directory, the external account binding or the
\* registration fails.
RegisterFails(w) ==
    /\ pc[w] = "register"
    /\ Fail(w, FALSE)
    /\ UNCHANGED <<files, server, faults>>

\* saveAccount: storeTx of the registration and the key.
SaveReg(w) ==
    /\ pc[w] = "saveReg"
    /\ reg' = [reg EXCEPT ![Directory(w)] = acct[w].reg]
    /\ Goto(w, "saveKey")
    /\ UNCHANGED <<key, server, lock, round, tries, acct, params, chain, faults>>

SaveKey(w) ==
    /\ pc[w] = "saveKey"
    /\ key' = [key EXCEPT ![Directory(w)] = acct[w].key]
    /\ Connected(w, acct[w])
    /\ UNCHANGED <<reg, server, faults>>

\* If the key cannot be stored the registration is deleted again.
SaveFails(w) ==
    /\ Fault("store")
    /\ \/ pc[w] = "saveReg" /\ Fail(w, FALSE)
       \/ pc[w] = "saveKey" /\ Goto(w, "undo") /\ UNCHANGED <<lock, round, tries, acct, params, chain>>
    /\ UNCHANGED <<files, server>>

\* Mutant of UndoSave: what has been stored stays.
LeaveReg(w) ==
    /\ pc[w] = "undo"
    /\ Fail(w, FALSE)
    /\ UNCHANGED <<files, server, faults>>

UndoSave(w) ==
    /\ pc[w] = "undo"
    /\ reg' = [reg EXCEPT ![Directory(w)] = 0]
    /\ Fail(w, FALSE)
    /\ UNCHANGED <<key, server, faults>>

\* An error of that deletion is ignored.
UndoFails(w) ==
    /\ Fault("io")
    /\ pc[w] = "undo"
    /\ Fail(w, FALSE)
    /\ UNCHANGED <<files, server>>

-----------------------------------------------------------------------------
(* doIssue *)

Valid(c, a) == a.reg = a.key /\ a.reg \in known[c]

\* Mutant of Succeed: what the test CA issued is taken.
TakeAny(w) ==
    /\ chain' = [chain EXCEPT ![w] = Directory(w)]
    /\ Clear(w, "cert")

\* A certificate from the test CA is not returned: the order is placed again
\* with the other one.
Succeed(w) ==
    /\ chain' = [chain EXCEPT ![w] = Directory(w)]
    /\ \/ round[w] = "test"
          /\ Goto(w, "loadReg")
          /\ round' = [round EXCEPT ![w] = "again"]
          /\ tries' = [tries EXCEPT ![w] = 0]
          /\ params' = [params EXCEPT ![w] = NoAccount]
          /\ UNCHANGED acct
       \/ round[w] # "test"
          /\ Clear(w, "cert")

\* Mutant of Order: an unknown account is an error like any other.
OrderOnce(w) ==
    LET c == Directory(w) IN
    /\ pc[w] = "order"
    /\ \/ Valid(c, params[w]) /\ Succeed(w) /\ UNCHANGED lock
       \/ ~Valid(c, params[w]) /\ Fail(w, FALSE)
    /\ UNCHANGED <<files, server, faults>>

\* Mutant of Order: the loop has no bound.
OrderForever(w) ==
    LET c == Directory(w) IN
    /\ pc[w] = "order"
    /\ \/ Valid(c, params[w]) /\ Succeed(w) /\ UNCHANGED lock
       \/ /\ params[w].reg \notin known[c]
          /\ Goto(w, "deleteReg")
          /\ UNCHANGED <<lock, round, tries, acct, params, chain>>
       \/ /\ params[w].reg \in known[c] /\ ~Valid(c, params[w])
          /\ Fail(w, FALSE)
    /\ UNCHANGED <<files, server, faults>>

\* ObtainCertificate: the authority looks for the account first.
Order(w) ==
    LET c == Directory(w) IN
    /\ pc[w] = "order"
    /\ \/ Valid(c, params[w]) /\ Succeed(w) /\ UNCHANGED lock
       \/ /\ params[w].reg \notin known[c]
          /\ Goto(w, "deleteReg")
          /\ tries' = [tries EXCEPT ![w] = @ + 1]
          /\ UNCHANGED <<lock, round, acct, params, chain>>
       \/ /\ params[w].reg \in known[c] /\ ~Valid(c, params[w])
          /\ Fail(w, FALSE)
    /\ UNCHANGED <<files, server, faults>>

\* The order fails for another reason, or it is not placed because the
\* rate limiter is stopped.
OrderFails(w) ==
    /\ pc[w] = "order"
    /\ \E tooMany \in BOOLEAN : Fail(w, tooMany)
    /\ UNCHANGED <<files, server, faults>>

\* deleteAccountLocally deletes the account of the issuer's CA, whichever of
\* the two has been asked; then a client is made anew.
DeleteReg(w) ==
    /\ pc[w] = "deleteReg"
    /\ reg' = [reg EXCEPT !["main"] = 0]
    /\ Goto(w, "deleteKey")
    /\ UNCHANGED <<key, server, lock, round, tries, acct, params, chain, faults>>

DeleteKey(w) ==
    /\ pc[w] = "deleteKey"
    /\ key' = [key EXCEPT !["main"] = 0]
    /\ Goto(w, "loadReg")
    /\ UNCHANGED <<reg, server, lock, round, tries, acct, params, chain, faults>>

DeleteFails(w) ==
    /\ Fault("io")
    /\ pc[w] \in {"deleteReg", "deleteKey"}
    /\ Fail(w, FALSE)
    /\ UNCHANGED <<files, server>>

-----------------------------------------------------------------------------

\* The authority is reset or reinstalled.
Reset(c) ==
    /\ Fault("reset")
    /\ known[c] # {}
    /\ known' = [known EXCEPT ![c] = {}]
    /\ UNCHANGED <<files, made, lock, local>>

\* The instance of a call is killed; the lock it may hold outlives it ...
Crash(w) ==
    /\ Fault("crash")
    /\ pc[w] \notin Outcome
    /\ Clear(w, "idle")
    /\ chain' = [chain EXCEPT ![w] = "none"]
    /\ UNCHANGED <<files, server, lock>>

\* ... until it is stale.
LockExpires ==
    /\ lock # Nobody
    /\ pc[lock] = "idle"
    /\ lock' = Nobody
    /\ UNCHANGED <<files, server, local, faults>>

Step(w) ==
    \/ LoadReg(w) \/ LoadKey(w) \/ AcquireLock(w) \/ Register(w) \/ RegisterFails(w)
    \/ SaveReg(w) \/ SaveKey(w) \/ UndoSave(w) \/ Order(w) \/ OrderFails(w)
    \/ DeleteReg(w) \/ DeleteKey(w)

Next ==
    \/ \E w \in Worker :
          \/ Begin(w, "first") \/ Begin(w, "test")
          \/ Step(w) \/ LoadFails(w) \/ SaveFails(w) \/ UndoFails(w) \/ DeleteFails(w)
          \/ Crash(w)
    \/ \E c \in CA : Reset(c)
    \/ LockExpires

Spec == Init /\ [][Next]_vars

\* Attempts that are not retries keep being made, and the authority does not
\* fail every order before it looks at the account.
FairSpec ==
    /\ Spec
    /\ \A w \in Worker : WF_vars(Step(w)) /\ SF_vars(AcquireLock(w))
    /\ WF_vars(LockExpires)
    /\ SF_vars(\E w \in Worker : Begin(w, "first"))
    /\ SF_vars(\E w \in Worker : Order(w) /\ round[w] = "first")

-----------------------------------------------------------------------------
(* Properties *)

\* Whether the account in storage can be used with an authority.
Usable(c) == reg[c] # 0 /\ Valid(c, [reg |-> reg[c], key |-> key[c]])

\* "synchronize this so the account is only created once": no account is
\* registered with an authority while storage has one that it knows, however
\* many calls find none at the same time.
RegisteredOnce ==
    [][\A c \in CA : known'[c] \subseteq known[c] \/ ~Usable(c)]_vars

\* saveAccount, the rollback of storeTx and deleteAccountLocally, which does
\* not take the lock, never leave the registration of one account with the
\* key of another.  Nothing would repair that: the account loads and has a
\* status, and the authority does not call it unknown.  A crash between the
\* two files is excepted, and so is a rollback that fails in its turn.
AccountNotMixed ==
    \/ \E w \in Worker : pc[w] \in {"saveKey", "undo"}
    \/ "crash" \in faults \/ {"store", "io"} \subseteq faults
    \/ \A c \in CA : reg[c] = 0 \/ key[c] = 0 \/ reg[c] = key[c]

\* "any certs obtained from this CA are discarded": Issue returns only what
\* the issuer's own CA has issued, whatever the order of retries.
TestCertsDiscarded ==
    \A w \in Worker : pc[w] = "cert" => chain[w] = "main"

\* Every call of Issue returns: nobody waits forever for the registration
\* lock, whoever failed, panicked or was killed holding it.  (Whoever has not
\* returned will, which is to say that there is always a time when it has.)
IssueEnds == \A w \in Worker : []<>(pc[w] \in Outcome)

\* An account that the issuer's CA no longer knows does not stay in storage
\* ("attempting to recreate").
AccountRecovers ==
    []<>(Usable("main") \/ reg["main"] = 0 \/ key["main"] = 0 \/ "crash" \in faults)
=============================================================================
