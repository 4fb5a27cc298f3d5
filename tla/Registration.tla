---------------------------- MODULE Registration ----------------------------
(***************************************************************************)
(* POST /auth/register from the first lookup to the answer, as the API     *)
(* process executes it against PostgreSQL:                                 *)
(*                                                                         *)
(*   AuthService.register      modules/auth/auth.service.ts                *)
(*   AuthRepository            modules/auth/auth.repository.ts             *)
(*   BaseRepository            shared/database/repositories                *)
(*   PostgresProvider          shared/database/providers                   *)
(*   users, audit_logs         shared/database/migrations                  *)
(*                                                                         *)
(* The steps between two awaits are one action: Node.js runs them without  *)
(* interruption.  Any number of requests interleave at the awaits, they    *)
(* compete for the clients of one pg Pool, statements fail, the pool's     *)
(* timer fires, and the process dies and comes back with an empty pool.    *)
(*                                                                         *)
(* A users row is named by the request that inserts it: one request        *)
(* inserts at most one row.  The order in which pg serves waiting requests *)
(* is left open, any of them may get a client that is free.                *)
(***************************************************************************)
EXTENDS Naturals, FiniteSets

CONSTANTS
    Requests,    \* the POST /auth/register requests
    Emails,      \* e-mail addresses as they are written
    EmailOf,     \* the address in the body of each request
    Canonical,   \* LOWER(): the address every spelling is compared by
    Clients,     \* the pool's clients, database.pool_size of them
    Nobody,      \* owner of a client that sits in the pool
    Timeouts,    \* is database.connection_timeout positive?
    MaxFaults,   \* bound: statements that fail
    MaxCrashes   \* bound: deaths of the process

ASSUME EmailsAssumption ==
    /\ EmailOf \in [Requests -> Emails]
    /\ Canonical \in [Emails -> Emails]
ASSUME NobodyAssumption == Nobody \notin Requests
ASSUME ClientsAssumption == IsFiniteSet(Clients)
ASSUME TimeoutsAssumption == Timeouts \in BOOLEAN
ASSUME BoundsAssumption == MaxFaults \in Nat /\ MaxCrashes \in Nat

VARIABLES
    pc,          \* the await each request is suspended at
    answer,      \* what each caller was told
    owner,       \* the request that has each client checked out
    connected,   \* PostgresProvider.connected
    users,       \* requests whose users row is committed
    auditLog,    \* requests whose audit_logs row is committed
    openUsers,   \* users rows of transactions still open
    openAudit,   \* audit_logs rows of transactions still open
    announced,   \* requests whose "auth.user.registered" was emitted
    faults,      \* statements that have failed
    crashes      \* times the process has died

db == <<users, auditLog, openUsers, openAudit>>
bounds == <<faults, crashes>>
vars == <<pc, answer, owner, connected, db, announced, bounds>>

WaitsForClient == {"find_wait", "connect_wait", "probe_wait"}
InStatement == {"find", "probe", "begin", "insert", "audit", "commit", "committed"}
Controls == {"idle", "rollback", "done"} \cup WaitsForClient \cup InStatement

SameAddress(r, s) == Canonical[EmailOf[r]] = Canonical[EmailOf[s]]

-----------------------------------------------------------------------------
(* The pg Pool (an external library): a client is free or checked out.     *)

Owned(r) == {c \in Clients : owner[c] = r}
Free == {c \in Clients : owner[c] = Nobody}

\* pool.connect(), and the checkout pool.query() makes for itself.
CheckOut(r) == \E c \in Free : owner' = [owner EXCEPT ![c] = r]

\* client.release(), and the release pool.query() makes for itself.
Release(r) == \E c \in Owned(r) : owner' = [owner EXCEPT ![c] = Nobody]

-----------------------------------------------------------------------------
Init ==
    /\ pc = [r \in Requests |-> "idle"]
    /\ answer = [r \in Requests |-> "none"]
    /\ owner = [c \in Clients |-> Nobody]
    /\ connected = FALSE
    /\ users = {}
    /\ auditLog = {}
    /\ openUsers = {}
    /\ openAudit = {}
    /\ announced = {}
    /\ faults = 0
    /\ crashes = 0

Goto(r, from, to) == pc[r] = from /\ pc' = [pc EXCEPT ![r] = to]

\* The request leaves the service with this HTTP status.
Reply(r, from, status) ==
    /\ Goto(r, from, "done")
    /\ answer' = [answer EXCEPT ![r] = status]

Fault == faults < MaxFaults /\ faults' = faults + 1 /\ UNCHANGED crashes

-----------------------------------------------------------------------------
(* Mistakes this code could contain.  Each stands for the action it is     *)
(* named after, and has to break a property of a run.                      *)

\* Sees rows of transactions still open.
FindMatches_Dirty(r) ==
    /\ \E s \in users \cup openUsers : SameAddress(r, s)
    /\ Reply(r, "find", "409")
    /\ Release(r)
    /\ UNCHANGED <<connected, db, announced, bounds>>

\* The transaction is asked for with the client of the lookup still in hand.
FindNothing_Keeps(r) ==
    /\ ~ \E s \in users : SameAddress(r, s)
    /\ Goto(r, "find", "connect_wait")
    /\ UNCHANGED <<answer, owner, connected, db, announced, bounds>>

\* The client of the SELECT 1 is never released.
ProbeReturns_Keeps(r) ==
    /\ Goto(r, "probe", "begin")
    /\ connected' = TRUE
    /\ UNCHANGED <<answer, owner, db, announced, bounds>>

\* A request whose checkout times out starts over.
CheckOutTimesOut_Retries(r) ==
    /\ Timeouts
    /\ Free = {}
    /\ \E wait \in WaitsForClient : Goto(r, wait, "find_wait")
    /\ UNCHANGED <<answer, owner, connected, db, announced, bounds>>

\* users.email has no UNIQUE index: the lookup is trusted.
InsertUser_Unchecked(r) ==
    /\ Goto(r, "insert", "audit")
    /\ openUsers' = openUsers \cup {r}
    /\ UNCHANGED <<answer, owner, connected, users, auditLog, openAudit, announced, bounds>>

\* A unique violation is tried again.
InsertViolatesUnique_Retries(r) ==
    /\ \E s \in users : EmailOf[s] = EmailOf[r]
    /\ Goto(r, "insert", "insert")
    /\ UNCHANGED <<answer, owner, connected, db, announced, bounds>>

\* ON CONFLICT DO NOTHING: the transaction goes on without its row.
InsertViolatesUnique_Ignored(r) ==
    /\ \E s \in users : EmailOf[s] = EmailOf[r]
    /\ Goto(r, "insert", "commit")
    /\ UNCHANGED <<answer, owner, connected, db, announced, bounds>>

\* The audit row is inserted through the pool, outside the transaction.
InsertAudit_OutsideTransaction(r) ==
    /\ Goto(r, "audit", "commit")
    /\ auditLog' = auditLog \cup {r}
    /\ UNCHANGED <<answer, owner, connected, users, openUsers, openAudit, announced, bounds>>

\* The event is emitted inside the transaction.
InsertAudit_Announces(r) ==
    /\ Goto(r, "audit", "commit")
    /\ openAudit' = openAudit \cup {r}
    /\ announced' = announced \cup {r}
    /\ UNCHANGED <<answer, owner, connected, users, auditLog, openUsers, bounds>>

\* No ROLLBACK: the client is released with the transaction open.
Rollback_Forgotten(r) ==
    /\ Reply(r, "rollback", "500")
    /\ Release(r)
    /\ UNCHANGED <<connected, db, announced, bounds>>

\* No finally: the error leaves transaction() with the client checked out.
Rollback_Keeps(r) ==
    /\ Reply(r, "rollback", "500")
    /\ openUsers' = openUsers \ {r}
    /\ openAudit' = openAudit \ {r}
    /\ UNCHANGED <<owner, connected, users, auditLog, announced, bounds>>

-----------------------------------------------------------------------------
(* The lookup: findByEmail runs one pool.query.                            *)

Receive(r) ==
    /\ Goto(r, "idle", "find_wait")
    /\ UNCHANGED <<answer, owner, connected, db, announced, bounds>>

FindCheckOut(r) ==
    /\ Goto(r, "find_wait", "find")
    /\ CheckOut(r)
    /\ UNCHANGED <<answer, connected, db, announced, bounds>>

\* Some committed row matches: UserAlreadyExistsError.
FindMatches(r) ==
    /\ \E s \in users : SameAddress(r, s)
    /\ Reply(r, "find", "409")
    /\ Release(r)
    /\ UNCHANGED <<connected, db, announced, bounds>>

\* No row matches: hash the password and ask for a client of its own.
FindNothing(r) ==
    /\ ~ \E s \in users : SameAddress(r, s)
    /\ Goto(r, "find", "connect_wait")
    /\ Release(r)
    /\ UNCHANGED <<answer, connected, db, announced, bounds>>

FindFails(r) ==
    /\ Fault
    /\ Reply(r, "find", "500")
    /\ Release(r)
    /\ UNCHANGED <<connected, db, announced>>

-----------------------------------------------------------------------------
(* PostgresProvider.connect.  The first connects of a process also send a  *)
(* SELECT 1 through the pool, on a second client, holding the first.       *)

ConnectCheckOut(r) ==
    /\ Goto(r, "connect_wait", IF connected THEN "begin" ELSE "probe_wait")
    /\ CheckOut(r)
    /\ UNCHANGED <<answer, connected, db, announced, bounds>>

ProbeCheckOut(r) ==
    /\ Goto(r, "probe_wait", "probe")
    /\ CheckOut(r)
    /\ UNCHANGED <<answer, connected, db, announced, bounds>>

ProbeReturns(r) ==
    /\ Goto(r, "probe", "begin")
    /\ Release(r)
    /\ connected' = TRUE
    /\ UNCHANGED <<answer, db, announced, bounds>>

\* The error leaves connect() before transaction() has entered its try: the
\* client of the SELECT 1 goes back, the other one has no finally.
ProbeFails(r) ==
    /\ Fault
    /\ Reply(r, "probe", "500")
    /\ Release(r)
    /\ UNCHANGED <<connected, db, announced>>

\* The pool has nobody to serve the request with until its timer fires ...
CheckOutTimesOut(r) ==
    /\ Timeouts
    /\ Free = {}
    /\ \E wait \in WaitsForClient : Reply(r, wait, "500")
    /\ UNCHANGED <<owner, connected, db, announced, bounds>>

\* ... or has to open a connection, and PostgreSQL refuses it.
CheckOutFails(r) ==
    /\ Fault
    /\ Free # {}
    /\ \E wait \in WaitsForClient : Reply(r, wait, "500")
    /\ UNCHANGED <<owner, connected, db, announced>>

-----------------------------------------------------------------------------
(* BaseRepository.transaction around AuthRepository.createWithAudit.       *)

Begin(r) ==
    /\ Goto(r, "begin", "insert")
    /\ UNCHANGED <<answer, owner, connected, db, announced, bounds>>

\* email is UNIQUE as it is written.  The index makes the INSERT wait for an
\* open transaction that has inserted the same address.
InsertUser(r) ==
    /\ \A s \in users \cup openUsers : EmailOf[s] # EmailOf[r]
    /\ Goto(r, "insert", "audit")
    /\ openUsers' = openUsers \cup {r}
    /\ UNCHANGED <<answer, owner, connected, users, auditLog, openAudit, announced, bounds>>

InsertViolatesUnique(r) ==
    /\ \E s \in users : EmailOf[s] = EmailOf[r]
    /\ Goto(r, "insert", "rollback")
    /\ UNCHANGED <<answer, owner, connected, db, announced, bounds>>

InsertAudit(r) ==
    /\ Goto(r, "audit", "commit")
    /\ openAudit' = openAudit \cup {r}
    /\ UNCHANGED <<answer, owner, connected, users, auditLog, openUsers, announced, bounds>>

\* PostgreSQL commits; the reply is still on its way.
Commit(r) ==
    /\ Goto(r, "commit", "committed")
    /\ users' = users \cup (openUsers \cap {r})
    /\ auditLog' = auditLog \cup (openAudit \cap {r})
    /\ openUsers' = openUsers \ {r}
    /\ openAudit' = openAudit \ {r}
    /\ UNCHANGED <<answer, owner, connected, announced, bounds>>

\* A statement, or the reply to COMMIT, is lost: into the catch block.
StatementFails(r) ==
    /\ Fault
    /\ \E at \in {"begin", "insert", "audit", "commit", "committed"} : Goto(r, at, "rollback")
    /\ UNCHANGED <<answer, owner, connected, db, announced>>

\* ROLLBACK, then the finally block.  If the ROLLBACK fails it is because the
\* connection is gone, and PostgreSQL has rolled back by itself.
Rollback(r) ==
    /\ Reply(r, "rollback", "500")
    /\ Release(r)
    /\ openUsers' = openUsers \ {r}
    /\ openAudit' = openAudit \ {r}
    /\ UNCHANGED <<connected, users, auditLog, announced, bounds>>

\* COMMIT returned: release the client, emit the event, answer.
Created(r) ==
    /\ Reply(r, "committed", "201")
    /\ Release(r)
    /\ announced' = announced \cup {r}
    /\ UNCHANGED <<connected, db, bounds>>

-----------------------------------------------------------------------------
\* The process dies and is started again: every request under way is cut off,
\* its transaction is rolled back, and the pool and the provider are new.
Crash ==
    /\ crashes < MaxCrashes
    /\ crashes' = crashes + 1
    /\ LET cut == {r \in Requests : pc[r] \notin {"idle", "done"}} IN
       /\ pc' = [r \in Requests |-> IF r \in cut THEN "done" ELSE pc[r]]
       /\ answer' = [r \in Requests |-> IF r \in cut THEN "lost" ELSE answer[r]]
    /\ owner' = [c \in Clients |-> Nobody]
    /\ connected' = FALSE
    /\ openUsers' = {}
    /\ openAudit' = {}
    /\ UNCHANGED <<users, auditLog, announced, faults>>

Lookup(r) == FindCheckOut(r) \/ FindMatches(r) \/ FindNothing(r)

Connect(r) == ConnectCheckOut(r) \/ ProbeCheckOut(r) \/ ProbeReturns(r)

Transaction(r) ==
    \/ Begin(r) \/ InsertUser(r) \/ InsertViolatesUnique(r)
    \/ InsertAudit(r) \/ Commit(r) \/ Rollback(r) \/ Created(r)

\* What the process and PostgreSQL do for a request of their own accord.
Proceed(r) == Lookup(r) \/ Connect(r) \/ Transaction(r) \/ CheckOutTimesOut(r)

GoesWrong(r) == FindFails(r) \/ ProbeFails(r) \/ CheckOutFails(r) \/ StatementFails(r)

\* Nothing is left to do once every request has its answer.
Finished == (\A r \in Requests : pc[r] = "done") /\ UNCHANGED vars

Next ==
    \/ \E r \in Requests : Receive(r) \/ Proceed(r) \/ GoesWrong(r)
    \/ Crash
    \/ Finished

Spec == Init /\ [][Next]_vars

\* The event loop runs every continuation, PostgreSQL answers every statement
\* and timers fire.  Requests need not arrive, and nothing has to fail.
FairSpec == Spec /\ \A r \in Requests : WF_vars(Proceed(r))
-----------------------------------------------------------------------------
(* Properties.                                                             *)

\* The type of every variable: register() and the pool keep their state in
\* the states the code can name.
TypeOK ==
    /\ pc \in [Requests -> Controls]
    /\ answer \in [Requests -> {"none", "201", "409", "500", "lost"}]
    /\ owner \in [Clients -> Requests \cup {Nobody}]
    /\ connected \in BOOLEAN
    /\ users \subseteq Requests
    /\ auditLog \subseteq Requests
    /\ openUsers \subseteq Requests
    /\ openAudit \subseteq Requests
    /\ announced \subseteq Requests
    /\ faults \in 0..MaxFaults
    /\ crashes \in 0..MaxCrashes

\* Two accounts never have the same e-mail address as it is written, however
\* the lookups and inserts of their requests interleave (users.email UNIQUE).
UniqueEmail == \A r, s \in users : EmailOf[r] = EmailOf[s] => r = s

\* An account exists exactly when its USER_CREATED audit row does: failed
\* statements, lost replies and crashes never separate the two inserts of
\* createWithAudit.
AuditMatchesUsers == users = auditLog

\* A client never goes back to the pool with a transaction open on it: rows
\* not yet committed belong to a request that still has a client checked out
\* and will commit them or roll them back (BaseRepository.transaction).
OpenTransactionHasClient ==
    \A r \in openUsers \cup openAudit :
        Owned(r) # {} /\ pc[r] \in {"audit", "commit", "rollback"}

\* Errors have causes.  "Email already registered" is only said when another
\* request's account has the address (AuthService.register), and a transaction
\* is only rolled back or a 500 given when a statement or a checkout has failed,
\* or another request's account has the address as it is written.
ErrorsHaveCauses ==
    \A r \in Requests :
        /\ answer[r] = "409" => \E s \in users \ {r} : SameAddress(r, s)
        /\ answer[r] = "500" \/ pc[r] = "rollback" =>
              Timeouts \/ faults > 0 \/ \E s \in users \ {r} : EmailOf[s] = EmailOf[r]

\* Clients checked out by requests that are over: nothing will release them.
Leaked == {c \in Clients : owner[c] # Nobody /\ pc[owner[c]] = "done"}

\* Once the provider is connected and no SELECT 1 of a first connect is under
\* way, no step of any request loses a client of the pool: transaction() and
\* pool.query() release what they check out on every path.
WarmPoolLosesNoClient ==
    [][connected /\ (\A r \in Requests : pc[r] \notin {"probe_wait", "probe"})
            => Leaked' \subseteq Leaked]_vars

\* Every request that has been answered has released its clients (WORKFLOW.md
\* on transactions: "always call client.release() in finally").
ReleasedWhenAnswered == Leaked = {}

\* With checkouts that wait as long as it takes, that is so until a statement or
\* a connection fails: no lookup, conflict, rollback or crash loses a client,
\* and first connects lose none to each other (PostgresProvider.connect).
OnlyFailuresLeak == ~Timeouts /\ faults = 0 => ReleasedWhenAnswered

UnderWay == {r \in Requests : pc[r] \notin {"idle", "done"}}

\* A request that waits for other requests: for a client while the pool has none
\* left, or for the transaction that has inserted its address.
Blocked(r) ==
    \/ pc[r] \in WaitsForClient /\ Free = {}
    \/ pc[r] = "insert" /\ \E s \in openUsers : EmailOf[s] = EmailOf[r]

\* All requests wait for each other.
Stuck == UnderWay # {} /\ \A r \in UnderWay : Blocked(r)

FirstConnects == {r \in Requests : pc[r] = "probe_wait"}

\* Only first connects can do that, and only when there are as many of them as
\* the pool has clients left: locks of open transactions, lookups and connects
\* of a warm pool never close a circle (PostgresProvider.connect, register()).
OnlyColdPoolBlocks == Cardinality(FirstConnects) < Cardinality(Clients \ Leaked) => ~Stuck

\* Every request is answered or cut off by a crash: with a connection timeout
\* none waits for a client or a lock for ever (PostgresProvider, register()).
EveryRequestAnswered == \A r \in Requests : pc[r] # "idle" ~> pc[r] = "done"

\* When nothing fails, a request whose address another account has is told so
\* (auth.openapi.ts documents 409 "Email already registered"), never 500.
RepeatedAddressGets409 ==
    \A r \in Requests : answer[r] = "500" => ~ \E s \in users \ {r} : SameAddress(r, s)

\* An address has one account however it is spelled: what findByEmail, which
\* compares LOWER(email), is there to check ("check email uniqueness").
OneAccountPerAddress == \A r, s \in users : SameAddress(r, s) => r = s

\* What makes the invariants above inductive, checked by TLC and preserved by
\* every step (RegistrationProofs): where a request is suspended says which
\* rows it has written and whether they are committed ...
RowsByStage ==
    /\ openAudit \subseteq openUsers
    /\ openUsers \cap users = {}
    /\ \A r \in Requests :
        /\ r \in openUsers => pc[r] \in {"audit", "commit", "rollback"}
        /\ pc[r] = "audit" => r \in openUsers
        /\ pc[r] = "commit" => r \in openAudit
        /\ pc[r] = "committed" => r \in users
        /\ r \in users => pc[r] \in {"committed", "rollback", "done"}
        /\ answer[r] = "none" <=> pc[r] # "done"
        /\ answer[r] = "201" => r \in users
        /\ answer[r] = "409" => r \notin users
        /\ r \in announced <=> answer[r] = "201"

\* ... open transactions respect the UNIQUE index too ...
UniqueRows == \A r, s \in users \cup openUsers : EmailOf[r] = EmailOf[s] => r = s

\* ... and a request has checked out as many clients as its await needs: two
\* only while its SELECT 1 runs.
ClientsByStage ==
    \A r \in Requests :
        /\ pc[r] \in {"idle", "find_wait", "connect_wait"} => Owned(r) = {}
        /\ pc[r] \in {"find", "probe_wait", "begin", "insert", "audit", "commit",
                      "committed", "rollback"} => \E c \in Clients : Owned(r) = {c}
        /\ pc[r] = "probe" => \E c, d \in Clients : c # d /\ Owned(r) = {c, d}

\* The inductive invariant of register().
Inv ==
    /\ TypeOK
    /\ AuditMatchesUsers
    /\ ErrorsHaveCauses
    /\ RowsByStage
    /\ UniqueRows
    /\ ClientsByStage

Registry == INSTANCE AccountRegistry WITH accounts <- users, audit <- auditLog

\* register() with its pool, transactions and failures does nothing that the
\* atomic registry does not: no 201 without an account, no account without an
\* audit row, no second answer, no event for an account that is not committed.
ImplementsRegistry == Registry!Spec
=============================================================================
