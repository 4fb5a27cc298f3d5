------------------------------- MODULE HttpApi -------------------------------
(***************************************************************************)
(* The requests that read: login (AuthService), the current user and the   *)
(* lookup by address (UsersService), the health routes, each through the   *)
(* middlewares that can answer in their place, as far as config.yaml has   *)
(* them installed, and the audit row that audit_logger writes once the     *)
(* answer has been sent.                                                   *)
(*                                                                         *)
(* Sessions are not stored: a client holds a token that names the account  *)
(* a login has found, and the database, where accounts come, go, are       *)
(* switched off and on, is only asked by the handler.  Two accounts may    *)
(* have spellings of one address (see Registration).  A token is named     *)
(* after the login that gave it.  The limiter counts by client address;    *)
(* here all calls come from one.                                           *)
(***************************************************************************)
EXTENDS Naturals

CONSTANTS
    Ids,         \* ids gen_random_uuid() gives to accounts
    EmailOf,     \* the address an account is registered with, as written
    PasswordOf,  \* and its password
    Canonical,   \* LOWER()
    Emails,
    Passwords,
    Requests,    \* bound: calls of the API
    Calls,       \* what clients send
    Settings,    \* the settings of config.yaml to consider
    MaxRequests, \* security.rate_limit.max_requests
    Null,
    MaxFaults    \* bound: queries that fail

Routes == {"login", "me", "find", "health", "ready"}
Protected == {"me", "find"}

ASSUME NullAssumption == Null \notin Ids \cup Requests \cup Calls
ASSUME CallsAssumption ==
    Calls \subseteq [route : Routes, email : Emails, password : Passwords, valid : BOOLEAN]
ASSUME AccountsAssumption == EmailOf \in [Ids -> Emails] /\ PasswordOf \in [Ids -> Passwords]
ASSUME SettingsAssumption ==
    /\ Settings \subseteq [rate_limit : BOOLEAN, body_parser : BOOLEAN, dependency_injection : BOOLEAN]
    /\ MaxRequests \in Nat \ {0}
ASSUME FaultsAssumption == MaxFaults \in Nat

VARIABLES
    config,   \* which middlewares are enabled
    users,    \* what has become of each row of table users
    audit,    \* the http_request rows of audit_logs
    pc,       \* how far each request is
    call,     \* what it asks for
    bearer,   \* req.user: the login whose token it has presented
    seen,     \* the row its query has returned
    status,   \* the status it is answered with, 0 before
    token,    \* the access token of each login, once the client has it
    hits,     \* calls the limiter has counted in its window
    faults,   \* queries that have failed so far
    barred,   \* history, until it is over: accounts it could not have been let
              \* into, or been shown, at any time since it came
    kept      \* history, until it is over: those it could have at all times

data == <<config, users, audit, token>>
history == <<barred, kept>>
request == <<call, bearer, seen>>
vars == <<data, history, request, pc, status, hits, faults>>

States == {"unused", "active", "inactive", "deleted"}
Statuses == {0, 200, 400, 401, 404, 429, 500, 503}

Exists(i) == users[i] \in {"active", "inactive"}

HasAddress(i, email) == Canonical[EmailOf[i]] = Canonical[email]

Row == [id : Ids \cup {Null}, active : BOOLEAN]
NoRow == [id |-> Null, active |-> FALSE]

Init ==
    /\ config \in Settings
    /\ users = [i \in Ids |-> "unused"]
    /\ audit = {}
    /\ pc = [r \in Requests |-> "idle"]
    /\ call = [r \in Requests |-> Null]
    /\ bearer = [r \in Requests |-> Null]
    /\ seen = [r \in Requests |-> NoRow]
    /\ status = [r \in Requests |-> 0]
    /\ token = [r \in Requests |-> "none"]
    /\ hits = 0
    /\ faults = 0
    /\ barred = [r \in Requests |-> {}]
    /\ kept = [r \in Requests |-> {}]

-----------------------------------------------------------------------------
(* The table of accounts.                                                  *)

\* register() commits (Registration); only the index guards the address.
Create(i) ==
    /\ users[i] = "unused"
    /\ \A j \in Ids : Exists(j) => EmailOf[j] # EmailOf[i]
    /\ users' = [users EXCEPT ![i] = "active"]
    /\ barred' = [r \in Requests |-> barred[r] \ {i}]
    /\ UNCHANGED <<config, audit, token, kept, request, pc, status, hits, faults>>

IsLogin(r) == call[r] # Null /\ call[r].route = "login"

\* UsersRepository.update with isActive FALSE and TRUE.
Disable(i) ==
    /\ users[i] = "active"
    /\ users' = [users EXCEPT ![i] = "inactive"]
    /\ kept' = [r \in Requests |-> IF IsLogin(r) THEN kept[r] \ {i} ELSE kept[r]]
    /\ UNCHANGED <<config, audit, token, barred, request, pc, status, hits, faults>>

Enable(i) ==
    /\ users[i] = "inactive"
    /\ users' = [users EXCEPT ![i] = "active"]
    /\ barred' = [r \in Requests |-> barred[r] \ {i}]
    /\ UNCHANGED <<config, audit, token, kept, request, pc, status, hits, faults>>

\* The mistake of a foreign key without ON DELETE SET NULL.
Delete_KeepsActor(i) ==
    /\ Exists(i)
    /\ users' = [users EXCEPT ![i] = "deleted"]
    /\ kept' = [r \in Requests |-> kept[r] \ {i}]
    /\ UNCHANGED <<config, audit, token, barred, request, pc, status, hits, faults>>

\* DELETE FROM users, with ON DELETE SET NULL for the rows of audit_logs.
Delete(i) ==
    /\ Exists(i)
    /\ users' = [users EXCEPT ![i] = "deleted"]
    /\ audit' = {[row EXCEPT !.actor = IF @ = i THEN Null ELSE @] : row \in audit}
    /\ kept' = [r \in Requests |-> kept[r] \ {i}]
    /\ UNCHANGED <<config, token, barred, request, pc, status, hits, faults>>

-----------------------------------------------------------------------------
(* A request: what happens before its handler sends a query.               *)

\* 24 hours later.
Expire(l) ==
    /\ token[l] = "live"
    /\ token' = [token EXCEPT ![l] = "expired"]
    /\ UNCHANGED <<config, users, audit, history, request, pc, status, hits, faults>>

\* The mistake of verifying a token with ignoreExpiration.
Verify_Expired(l) == IF l \in Requests /\ token[l] # "none" THEN l ELSE Null

\* verifyAccessToken: anything but a valid token is nobody.
Verify(l) == IF l \in Requests /\ token[l] = "live" THEN l ELSE Null

\* The answer of authenticate and of validate, in the order of the routes; 0
\* when the request passes.
Refusal(c, user) ==
    CASE c.route \in Protected /\ user = Null -> 401
      [] c.route \in {"login", "find"} /\ ~c.valid -> 400
      [] c.route = "login" /\ ~config.body_parser -> 400
      [] OTHER -> 0

\* Could the answer to call c be about account i just now?
Offers(c, i) == Exists(i) /\ (c.route = "login" => users[i] = "active")

Enter(r, c, user, answer) ==
    /\ pc[r] = "idle"
    /\ call' = [call EXCEPT ![r] = c]
    /\ bearer' = [bearer EXCEPT ![r] = user]
    /\ status' = [status EXCEPT ![r] = answer]
    /\ pc' = [pc EXCEPT ![r] = IF answer = 0 THEN "query" ELSE "sent"]
    /\ LET asked == IF answer = 0 /\ c.route \in {"login", "me", "find"} THEN Ids ELSE {} IN
          /\ barred' = [barred EXCEPT ![r] = {i \in asked : ~Offers(c, i)}]
          /\ kept' = [kept EXCEPT ![r] = {i \in asked : Offers(c, i)}]
    /\ UNCHANGED <<data, seen, faults>>

\* A body the parser refuses, on any route and before authenticate.  400 stands
\* for 413 and 415, too.  The limiter comes later and does not count it.
Malformed(r, c) ==
    /\ config.body_parser
    /\ Enter(r, c, Null, 400)
    /\ UNCHANGED hits

Overrun == config.rate_limit /\ hits >= MaxRequests

\* A request with the token of login l, or with none or a forged one.
Arrive(r, c, l) ==
    /\ ~Overrun
    /\ hits' = IF config.rate_limit THEN hits + 1 ELSE hits
    /\ l # Null => c.route \in Protected /\ token[l] # "none"
    /\ Enter(r, c, Verify(l), Refusal(c, Verify(l)))

\* express-rate-limit answers before anything has looked at the token.
Limit(r, c) ==
    /\ Overrun
    /\ Enter(r, c, Null, 429)
    /\ UNCHANGED hits

\* window_ms later.
NewWindow ==
    /\ hits > 0
    /\ hits' = 0
    /\ UNCHANGED <<data, history, request, pc, status, faults>>

-----------------------------------------------------------------------------
(* The handler.                                                            *)

Actor(r) == seen[bearer[r]].id

\* The mistake of a lookup of the current user by the address in the token.
Found_ByAddress(r) ==
    CASE call[r].route \in {"login", "find"} -> {i \in Ids : Exists(i) /\ HasAddress(i, call[r].email)}
      [] call[r].route = "me" -> {i \in Ids : Exists(i) /\ HasAddress(i, EmailOf[Actor(r)])}
      [] OTHER -> {}

\* The mistake of a comparison that does not ignore case.
Wanted_ExactSpelling(r, i) ==
    CASE call[r].route \in {"login", "find"} -> EmailOf[i] = call[r].email
      [] call[r].route = "me" -> i = Actor(r)
      [] OTHER -> FALSE

\* The WHERE clause of the request's query.
Wanted(r, i) ==
    CASE call[r].route \in {"login", "find"} -> HasAddress(i, call[r].email)
      [] call[r].route = "me" -> i = Actor(r)
      [] OTHER -> FALSE

\* The rows it may return; LIMIT 1 picks one of them.
Found(r) == {i \in Ids : Exists(i) /\ Wanted(r, i)}

Returned(r) ==
    IF Found(r) = {} THEN {NoRow}
    ELSE {[id |-> i, active |-> users[i] = "active"] : i \in Found(r)}

\* PostgreSQL runs the query.
Read(r) ==
    /\ pc[r] = "query"
    /\ \E row \in Returned(r) : seen' = [seen EXCEPT ![r] = row]
    /\ pc' = [pc EXCEPT ![r] = "reply"]
    /\ UNCHANGED <<data, history, call, bearer, status, hits, faults>>

\* The query is rejected: no connection, no client of the pool in time.
ReadFails(r) ==
    /\ pc[r] = "query"
    /\ faults < MaxFaults
    /\ faults' = faults + 1
    /\ pc' = [pc EXCEPT ![r] = "failed"]
    /\ UNCHANGED <<data, history, request, status, hits>>

\* The mistakes of a login that forgets the password or the flag.
LoginStatus_AnyPassword(r) == IF seen[r].id # Null /\ seen[r].active THEN 200 ELSE 401

LoginStatus_Inactive(r) ==
    IF seen[r].id # Null /\ PasswordOf[seen[r].id] = call[r].password THEN 200 ELSE 401

\* compareHashedPassword, of the password sent and the one registered.
PasswordOk(r) == PasswordOf[seen[r].id] = call[r].password

\* AuthService.login: the row, the flag, the password.
LoginStatus(r) ==
    IF seen[r].id # Null /\ seen[r].active /\ PasswordOk(r) THEN 200 ELSE 401

\* The health routes catch the error of their query.
HealthStatus(r) == IF pc[r] = "failed" /\ call[r].route = "ready" THEN 503 ELSE 200

\* getCurrentUser and getUserByEmail.
UserStatus(r) == IF seen[r].id = Null THEN 404 ELSE 200

Outcome(r) ==
    CASE call[r].route \in {"health", "ready"} -> HealthStatus(r)
      [] call[r].route \in {"login", "me", "find"} /\ pc[r] = "failed" -> 500
      [] call[r].route = "login" /\ pc[r] # "failed" -> LoginStatus(r)
      [] call[r].route \in {"me", "find"} /\ pc[r] # "failed" -> UserStatus(r)

\* The mistake of an asyncHandler without its catch.
Reply_Uncaught(r) ==
    /\ pc[r] = "reply"
    /\ status' = [status EXCEPT ![r] = Outcome(r)]
    /\ pc' = [pc EXCEPT ![r] = "sent"]
    /\ UNCHANGED <<data, history, request, hits, faults>>

\* The result comes back and the handler sends its answer.
Reply(r) ==
    /\ pc[r] \in {"reply", "failed"}
    /\ status' = [status EXCEPT ![r] = Outcome(r)]
    /\ pc' = [pc EXCEPT ![r] = "sent"]
    /\ UNCHANGED <<data, history, request, hits, faults>>

-----------------------------------------------------------------------------
(* The answer and its audit row.                                           *)

\* A request that is over has no history.
Forget(r) == barred' = [barred EXCEPT ![r] = {}] /\ kept' = [kept EXCEPT ![r] = {}]

\* The client has left before the answer is out: the response closes and never
\* finishes.
HangUp(r) ==
    /\ pc[r] = "sent"
    /\ pc' = [pc EXCEPT ![r] = "gone"]
    /\ Forget(r)
    /\ UNCHANGED <<data, request, status, hits, faults>>

\* The mistake of auditing only what succeeds.
Audited_Success(r) == bearer[r] # Null /\ status[r] = 200

Audited(r) == config.dependency_injection /\ bearer[r] # Null /\ call[r].route \notin {"health", "ready"}

\* The answer is out: the client has its token, audit_logger sends its INSERT.
Finish(r) ==
    /\ pc[r] = "sent"
    /\ pc' = [pc EXCEPT ![r] = IF Audited(r) THEN "auditing" ELSE "done"]
    /\ token' = IF call[r].route = "login" /\ status[r] = 200
                THEN [token EXCEPT ![r] = "live"] ELSE token
    /\ Forget(r)
    /\ UNCHANGED <<config, users, audit, request, status, hits, faults>>

\* The INSERT, which the foreign key refuses for an account that is gone.
WriteAudit(r) ==
    /\ pc[r] = "auditing"
    /\ IF Exists(Actor(r))
       THEN /\ audit' = audit \cup {[request |-> r, actor |-> Actor(r), status |-> status[r]]}
            /\ pc' = [pc EXCEPT ![r] = "done"]
       ELSE /\ pc' = [pc EXCEPT ![r] = "unaudited"]
            /\ UNCHANGED audit
    /\ UNCHANGED <<config, users, token, history, request, status, hits, faults>>

\* The INSERT is rejected; audit_logger only logs it.
AuditFails(r) ==
    /\ pc[r] = "auditing"
    /\ faults < MaxFaults
    /\ faults' = faults + 1
    /\ pc' = [pc EXCEPT ![r] = "unaudited"]
    /\ UNCHANGED <<data, history, request, status, hits>>

Handle(r) == Read(r) \/ Reply(r) \/ Finish(r) \/ WriteAudit(r)

\* Clients may stop calling.
AtRest ==
    /\ \A r \in Requests : pc[r] \in {"done", "unaudited", "gone"}
    /\ UNCHANGED vars

Next ==
    \/ \E i \in Ids : Create(i) \/ Disable(i) \/ Enable(i) \/ Delete(i)
    \/ \E r \in Requests, c \in Calls :
           Malformed(r, c) \/ Limit(r, c) \/ \E l \in Requests \cup {Null} : Arrive(r, c, l)
    \/ \E r \in Requests : Expire(r) \/ ReadFails(r) \/ HangUp(r) \/ AuditFails(r) \/ Handle(r)
    \/ NewWindow
    \/ AtRest

Spec == Init /\ [][Next]_vars

\* The event loop, the database and the network go on; clients, operators and
\* clocks need not.
FairSpec == Spec /\ \A r \in Requests : WF_vars(Handle(r))

-----------------------------------------------------------------------------
(* Correctness.                                                            *)

\* Every variable keeps its type (rows of users and audit_logs, requests).
TypeOK ==
    /\ config \in Settings
    /\ users \in [Ids -> States]
    /\ audit \subseteq [request : Requests, actor : Ids \cup {Null}, status : Statuses]
    /\ pc \in [Requests -> {"idle", "query", "reply", "failed", "sent", "auditing", "unaudited", "done", "gone"}]
    /\ call \in [Requests -> Calls \cup {Null}]
    /\ bearer \in [Requests -> Requests \cup {Null}]
    /\ seen \in [Requests -> Row]
    /\ status \in [Requests -> Statuses]
    /\ token \in [Requests -> {"none", "live", "expired"}]
    /\ hits \in 0..MaxRequests
    /\ faults \in 0..MaxFaults
    /\ barred \in [Requests -> SUBSET Ids]
    /\ kept \in [Requests -> SUBSET Ids]

\* The account that login r was let into: AuthService.login found it and its
\* password was the one presented.
LetInto(r, i) ==
    /\ call[r] # Null
    /\ call[r].route = "login"
    /\ seen[r].id = i
    /\ PasswordOf[i] = call[r].password
    /\ HasAddress(i, call[r].email)

\* The current user is the account whose address and password opened the
\* session, even if the address has meanwhile got a new account
\* (AuthService.getCurrentUser, authenticate).
SessionShowsOwner ==
    \A r \in Requests :
        (call[r] # Null /\ call[r].route = "me" /\ status[r] = 200)
            => bearer[r] \in Requests /\ seen[r].id \in Ids /\ LetInto(bearer[r], seen[r].id)

\* Whatever tokens are around, no answer shows an account that has been gone
\* ever since the request came, and no login is let into one that has been
\* inactive ever since it came (AuthService.login, findById).
AnswersAreCurrent ==
    \A r \in Requests : (status[r] = 200 /\ seen[r].id # Null) => seen[r].id \notin barred[r]

\* The account that login r asks for with the right password.
Matches(r, i) == HasAddress(i, call[r].email) /\ PasswordOf[i] = call[r].password

\* Nor is an account missed that was there (for a login: and active) all the
\* time from the request on.  Only another spelling of its address, which the
\* lookup may return instead, can keep its owner out (findByEmail, LIMIT 1).
PresentIsFound ==
    \A r \in Requests : call[r] # Null => \A i \in kept[r] :
        /\ (call[r].route = "login" /\ status[r] = 401 /\ Matches(r, i)) =>
              seen[r].id \in Ids \ {i} /\ HasAddress(seen[r].id, call[r].email)
        /\ status[r] = 404 =>
              /\ call[r].route = "find" => ~HasAddress(i, call[r].email)
              /\ call[r].route = "me" /\ bearer[r] # Null => i # Actor(r)

\* A row of audit_logs tells who had presented the token, unless the account
\* is gone, and how the request was answered; a request has one row at most
\* (audit_logger, ON DELETE SET NULL).
AuditNamesBearer ==
    \A row \in audit :
        /\ bearer[row.request] # Null
        /\ row.status = status[row.request] /\ row.status # 0
        /\ row.actor = IF Exists(Actor(row.request)) THEN Actor(row.request) ELSE Null
        /\ \A other \in audit : other.request = row.request => other = row

\* Every request that has come is answered or its client has left.
EveryCallAnswered ==
    \A r \in Requests :
        pc[r] # "idle" ~> pc[r] \in {"done", "unaudited", "gone"} /\ status[r] # 0

Written(r) == \E row \in audit : row.request = r

\* With dependency injection on an authenticated request leaves its audit row,
\* unless its client left first, the INSERT failed or the account is gone
\* (audit_logger; README.md:20).
AuthenticatedIsAudited ==
    \A r \in Requests :
        config.dependency_injection /\ bearer[r] # Null ~> Written(r) \/ pc[r] \in {"gone", "unaudited"}

\* An INSERT only gets lost to a failing query or a deleted account.
LossIsExcused ==
    \A r \in Requests : pc[r] = "unaudited" => faults > 0 \/ ~Exists(Actor(r))

(* The inductive invariant.                                                *)

\* What the history leaves out has really been there.
HistoryLags ==
    \A r \in Requests : call[r] # Null => \A i \in barred[r] : ~Offers(call[r], i)

\* What it keeps has been there all the time.
HistoryKeeps ==
    \A r \in Requests : call[r] # Null => \A i \in kept[r] : Offers(call[r], i)

\* A query that has returned has missed nothing of it.
NothingMissed ==
    \A r \in Requests : pc[r] = "reply" => \A i \in kept[r] : Wanted(r, i) =>
        seen[r].id # Null /\ (IsLogin(r) /\ seen[r].id = i => seen[r].active)

\* A row that was returned existed then, and was what the query asked for.
SeenWasThere ==
    \A r \in Requests :
        LET i == seen[r].id IN
        i # Null =>
            /\ call[r] # Null
            /\ pc[r] \notin {"idle", "query", "failed"}
            /\ users[i] # "unused"
            /\ (call[r].route = "login" => seen[r].active) => i \notin barred[r]
            /\ call[r].route \in {"login", "find"} => HasAddress(i, call[r].email)
            /\ call[r].route = "me" => i = Actor(r)

\* A successful login has found an active row and its password.
LoginWasEarned ==
    \A r \in Requests :
        (call[r] # Null /\ call[r].route = "login" /\ status[r] = 200) =>
            seen[r].id # Null /\ seen[r].active /\ LetInto(r, seen[r].id)

\* A token comes from a login that has been answered; req.user from a token.
TokensAreEarned ==
    \A r \in Requests :
        /\ token[r] # "none" =>
              call[r] # Null /\ call[r].route = "login" /\ status[r] = 200 /\ pc[r] = "done"
        /\ bearer[r] # Null => token[bearer[r]] # "none" /\ call[r] # Null /\ call[r].route \in Protected
        /\ (call[r] # Null /\ call[r].route \in Protected /\ status[r] \in {0, 200}) => bearer[r] # Null

\* A request has its answer when it has got past its handler.
AnsweredWhenSent ==
    \A r \in Requests :
        /\ status[r] = 0 <=> pc[r] \in {"idle", "query", "reply", "failed"}
        /\ pc[r] = "idle" <=> call[r] = Null
        /\ pc[r] \in {"auditing", "unaudited"} => bearer[r] # Null
        /\ Written(r) => pc[r] = "done"

SessionInv ==
    /\ TypeOK
    /\ HistoryLags /\ SeenWasThere /\ LoginWasEarned /\ TokensAreEarned /\ AnsweredWhenSent
    /\ SessionShowsOwner /\ AnswersAreCurrent /\ AuditNamesBearer /\ LossIsExcused

LookupInv == HistoryKeeps /\ NothingMissed /\ PresentIsFound

ApiInv == SessionInv /\ LookupInv

(* Refinement.                                                             *)

\* What the handler will answer is settled once its query has returned.
Settled(r) ==
    LET answer == IF status[r] = 0 THEN Outcome(r) ELSE status[r] IN
    IF pc[r] \in {"idle", "query"} THEN [status |-> 0, account |-> Null]
    ELSE [status |-> answer, account |-> IF answer = 200 THEN seen[r].id ELSE Null]

Outcomes == [r \in Requests |-> Settled(r)]

\* The account that the token of a login names, and the tokens still accepted.
SessionOf == [l \in Requests |-> IF token[l] = "none" THEN Null ELSE seen[l].id]
Live == {l \in Requests : token[l] = "live"}

Directory == INSTANCE Sessions WITH session <- SessionOf, live <- Live, outcome <- Outcomes

\* Stateless tokens, and a query whose result comes back after the table has
\* changed again, do what sessions kept in one place and answers decided in one
\* step would: no request is answered with rows of two moments, in the name of
\* another account, or in a session that has expired (AuthService,
\* UsersService, authenticate).
ImplementsSessions == Directory!Spec
=============================================================================
