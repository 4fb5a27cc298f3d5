------------------------------ MODULE Sessions ------------------------------
(***************************************************************************)
(* What the API promises of accounts and sessions, with nothing of how it  *)
(* does it (modules/auth, modules/users): a session belongs to the account *)
(* a login was let into, and opens nothing once it has expired; every      *)
(* answer is decided by one look at the accounts, at one moment between    *)
(* the request and its answer, and nothing that happens after that moment  *)
(* changes it.                                                             *)
(*                                                                         *)
(* HttpApi.tla is the program; it implements this specification.           *)
(***************************************************************************)
CONSTANTS
    Ids, EmailOf, PasswordOf,    \* accounts, their addresses and passwords
    Canonical,                   \* LOWER()
    Requests, Calls, Null

VARIABLES
    users,      \* what has become of each account
    session,    \* the account of the session each login has opened
    live,       \* sessions that have not expired
    call,       \* what each request asks for
    bearer,     \* and the session it is made in
    outcome,    \* what has been decided about it
    status      \* what its caller has been told, 0 before

requests == <<call, bearer>>
sessions == <<session, live>>
vars == <<users, sessions, requests, outcome, status>>

Undecided == [status |-> 0, account |-> Null]

Init ==
    /\ users = [i \in Ids |-> "unused"]
    /\ session = [r \in Requests |-> Null]
    /\ live = {}
    /\ call = [r \in Requests |-> Null]
    /\ bearer = [r \in Requests |-> Null]
    /\ outcome = [r \in Requests |-> Undecided]
    /\ status = [r \in Requests |-> 0]

Exists(i) == users[i] \in {"active", "inactive"}

\* An account is created once, under an address nobody has as it is written, is
\* switched off and on, and does not come back when it has been deleted.
Change(i) ==
    /\ \/ /\ users[i] = "unused"
          /\ \A j \in Ids : Exists(j) => EmailOf[j] # EmailOf[i]
          /\ users' = [users EXCEPT ![i] = "active"]
       \/ users[i] = "active" /\ users' = [users EXCEPT ![i] = "inactive"]
       \/ users[i] = "inactive" /\ users' = [users EXCEPT ![i] = "active"]
       \/ Exists(i) /\ users' = [users EXCEPT ![i] = "deleted"]
    /\ UNCHANGED <<sessions, requests, outcome, status>>

-----------------------------------------------------------------------------
(* Requests.                                                               *)

Come(r, c, l) ==
    /\ call[r] = Null
    /\ call' = [call EXCEPT ![r] = c]
    /\ bearer' = [bearer EXCEPT ![r] = l]

\* The current user and the lookup by address are for live sessions only.
Ask(r, c, l) ==
    /\ l = Null <=> c.route \notin {"me", "find"}
    /\ l \in live \cup {Null}
    /\ Come(r, c, l)
    /\ UNCHANGED <<users, sessions, outcome, status>>

\* Too much, malformed, or without a session.
Reject(r, c, l, answer) ==
    /\ l \in live \cup {Null}
    /\ Come(r, c, l)
    /\ answer = 401 => l = Null /\ c.route \in {"me", "find"}
    /\ status' = [status EXCEPT ![r] = answer]
    /\ outcome' = [outcome EXCEPT ![r] = [status |-> answer, account |-> Null]]
    /\ UNCHANGED <<users, sessions>>

\* A request to one of these routes about which nothing has been decided.
Waits(r, routes) == call[r] # Null /\ outcome[r] = Undecided /\ call[r].route \in routes

Decide(r, answer, account) ==
    /\ outcome' = [outcome EXCEPT ![r] = [status |-> answer, account |-> account]]
    /\ UNCHANGED <<users, sessions, requests, status>>

\* The account is there, and the one that request r is about.
Meant(r, i) ==
    /\ Exists(i)
    /\ IF call[r].route = "me" THEN i = session[bearer[r]]
       ELSE Canonical[EmailOf[i]] = Canonical[call[r].email]

MayEnter(r, i) == users[i] = "active" /\ PasswordOf[i] = call[r].password

LetIn(r, i) == Waits(r, {"login"}) /\ Meant(r, i) /\ MayEnter(r, i) /\ Decide(r, 200, i)

\* Addresses with two spellings may have two accounts: either may be looked at.
TurnDown(r) ==
    /\ Waits(r, {"login"})
    /\ (\E i \in Ids : Meant(r, i)) => \E i \in Ids : Meant(r, i) /\ ~MayEnter(r, i)
    /\ Decide(r, 401, Null)

Show(r, i) == Waits(r, {"me", "find"}) /\ Meant(r, i) /\ Decide(r, 200, i)

Miss(r) == Waits(r, {"me", "find"}) /\ (\A i \in Ids : ~Meant(r, i)) /\ Decide(r, 404, Null)

\* A query fails.
Fail(r) == Waits(r, {"login", "me", "find"}) /\ Decide(r, 500, Null)

Report(r) ==
    \/ Waits(r, {"health", "ready"}) /\ Decide(r, 200, Null)
    \/ Waits(r, {"ready"}) /\ Decide(r, 503, Null)

Answer(r) ==
    /\ status[r] = 0 /\ outcome[r] # Undecided
    /\ status' = [status EXCEPT ![r] = outcome[r].status]
    /\ UNCHANGED <<users, sessions, requests, outcome>>

-----------------------------------------------------------------------------
(* Sessions.                                                               *)

\* A login that was answered opens a session, once, for the account it was let
\* into.
Open(r) ==
    /\ status[r] = 200 /\ call[r].route = "login"
    /\ session[r] = Null
    /\ session' = [session EXCEPT ![r] = outcome[r].account]
    /\ live' = live \cup {r}
    /\ UNCHANGED <<users, requests, outcome, status>>

Expire(r) ==
    /\ r \in live
    /\ live' = live \ {r}
    /\ UNCHANGED <<users, session, requests, outcome, status>>

Next ==
    \/ \E i \in Ids : Change(i)
    \/ \E r \in Requests, c \in Calls, l \in Requests \cup {Null} :
          Ask(r, c, l) \/ \E answer \in {400, 401, 429} : Reject(r, c, l, answer)
    \/ \E r \in Requests, i \in Ids : LetIn(r, i) \/ Show(r, i)
    \/ \E r \in Requests :
          TurnDown(r) \/ Miss(r) \/ Fail(r) \/ Report(r) \/ Answer(r) \/ Open(r) \/ Expire(r)

Spec == Init /\ [][Next]_vars
=============================================================================
