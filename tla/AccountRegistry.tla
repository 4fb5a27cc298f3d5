-------------------------- MODULE AccountRegistry --------------------------
(***************************************************************************)
(* What POST /auth/register promises its callers, with nothing of how it   *)
(* does it: an account and its USER_CREATED audit row come into being      *)
(* together, an exact e-mail address has at most one account, a 201 is     *)
(* only ever given for an account that exists and is what announces it, a  *)
(* 409 only because of somebody else's account, and no answer is taken     *)
(* back.  An account is named by the request that created it.              *)
(*                                                                         *)
(* Registration.tla is the program; it implements this specification.      *)
(***************************************************************************)
CONSTANTS
    Requests,    \* the POST /auth/register requests
    Emails,      \* e-mail addresses as they are written
    EmailOf,     \* the address in the body of each request
    Canonical    \* LOWER(): the address every spelling is compared by

VARIABLES
    accounts,    \* requests whose users row is committed
    audit,       \* requests whose USER_CREATED audit row is committed
    answer,      \* what each caller was told
    announced    \* requests whose "auth.user.registered" event was emitted

vars == <<accounts, audit, answer, announced>>

Answers == {"none", "201", "409", "500", "lost"}

SameAddress(r, s) == Canonical[EmailOf[r]] = Canonical[EmailOf[s]]

Init ==
    /\ accounts = {}
    /\ audit = {}
    /\ answer = [r \in Requests |-> "none"]
    /\ announced = {}

\* The account and its audit row appear in one step.
Create(r) ==
    /\ answer[r] = "none"
    /\ \A s \in accounts : EmailOf[s] # EmailOf[r]
    /\ accounts' = accounts \cup {r}
    /\ audit' = audit \cup {r}
    /\ UNCHANGED <<answer, announced>>

Confirm(r) ==
    /\ answer[r] = "none"
    /\ r \in accounts
    /\ answer' = [answer EXCEPT ![r] = "201"]
    /\ announced' = announced \cup {r}
    /\ UNCHANGED <<accounts, audit>>

\* Refused because of another account with the same address.
Refuse(r) ==
    /\ answer[r] = "none"
    /\ r \notin accounts
    /\ \E s \in accounts : SameAddress(r, s)
    /\ answer' = [answer EXCEPT ![r] = "409"]
    /\ UNCHANGED <<accounts, audit, announced>>

\* A 500 promises nothing: the account may exist or not.
Fail(r) ==
    /\ answer[r] = "none"
    /\ answer' = [answer EXCEPT ![r] = "500"]
    /\ UNCHANGED <<accounts, audit, announced>>

\* The process dies: some callers never hear anything.
Lose ==
    /\ \E dropped \in SUBSET {r \in Requests : answer[r] = "none"} :
          answer' = [r \in Requests |-> IF r \in dropped THEN "lost" ELSE answer[r]]
    /\ UNCHANGED <<accounts, audit, announced>>

Next ==
    \/ \E r \in Requests : Create(r) \/ Confirm(r) \/ Refuse(r) \/ Fail(r)
    \/ Lose

Spec == Init /\ [][Next]_vars
=============================================================================
