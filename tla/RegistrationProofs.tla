------------------------- MODULE RegistrationProofs -------------------------
(***************************************************************************)
(* Theorems about Registration, for any requests, addresses, pool and      *)
(* bounds.                                                                 *)
(***************************************************************************)
EXTENDS Registration, FiniteSetTheorems, TLAPS

USE DEF Controls, WaitsForClient, InStatement

LEMMA InitInv == Init => Inv
<1> SUFFICES ASSUME Init PROVE Inv
    OBVIOUS
<1> USE DEF Init
<1>1. TypeOK
    <2>1. pc \in [Requests -> Controls] /\ owner \in [Clients -> Requests \cup {Nobody}]
        OBVIOUS
    <2>2. faults \in 0..MaxFaults /\ crashes \in 0..MaxCrashes
        BY BoundsAssumption
    <2> QED
        BY <2>1, <2>2 DEF TypeOK
<1>2. AuditMatchesUsers /\ ErrorsHaveCauses /\ UniqueRows
    BY DEF AuditMatchesUsers, ErrorsHaveCauses, UniqueRows
<1>3. RowsByStage
    BY DEF RowsByStage
<1>4. ClientsByStage
    BY NobodyAssumption DEF ClientsByStage, Owned
<1> QED
    BY <1>1, <1>2, <1>3, <1>4 DEF Inv

LEMMA TypeStep == TypeOK /\ [Next]_vars => TypeOK'
<1> SUFFICES ASSUME TypeOK, [Next]_vars PROVE TypeOK'
    OBVIOUS
<1> USE BoundsAssumption DEF TypeOK, CheckOut, Release, Owned, Free, Goto, Reply, Fault, vars, db, bounds
<1>1. ASSUME NEW r \in Requests, Receive(r) PROVE TypeOK'
    BY <1>1 DEF Receive
<1>2. ASSUME NEW r \in Requests, Lookup(r) PROVE TypeOK'
    BY <1>2 DEF Lookup, FindCheckOut, FindMatches, FindNothing
<1>3. ASSUME NEW r \in Requests, Connect(r) PROVE TypeOK'
    BY <1>3 DEF Connect, ConnectCheckOut, ProbeCheckOut, ProbeReturns
<1>4. ASSUME NEW r \in Requests, Transaction(r) PROVE TypeOK'
    BY <1>4 DEF Transaction, Begin, InsertUser, InsertViolatesUnique, InsertAudit, Commit,
                Rollback, Created
<1>5. ASSUME NEW r \in Requests, CheckOutTimesOut(r) PROVE TypeOK'
    BY <1>5 DEF CheckOutTimesOut
<1>6. ASSUME NEW r \in Requests, GoesWrong(r) PROVE TypeOK'
    BY <1>6 DEF GoesWrong, FindFails, ProbeFails, CheckOutFails, StatementFails
<1>7. ASSUME Crash PROVE TypeOK'
    <2> USE <1>7 DEF Crash
    <2>1. pc' \in [Requests -> Controls] /\ answer' \in [Requests -> {"none", "201", "409", "500", "lost"}]
        OBVIOUS
    <2>2. owner' \in [Clients -> Requests \cup {Nobody}]
        OBVIOUS
    <2>3. crashes' \in 0..MaxCrashes /\ faults' \in 0..MaxFaults
        OBVIOUS
    <2> QED
        BY <2>1, <2>2, <2>3
<1>8. CASE Finished \/ UNCHANGED vars
    BY <1>8 DEF Finished
<1> QED
    BY <1>1, <1>2, <1>3, <1>4, <1>5, <1>6, <1>7, <1>8 DEF Next, Proceed

\* Where a request is suspended keeps saying what it has written, and an
\* account keeps coming with its audit row.
LEMMA RowsStep ==
    TypeOK /\ RowsByStage /\ AuditMatchesUsers /\ [Next]_vars
        => RowsByStage' /\ AuditMatchesUsers'
<1> SUFFICES ASSUME TypeOK, RowsByStage, AuditMatchesUsers, [Next]_vars
             PROVE RowsByStage' /\ AuditMatchesUsers'
    OBVIOUS
<1> USE DEF TypeOK, RowsByStage, AuditMatchesUsers, Goto, Reply, vars, db, bounds
<1>1. ASSUME NEW r \in Requests, Receive(r) \/ Lookup(r) \/ Connect(r) \/ GoesWrong(r) \/ CheckOutTimesOut(r)
      PROVE RowsByStage' /\ AuditMatchesUsers'
    BY <1>1 DEF Receive, Lookup, FindCheckOut, FindMatches, FindNothing,
                Connect, ConnectCheckOut, ProbeCheckOut, ProbeReturns, CheckOutTimesOut,
                GoesWrong, FindFails, ProbeFails, CheckOutFails, StatementFails
<1>2. ASSUME NEW r \in Requests, Begin(r) \/ InsertViolatesUnique(r)
      PROVE RowsByStage' /\ AuditMatchesUsers'
    BY <1>2 DEF Begin, InsertViolatesUnique
<1>3. ASSUME NEW r \in Requests, InsertUser(r) PROVE RowsByStage' /\ AuditMatchesUsers'
    BY <1>3 DEF InsertUser
<1>4. ASSUME NEW r \in Requests, InsertAudit(r) PROVE RowsByStage' /\ AuditMatchesUsers'
    BY <1>4 DEF InsertAudit
<1>5. ASSUME NEW r \in Requests, Commit(r) PROVE RowsByStage' /\ AuditMatchesUsers'
    BY <1>5 DEF Commit
<1>6. ASSUME NEW r \in Requests, Rollback(r) PROVE RowsByStage' /\ AuditMatchesUsers'
    BY <1>6 DEF Rollback
<1>7. ASSUME NEW r \in Requests, Created(r) PROVE RowsByStage' /\ AuditMatchesUsers'
    BY <1>7 DEF Created
<1>8. ASSUME Crash PROVE RowsByStage' /\ AuditMatchesUsers'
    BY <1>8 DEF Crash
<1>9. CASE Finished \/ UNCHANGED vars
    BY <1>9 DEF Finished
<1> QED
    BY <1>1, <1>2, <1>3, <1>4, <1>5, <1>6, <1>7, <1>8, <1>9 DEF Next, Proceed, Transaction

\* Committed and open rows together keep respecting users.email UNIQUE.
LEMMA UniqueStep ==
    TypeOK /\ RowsByStage /\ UniqueRows /\ [Next]_vars => UniqueRows'
<1> SUFFICES ASSUME TypeOK, RowsByStage, UniqueRows, [Next]_vars
             PROVE UniqueRows'
    OBVIOUS
<1> USE DEF UniqueRows, vars, db
<1>1. ASSUME NEW r \in Requests, InsertUser(r) PROVE UniqueRows'
    BY <1>1 DEF InsertUser
<1>2. ASSUME NEW r \in Requests, Commit(r) PROVE UniqueRows'
    BY <1>2 DEF Commit
<1>3. ASSUME NEW r \in Requests, Rollback(r) PROVE UniqueRows'
    BY <1>3 DEF Rollback
<1>4. ASSUME Crash PROVE UniqueRows'
    BY <1>4 DEF Crash
<1>5. CASE UNCHANGED db
    BY <1>5
<1> QED
    BY <1>1, <1>2, <1>3, <1>4, <1>5
       DEF Next, Proceed, Receive, Lookup, FindCheckOut, FindMatches, FindNothing,
           Connect, ConnectCheckOut, ProbeCheckOut, ProbeReturns, CheckOutTimesOut,
           GoesWrong, FindFails, ProbeFails, CheckOutFails, StatementFails,
           Transaction, Begin, InsertViolatesUnique, InsertAudit, Created, Finished

\* No account disappears.
LEMMA UsersGrow == TypeOK /\ [Next]_vars => users \subseteq users'
BY DEF TypeOK, vars, db, Next, Proceed, Receive, Lookup, FindCheckOut, FindMatches, FindNothing,
       Connect, ConnectCheckOut, ProbeCheckOut, ProbeReturns, CheckOutTimesOut,
       GoesWrong, FindFails, ProbeFails, CheckOutFails, StatementFails,
       Transaction, Begin, InsertUser, InsertViolatesUnique, InsertAudit, Commit, Rollback,
       Created, Crash, Finished

\* Statements only fail more often.
LEMMA FaultsGrow == TypeOK /\ [Next]_vars /\ faults > 0 => faults' > 0
BY BoundsAssumption
   DEF TypeOK, vars, bounds, Fault, Next, Proceed, Receive, Lookup, FindCheckOut, FindMatches,
       FindNothing, Connect, ConnectCheckOut, ProbeCheckOut, ProbeReturns, CheckOutTimesOut,
       GoesWrong, FindFails, ProbeFails, CheckOutFails, StatementFails, Transaction, Begin,
       InsertUser, InsertViolatesUnique, InsertAudit, Commit, Rollback, Created, Crash, Finished

\* Errors keep their causes: a 409 is given when another account is seen, a
\* rollback follows a failure or the account that has the address, and accounts
\* and failures stay.
LEMMA ErrorsStep ==
    TypeOK /\ RowsByStage /\ ErrorsHaveCauses /\ [Next]_vars => ErrorsHaveCauses'
<1> DEFINE Failed(q) == answer[q] = "500" \/ pc[q] = "rollback"
           Excused(q) == Timeouts \/ faults > 0 \/ \E s \in users \ {q} : EmailOf[s] = EmailOf[q]
<1> SUFFICES ASSUME TypeOK, RowsByStage, ErrorsHaveCauses, [Next]_vars, NEW q \in Requests
             PROVE /\ answer'[q] = "409" => \E s \in users' \ {q} : SameAddress(q, s)
                   /\ Failed(q)' => Excused(q)'
    BY DEF ErrorsHaveCauses, SameAddress
<1>1. users \subseteq users' /\ (faults > 0 => faults' > 0)
    BY UsersGrow, FaultsGrow
<1>2. ASSUME answer'[q] = "409" PROVE \E s \in users' \ {q} : SameAddress(q, s)
    <2>1. CASE answer[q] = "409"
        BY <1>1, <2>1 DEF ErrorsHaveCauses
    <2>2. CASE answer[q] # "409"
        <3>1. FindMatches(q)
            BY <1>2, <2>2 DEF TypeOK, Goto, Reply, vars, db, Next, Proceed, Receive, Lookup,
               FindCheckOut, FindMatches, FindNothing, Connect, ConnectCheckOut, ProbeCheckOut,
               ProbeReturns, CheckOutTimesOut, GoesWrong, FindFails, ProbeFails, CheckOutFails,
               StatementFails, Transaction, Begin, InsertUser, InsertViolatesUnique, InsertAudit,
               Commit, Rollback, Created, Crash, Finished
        <3>2. q \notin users
            BY <3>1 DEF FindMatches, Reply, Goto, RowsByStage
        <3> QED
            BY <1>1, <3>1, <3>2 DEF FindMatches
    <2> QED
        BY <2>1, <2>2
<1>3. ASSUME Failed(q)' PROVE Excused(q)'
    <2>1. CASE Failed(q)
        BY <1>1, <2>1 DEF ErrorsHaveCauses
    <2>2. CASE ~Failed(q)
        <3>1. \/ CheckOutTimesOut(q) \/ InsertViolatesUnique(q)
              \/ \E r \in Requests : GoesWrong(r)
            BY <1>3, <2>2 DEF TypeOK, Goto, Reply, vars, db, Next, Proceed, Receive, Lookup,
               FindCheckOut, FindMatches, FindNothing, Connect, ConnectCheckOut, ProbeCheckOut,
               ProbeReturns, CheckOutTimesOut, Transaction, Begin, InsertUser, InsertViolatesUnique,
               InsertAudit, Commit, Rollback, Created, Crash, Finished
        <3>2. CASE InsertViolatesUnique(q)
            <4>1. q \notin users
                BY <3>2 DEF InsertViolatesUnique, Goto, RowsByStage
            <4> QED
                BY <1>1, <3>2, <4>1 DEF InsertViolatesUnique
        <3>3. CASE \E r \in Requests : GoesWrong(r)
            BY <3>3 DEF GoesWrong, FindFails, ProbeFails, CheckOutFails, StatementFails, Fault, TypeOK
        <3>4. CASE CheckOutTimesOut(q)
            BY <3>4 DEF CheckOutTimesOut
        <3> QED
            BY <3>1, <3>2, <3>3, <3>4
    <2> QED
        BY <2>1, <2>2
<1> QED
    BY <1>2, <1>3

-----------------------------------------------------------------------------
(* The pool's clients.                                                     *)

\* A checkout gives the request one client more, one that was free, and
\* changes nothing for the others.
LEMMA CheckOutOwned ==
    ASSUME owner \in [Clients -> Requests \cup {Nobody}],
           NEW r \in Requests, CheckOut(r)
    PROVE  /\ \E c \in Free : Owned(r)' = Owned(r) \cup {c}
           /\ \A q \in Requests \ {r} : Owned(q)' = Owned(q)
<1>1. PICK c \in Free : owner' = [owner EXCEPT ![c] = r]
    BY DEF CheckOut
<1>2. c \in Clients /\ owner[c] = Nobody
    BY DEF Free
<1>3. Owned(r)' = Owned(r) \cup {c}
    BY <1>1, <1>2 DEF Owned
<1>4. ASSUME NEW q \in Requests \ {r} PROVE Owned(q)' = Owned(q)
    BY <1>1, <1>2, NobodyAssumption DEF Owned
<1> QED
    BY <1>3, <1>4

\* A release takes one client from the request and changes nothing for the
\* others.
LEMMA ReleaseOwned ==
    ASSUME owner \in [Clients -> Requests \cup {Nobody}],
           NEW r \in Requests, Release(r)
    PROVE  /\ \E c \in Owned(r) : Owned(r)' = Owned(r) \ {c}
           /\ \A q \in Requests \ {r} : Owned(q)' = Owned(q)
<1>1. PICK c \in Owned(r) : owner' = [owner EXCEPT ![c] = Nobody]
    BY DEF Release
<1>2. c \in Clients /\ owner[c] = r
    BY DEF Owned
<1>3. Owned(r)' = Owned(r) \ {c}
    BY <1>1, <1>2, NobodyAssumption DEF Owned
<1>4. ASSUME NEW q \in Requests \ {r} PROVE Owned(q)' = Owned(q)
    BY <1>1, <1>2, NobodyAssumption DEF Owned
<1> QED
    BY <1>3, <1>4

\* A request keeps exactly the clients its await needs.
LEMMA ClientsStep == TypeOK /\ ClientsByStage /\ [Next]_vars => ClientsByStage'
<1> SUFFICES ASSUME TypeOK, ClientsByStage, [Next]_vars PROVE ClientsByStage'
    OBVIOUS
<1>0. owner \in [Clients -> Requests \cup {Nobody}] /\ pc \in [Requests -> Controls]
    BY DEF TypeOK
<1> USE <1>0 DEF ClientsByStage, Goto, Reply
<1>1. ASSUME NEW r \in Requests, FindCheckOut(r) \/ ConnectCheckOut(r) \/ ProbeCheckOut(r)
      PROVE ClientsByStage'
    <2>1. CheckOut(r)
        BY <1>1 DEF FindCheckOut, ConnectCheckOut, ProbeCheckOut
    <2>2. PICK c \in Free : Owned(r)' = Owned(r) \cup {c}
        BY <2>1, CheckOutOwned
    <2>3. c \in Clients /\ c \notin Owned(r)
        BY <2>2, NobodyAssumption DEF Free, Owned
    <2>4. \A q \in Requests \ {r} : Owned(q)' = Owned(q) /\ pc'[q] = pc[q]
        BY <2>1, CheckOutOwned, <1>1 DEF FindCheckOut, ConnectCheckOut, ProbeCheckOut
    <2>5. CASE FindCheckOut(r) \/ ConnectCheckOut(r)
        <3>1. Owned(r)' = {c} /\ pc'[r] \in {"find", "begin", "probe_wait"}
            BY <2>2, <2>5 DEF FindCheckOut, ConnectCheckOut
        <3> QED
            BY <2>3, <2>4, <3>1
    <2>6. CASE ProbeCheckOut(r)
        <3>1. PICK d \in Clients : Owned(r) = {d}
            BY <2>6 DEF ProbeCheckOut
        <3>2. Owned(r)' = {c, d} /\ c # d /\ pc'[r] = "probe"
            BY <2>2, <2>3, <2>6, <3>1 DEF ProbeCheckOut
        <3> QED
            BY <2>3, <2>4, <3>1, <3>2
    <2> QED
        BY <1>1, <2>5, <2>6
<1>2. ASSUME NEW r \in Requests,
             \/ FindMatches(r) \/ FindNothing(r) \/ FindFails(r) \/ ProbeReturns(r)
             \/ ProbeFails(r) \/ Rollback(r) \/ Created(r)
      PROVE ClientsByStage'
    <2>1. Release(r)
        BY <1>2 DEF FindMatches, FindNothing, FindFails, ProbeReturns, ProbeFails, Rollback, Created
    <2>2. PICK c \in Owned(r) : Owned(r)' = Owned(r) \ {c}
        BY <2>1, ReleaseOwned
    <2>3. \A q \in Requests \ {r} : Owned(q)' = Owned(q) /\ pc'[q] = pc[q]
        BY <2>1, ReleaseOwned, <1>2
           DEF FindMatches, FindNothing, FindFails, ProbeReturns, ProbeFails, Rollback, Created
    <2>4. CASE FindNothing(r)
        BY <2>2, <2>3, <2>4 DEF FindNothing
    <2>5. CASE ProbeReturns(r)
        <3>1. PICK d \in Clients : Owned(r)' = {d}
            BY <2>2, <2>5 DEF ProbeReturns
        <3> QED
            BY <2>3, <2>5, <3>1 DEF ProbeReturns
    <2>6. CASE pc'[r] = "done"
        BY <2>3, <2>6
    <2> QED
        BY <1>2, <2>4, <2>5, <2>6
           DEF FindMatches, FindFails, ProbeFails, Rollback, Created
<1>3. ASSUME NEW r \in Requests,
             \/ Receive(r) \/ Begin(r) \/ InsertUser(r) \/ InsertViolatesUnique(r)
             \/ InsertAudit(r) \/ Commit(r) \/ StatementFails(r)
             \/ CheckOutTimesOut(r) \/ CheckOutFails(r)
      PROVE ClientsByStage'
    <2>1. \A q \in Requests : Owned(q)' = Owned(q)
        BY <1>3 DEF Owned, Receive, Begin, InsertUser, InsertViolatesUnique, InsertAudit, Commit,
                    StatementFails, CheckOutTimesOut, CheckOutFails, db
    <2>2. CASE Receive(r)
        BY <2>1, <2>2 DEF Receive
    <2>3. CASE \/ Begin(r) \/ InsertUser(r) \/ InsertViolatesUnique(r)
               \/ InsertAudit(r) \/ Commit(r) \/ StatementFails(r)
        BY <2>1, <2>3 DEF Begin, InsertUser, InsertViolatesUnique, InsertAudit, Commit, StatementFails
    <2>4. CASE CheckOutTimesOut(r) \/ CheckOutFails(r)
        BY <2>1, <2>4 DEF CheckOutTimesOut, CheckOutFails
    <2> QED
        BY <1>3, <2>2, <2>3, <2>4
<1>4. ASSUME Crash PROVE ClientsByStage'
    <2>1. \A q \in Requests : Owned(q)' = {}
        BY <1>4, NobodyAssumption DEF Crash, Owned
    <2>2. \A q \in Requests : pc'[q] \in {"idle", "done"}
        BY <1>4 DEF Crash
    <2> QED
        BY <2>1, <2>2
<1>5. CASE UNCHANGED vars
    BY <1>5 DEF vars, Owned
<1> QED
    BY <1>1, <1>2, <1>3, <1>4, <1>5
       DEF Next, Proceed, GoesWrong, Lookup, Connect, Transaction, Finished

-----------------------------------------------------------------------------
(* Theorems.                                                               *)

\* Inv is an invariant of register(), whatever the requests and the pool.
THEOREM Invariance == Spec => []Inv
<1>1. Inv /\ [Next]_vars => Inv'
    BY TypeStep, RowsStep, UniqueStep, ErrorsStep, ClientsStep DEF Inv
<1> QED
    BY InitInv, <1>1, PTL DEF Spec

\* Every variable keeps its type.
THEOREM TypeCorrect == Spec => []TypeOK
BY Invariance, PTL DEF Inv

\* Two accounts never have the same e-mail address as it is written.
THEOREM EmailsAreUnique == Spec => []UniqueEmail
<1>1. Inv => UniqueEmail
    BY DEF Inv, UniqueRows, UniqueEmail
<1> QED
    BY Invariance, <1>1, PTL

\* An account exists exactly when its audit row does.
THEOREM AccountsAreAudited == Spec => []AuditMatchesUsers
BY Invariance, PTL DEF Inv

\* A 409 is only given, and a transaction only rolled back, for a cause.
THEOREM ErrorsAreExcused == Spec => []ErrorsHaveCauses
BY Invariance, PTL DEF Inv

\* Where every client writes addresses in the form they are compared in, the
\* UNIQUE index does what the lookup is there for.
THEOREM CanonicalAddressesAreUnique ==
    (\A r \in Requests : Canonical[EmailOf[r]] = EmailOf[r]) => (Spec => []OneAccountPerAddress)
<1> SUFFICES ASSUME \A r \in Requests : Canonical[EmailOf[r]] = EmailOf[r]
             PROVE Spec => []OneAccountPerAddress
    OBVIOUS
<1>1. Inv => OneAccountPerAddress
    BY DEF Inv, TypeOK, UniqueRows, OneAccountPerAddress, SameAddress
<1> QED
    BY Invariance, <1>1, PTL

\* A client never goes back to the pool with a transaction open on it.
THEOREM PoolHoldsNoTransaction == Spec => []OpenTransactionHasClient
<1>1. Inv => OpenTransactionHasClient
    BY DEF Inv, TypeOK, RowsByStage, ClientsByStage, OpenTransactionHasClient
<1> QED
    BY Invariance, <1>1, PTL

\* Once the provider is connected and no first connect is under way, the pool
\* loses no client.
THEOREM WarmPoolIsSafe == Spec => WarmPoolLosesNoClient
<1> DEFINE Warm == connected /\ \A r \in Requests : pc[r] \notin {"probe_wait", "probe"}
<1>1. ASSUME Inv, [Next]_vars, Warm, NEW c \in Leaked' PROVE c \in Leaked
    <2>1. TypeOK /\ ClientsByStage
        BY <1>1 DEF Inv
    <2>2. c \in Clients /\ owner'[c] # Nobody /\ pc'[owner'[c]] = "done"
        BY <1>1 DEF Leaked
    <2>11. TypeOK'
        BY <1>1, <2>1, TypeStep
    <2>12. PICK q \in Requests : owner'[c] = q
        BY <2>2, <2>11 DEF TypeOK
    <2>3. c \in Owned(q)' /\ pc'[q] = "done"
        BY <2>2, <2>12 DEF Owned
    <2>4. CASE \E r \in Requests : FindCheckOut(r) \/ ConnectCheckOut(r) \/ ProbeCheckOut(r)
        <3>1. PICK r \in Requests : FindCheckOut(r) \/ ConnectCheckOut(r) \/ ProbeCheckOut(r)
            BY <2>4
        <3>2. CheckOut(r) /\ pc'[r] # "done" /\ pc' = [pc EXCEPT ![r] = pc'[r]]
            BY <2>1, <3>1 DEF FindCheckOut, ConnectCheckOut, ProbeCheckOut, Goto, TypeOK
        <3>3. q # r /\ pc[q] = "done"
            BY <2>1, <2>3, <3>2 DEF TypeOK
        <3>4. c \in Owned(q)
            BY <2>1, <2>3, <3>2, <3>3, CheckOutOwned DEF TypeOK
        <3> QED
            BY <2>3, <3>3, <3>4, NobodyAssumption DEF Leaked, Owned
    <2>5. CASE \E r \in Requests :
                 \/ FindMatches(r) \/ FindNothing(r) \/ FindFails(r) \/ ProbeReturns(r)
                 \/ ProbeFails(r) \/ Rollback(r) \/ Created(r)
        <3>1. PICK r \in Requests :
                 \/ FindMatches(r) \/ FindNothing(r) \/ FindFails(r) \/ ProbeReturns(r)
                 \/ ProbeFails(r) \/ Rollback(r) \/ Created(r)
            BY <2>5
        <3>2. /\ Release(r)
              /\ pc' = [pc EXCEPT ![r] = pc'[r]]
              /\ pc[r] \in {"find", "committed", "rollback"}
            BY <1>1, <2>1, <3>1
               DEF FindMatches, FindNothing, FindFails, ProbeReturns, ProbeFails, Rollback, Created,
                   Goto, Reply, TypeOK
        <3>3. Owned(r)' = {}
            <4>1. PICK d \in Clients : Owned(r) = {d}
                BY <2>1, <3>2 DEF ClientsByStage
            <4> QED
                BY <2>1, <3>2, <4>1, ReleaseOwned DEF TypeOK
        <3>4. q # r /\ pc[q] = "done"
            BY <2>1, <2>3, <3>2, <3>3 DEF TypeOK
        <3>5. c \in Owned(q)
            BY <2>1, <2>3, <3>2, <3>4, ReleaseOwned DEF TypeOK
        <3> QED
            BY <2>3, <3>4, <3>5, NobodyAssumption DEF Leaked, Owned
    <2>6. CASE \E r \in Requests : CheckOutTimesOut(r) \/ CheckOutFails(r)
        <3>1. PICK r \in Requests : CheckOutTimesOut(r) \/ CheckOutFails(r)
            BY <2>6
        <3>2. /\ owner' = owner
              /\ pc' = [pc EXCEPT ![r] = "done"]
              /\ pc[r] \in {"find_wait", "connect_wait"}
            BY <1>1, <3>1 DEF CheckOutTimesOut, CheckOutFails, Reply, Goto, WaitsForClient
        <3>3. Owned(r) = {}
            BY <2>1, <3>2 DEF ClientsByStage
        <3>4. c \in Owned(q)
            BY <2>3, <3>2 DEF Owned
        <3>5. pc[q] = "done"
            BY <2>1, <2>3, <3>2, <3>3, <3>4 DEF TypeOK
        <3> QED
            BY <2>3, <3>4, <3>5, NobodyAssumption DEF Leaked, Owned
    <2>7. CASE Crash
        BY <2>2, <2>7 DEF Crash
    <2>8. CASE UNCHANGED owner /\ \A r \in Requests : pc'[r] = "done" => pc[r] = "done"
        BY <2>2, <2>12, <2>3, <2>8 DEF Leaked
    <2>9. CASE \E r \in Requests :
                 \/ Receive(r) \/ Begin(r) \/ InsertUser(r) \/ InsertViolatesUnique(r)
                 \/ InsertAudit(r) \/ Commit(r) \/ StatementFails(r)
        <3>1. UNCHANGED owner /\ \A r \in Requests : pc'[r] = "done" => pc[r] = "done"
            BY <2>1, <2>9 DEF Receive, Begin, InsertUser, InsertViolatesUnique, InsertAudit, Commit,
                    StatementFails, Goto, TypeOK
        <3> QED
            BY <2>8, <3>1
    <2>10. CASE UNCHANGED vars
        BY <2>8, <2>10 DEF vars
    <2> QED
        BY <1>1, <2>4, <2>5, <2>6, <2>7, <2>9, <2>10
           DEF Next, Proceed, GoesWrong, Lookup, Connect, Transaction, Finished
<1>2. Inv /\ [Next]_vars => [Warm => Leaked' \subseteq Leaked]_vars
    BY <1>1
<1> QED
    BY Invariance, <1>2, PTL DEF Spec, WarmPoolLosesNoClient

\* As long as no checkout fails or times out, register() loses no client at
\* all: each answer releases the one client its request has.
THEOREM NothingFailsNothingLeaks == Spec => []OnlyFailuresLeak
<1> DEFINE Clean == \A q \in Requests : pc[q] = "done" => Owned(q) = {}
           NoneLost == ~Timeouts /\ faults = 0 => Clean
<1>1. Init => NoneLost
    BY DEF Init
<1>2. ASSUME Inv, NoneLost, [Next]_vars, ~Timeouts, faults' = 0 PROVE Clean'
    <2>0. faults \in Nat /\ faults' \in {faults, faults + 1}
        <3>1. faults \in Nat
            BY <1>2, BoundsAssumption DEF Inv, TypeOK
        <3>2. (\E r \in Requests : GoesWrong(r)) => faults' = faults + 1
            BY DEF GoesWrong, FindFails, ProbeFails, CheckOutFails, StatementFails, Fault
        <3>3. Crash \/ UNCHANGED vars => faults' = faults
            BY DEF Crash, vars, bounds
        <3>4. (\E r \in Requests : Receive(r) \/ Proceed(r)) => faults' = faults
            BY DEF Receive, Proceed, Lookup, Connect, Transaction, FindCheckOut, FindMatches, FindNothing,
                   ConnectCheckOut, ProbeCheckOut, ProbeReturns, CheckOutTimesOut, Begin, InsertUser,
                   InsertViolatesUnique, InsertAudit, Commit, Rollback, Created, bounds
        <3> QED
            BY <1>2, <3>1, <3>2, <3>3, <3>4 DEF Next, Finished
    <2>9. Clean
        BY <1>2, <2>0
    <2>1. /\ owner \in [Clients -> Requests \cup {Nobody}]
          /\ pc \in [Requests -> Controls]
          /\ ClientsByStage
        BY <1>2 DEF Inv, TypeOK
    <2>2. ~Fault
        BY <1>2, <2>0 DEF Fault
    <2>3. ASSUME NEW r \in Requests, FindMatches(r) \/ Rollback(r) \/ Created(r) PROVE Clean'
        <3>1. /\ Release(r)
              /\ pc[r] \in {"find", "rollback", "committed"}
              /\ \A q \in Requests \ {r} : pc'[q] = pc[q]
            BY <2>1, <2>3 DEF FindMatches, Rollback, Created, Reply, Goto
        <3>2. PICK c \in Clients : Owned(r) = {c}
            BY <2>1, <3>1 DEF ClientsByStage
        <3>3. Owned(r)' = {} /\ \A q \in Requests \ {r} : Owned(q)' = Owned(q)
            BY <2>1, <3>1, <3>2, ReleaseOwned
        <3> QED
            BY <2>9, <3>1, <3>3
    <2>4. ASSUME NEW r \in Requests, FindNothing(r) \/ ProbeReturns(r) PROVE Clean'
        <3>1. /\ Release(r)
              /\ pc'[r] # "done"
              /\ \A q \in Requests \ {r} : pc'[q] = pc[q]
            BY <2>1, <2>4 DEF FindNothing, ProbeReturns, Goto
        <3> QED
            BY <2>9, <2>1, <3>1, ReleaseOwned
    <2>5. ASSUME NEW r \in Requests, FindCheckOut(r) \/ ConnectCheckOut(r) \/ ProbeCheckOut(r)
          PROVE Clean'
        <3>1. /\ CheckOut(r)
              /\ pc'[r] # "done"
              /\ \A q \in Requests \ {r} : pc'[q] = pc[q]
            BY <2>1, <2>5 DEF FindCheckOut, ConnectCheckOut, ProbeCheckOut, Goto
        <3> QED
            BY <2>9, <2>1, <3>1, CheckOutOwned
    <2>6. ASSUME NEW r \in Requests,
                 \/ Receive(r) \/ Begin(r) \/ InsertUser(r) \/ InsertViolatesUnique(r)
                 \/ InsertAudit(r) \/ Commit(r)
          PROVE Clean'
        <3>1. UNCHANGED owner /\ \A q \in Requests : pc'[q] = "done" => pc[q] = "done"
            BY <2>1, <2>6 DEF Receive, Begin, InsertUser, InsertViolatesUnique, InsertAudit, Commit,
                              Goto
        <3> QED
            BY <2>9, <3>1 DEF Owned
    <2>7. CASE Crash
        BY <2>7, NobodyAssumption DEF Crash, Owned
    <2>8. CASE UNCHANGED vars
        BY <2>9, <2>8 DEF vars, Owned
    <2> QED
        BY <1>2, <2>2, <2>3, <2>4, <2>5, <2>6, <2>7, <2>8
           DEF Next, Proceed, GoesWrong, Lookup, Connect, Transaction, Finished, CheckOutTimesOut,
               FindFails, ProbeFails, CheckOutFails, StatementFails
<1>3. Inv /\ NoneLost => OnlyFailuresLeak
    BY DEF OnlyFailuresLeak, ReleasedWhenAnswered, Leaked, Owned, Inv, TypeOK
<1>4. Inv /\ NoneLost /\ [Next]_vars => NoneLost'
    BY <1>2
<1> QED
    <2> HIDE DEF NoneLost
    <2> QED
        BY Invariance, <1>1, <1>3, <1>4, PTL DEF Spec

-----------------------------------------------------------------------------
(* Requests that wait for each other.                                      *)

\* When all requests wait, they wait for clients: whoever has inserted a row
\* goes on by itself.
LEMMA StuckOnClients ==
    Inv /\ Stuck => Free = {} /\ \A r \in UnderWay : pc[r] \in WaitsForClient
<1> SUFFICES ASSUME Inv, Stuck, NEW r \in UnderWay
             PROVE pc[r] \in WaitsForClient /\ Free = {}
    BY DEF Stuck
<1>1. ASSUME NEW s \in openUsers PROVE FALSE
    <2>1. s \in UnderWay /\ pc[s] \in {"audit", "commit", "rollback"}
        BY DEF Inv, TypeOK, RowsByStage, UnderWay
    <2> QED
        BY <2>1 DEF Stuck, Blocked
<1> QED
    BY <1>1 DEF Stuck, Blocked

\* Then each client that is not lost is held by a first connect of its own.
LEMMA StuckOnFirstConnects ==
    ASSUME Inv, Stuck
    PROVE  /\ \A c \in Clients \ Leaked : owner[c] \in FirstConnects
           /\ \A c, d \in Clients \ Leaked : owner[c] = owner[d] => c = d
           /\ \A r \in FirstConnects : \E c \in Clients \ Leaked : owner[c] = r
<1>1. /\ owner \in [Clients -> Requests \cup {Nobody}]
      /\ pc \in [Requests -> Controls]
      /\ ClientsByStage
    BY DEF Inv, TypeOK
<1>2. Free = {} /\ \A r \in UnderWay : pc[r] \in WaitsForClient
    BY StuckOnClients
<1>3. ASSUME NEW c \in Clients \ Leaked PROVE owner[c] \in FirstConnects
    <2>1. owner[c] \in Requests /\ pc[owner[c]] # "done" /\ c \in Owned(owner[c])
        BY <1>1, <1>2 DEF Free, Leaked, Owned
    <2>2. owner[c] \in UnderWay /\ pc[owner[c]] \notin {"find_wait", "connect_wait"}
        BY <1>1, <2>1 DEF ClientsByStage, UnderWay
    <2> QED
        BY <1>2, <2>1, <2>2 DEF FirstConnects
<1>4. ASSUME NEW r \in FirstConnects PROVE \E c \in Clients : Owned(r) = {c}
    BY <1>1 DEF ClientsByStage, FirstConnects
<1>5. ASSUME NEW c \in Clients \ Leaked, NEW d \in Clients \ Leaked, owner[c] = owner[d] PROVE c = d
    <2>1. c \in Owned(owner[c]) /\ d \in Owned(owner[c])
        BY <1>5 DEF Owned
    <2> QED
        BY <1>3, <1>4, <2>1
<1>6. ASSUME NEW r \in FirstConnects PROVE \E c \in Clients \ Leaked : owner[c] = r
    <2>1. PICK c \in Clients : Owned(r) = {c}
        BY <1>4
    <2>2. owner[c] = r /\ pc[r] = "probe_wait"
        BY <2>1 DEF Owned, FirstConnects
    <2> QED
        BY <2>2 DEF Leaked
<1> QED
    BY <1>3, <1>5, <1>6

\* As many first connects as the pool has clients left: nothing less makes the
\* requests wait for each other, whatever their addresses and their order.
THEOREM OnlyFirstConnectsBlock == Spec => []OnlyColdPoolBlocks
<1>1. ASSUME Inv, Stuck PROVE ~ Cardinality(FirstConnects) < Cardinality(Clients \ Leaked)
    <2> DEFINE Usable == Clients \ Leaked
               holder == [c \in Usable |-> owner[c]]
    <2>1. IsFiniteSet(Usable)
        BY ClientsAssumption, FS_Difference
    <2>2. holder \in Bijection(Usable, FirstConnects)
        BY <1>1, StuckOnFirstConnects DEF Bijection, Injection, Surjection, IsInjective
    <2>3. Cardinality(FirstConnects) = Cardinality(Usable)
        <3> HIDE DEF Usable, holder
        <3> QED
            BY <2>1, <2>2, FS_Bijection DEF ExistsBijection
    <2>4. Cardinality(Usable) \in Nat
        BY <2>1, FS_CardinalityType
    <2> QED
        BY <2>3, <2>4
<1>2. Inv => OnlyColdPoolBlocks
    BY <1>1 DEF OnlyColdPoolBlocks
<1> QED
    BY Invariance, <1>2, PTL

\* The boundary the pool has to be sized by: with one client more than there
\* are requests, and without a connection timeout, nothing ever blocks until a
\* statement or a connection fails.
THEOREM AmplePoolNeverBlocks ==
    ASSUME IsFiniteSet(Requests), Cardinality(Clients) > Cardinality(Requests), ~Timeouts
    PROVE  Spec => [](faults = 0 => ~Stuck)
<1>1. ASSUME OnlyColdPoolBlocks, OnlyFailuresLeak, faults = 0 PROVE ~Stuck
    <2>1. Clients \ Leaked = Clients
        BY <1>1 DEF OnlyFailuresLeak, ReleasedWhenAnswered
    <2>2. /\ Cardinality(FirstConnects) \in Nat /\ Cardinality(Requests) \in Nat
          /\ Cardinality(FirstConnects) <= Cardinality(Requests)
          /\ Cardinality(Clients) \in Nat
        BY ClientsAssumption, FS_Subset, FS_CardinalityType DEF FirstConnects
    <2>3. Cardinality(FirstConnects) < Cardinality(Clients)
        BY <2>2
    <2> QED
        BY <1>1, <2>1, <2>3 DEF OnlyColdPoolBlocks
<1> QED
    BY <1>1, OnlyFirstConnectsBlock, NothingFailsNothingLeaks, PTL

-----------------------------------------------------------------------------
(* register() implements the registry.                                     *)

LEMMA RegistryInit == Init => Registry!Init
BY DEF Init, Registry!Init

LEMMA RegistryStep == Inv /\ Inv' /\ [Next]_vars => [Registry!Next]_(Registry!vars)
<1> SUFFICES ASSUME Inv, Inv', [Next]_vars PROVE [Registry!Next]_(Registry!vars)
    OBVIOUS
<1>0. TypeOK /\ AuditMatchesUsers /\ RowsByStage /\ UniqueRows /\ TypeOK' /\ AuditMatchesUsers' /\ UniqueRows'
    BY DEF Inv
<1> USE DEF Registry!vars, Registry!SameAddress, SameAddress, db
<1>1. ASSUME NEW r \in Requests, FindMatches(r) PROVE Registry!Refuse(r)
    BY <1>0, <1>1 DEF FindMatches, Registry!Refuse, RowsByStage, Reply, Goto
<1>2. ASSUME NEW r \in Requests,
             \/ FindFails(r) \/ ProbeFails(r) \/ CheckOutTimesOut(r) \/ CheckOutFails(r) \/ Rollback(r)
      PROVE Registry!Fail(r)
    BY <1>0, <1>2 DEF FindFails, ProbeFails, CheckOutTimesOut, CheckOutFails, Rollback,
                      Registry!Fail, RowsByStage, Reply, Goto
<1>3. ASSUME NEW r \in Requests, Commit(r) PROVE Registry!Create(r)
    <2>1. r \in openUsers /\ r \in openAudit /\ answer[r] = "none"
        BY <1>0, <1>3 DEF Commit, Goto, RowsByStage
    <2>2. users' = users \cup {r} /\ auditLog' = auditLog \cup {r}
        BY <1>3, <2>1 DEF Commit
    <2>3. \A s \in users : EmailOf[s] # EmailOf[r]
        BY <1>0, <2>1 DEF UniqueRows, RowsByStage
    <2> QED
        BY <1>3, <2>1, <2>2, <2>3 DEF Commit, Registry!Create
<1>4. ASSUME NEW r \in Requests, Created(r) PROVE Registry!Confirm(r)
    BY <1>0, <1>4 DEF Created, Registry!Confirm, RowsByStage, Reply, Goto
<1>5. ASSUME Crash PROVE Registry!Lose
    <2> DEFINE cut == {r \in Requests : pc[r] \notin {"idle", "done"}}
    <2>1. cut \in SUBSET {r \in Requests : answer[r] = "none"}
        BY <1>0 DEF RowsByStage
    <2>2. answer' = [r \in Requests |-> IF r \in cut THEN "lost" ELSE answer[r]]
        BY <1>5 DEF Crash
    <2> QED
        BY <1>5, <2>1, <2>2 DEF Crash, Registry!Lose
<1>6. ASSUME NEW r \in Requests,
             \/ Receive(r) \/ FindCheckOut(r) \/ FindNothing(r) \/ Connect(r)
             \/ Begin(r) \/ InsertUser(r) \/ InsertViolatesUnique(r) \/ InsertAudit(r)
             \/ StatementFails(r)
      PROVE UNCHANGED Registry!vars
    BY <1>6 DEF Receive, FindCheckOut, FindNothing, Connect, ConnectCheckOut, ProbeCheckOut,
                ProbeReturns, Begin, InsertUser, InsertViolatesUnique, InsertAudit, StatementFails
<1>7. CASE UNCHANGED vars
    BY <1>7 DEF vars
<1> QED
    BY <1>1, <1>2, <1>3, <1>4, <1>5, <1>6, <1>7
       DEF Next, Proceed, GoesWrong, Lookup, Transaction, Finished, Registry!Next

\* Every behaviour of register(), with its pool, its failures and its crashes,
\* is one the atomic registry allows.
THEOREM Refinement == Spec => ImplementsRegistry
<1>1. Init => Registry!Init
    BY RegistryInit
<1>2. Inv /\ Inv' /\ [Next]_vars => [Registry!Next]_(Registry!vars)
    BY RegistryStep
<1> QED
    BY Invariance, <1>1, <1>2, PTL DEF Spec, ImplementsRegistry, Registry!Spec
=============================================================================
