---------------------------- MODULE HttpApiProofs ----------------------------
(***************************************************************************)
(* What the answers and the audit rows of HttpApi can be relied on for,    *)
(* whatever accounts, calls and failures there are.                        *)
(***************************************************************************)
EXTENDS HttpApi, TLAPS

LEMMA ApiInit == Init => ApiInv
<1> SUFFICES ASSUME Init PROVE ApiInv
    OBVIOUS
<1> USE DEF Init, NoRow
<1>1. TypeOK
    BY FaultsAssumption, SettingsAssumption DEF TypeOK, States, Statuses, Row
<1>2. HistoryLags /\ SeenWasThere /\ LoginWasEarned /\ TokensAreEarned
    BY NullAssumption DEF HistoryLags, SeenWasThere, LoginWasEarned, TokensAreEarned
<1>3. AnsweredWhenSent /\ SessionShowsOwner /\ AnswersAreCurrent /\ AuditNamesBearer /\ LossIsExcused
    BY DEF AnsweredWhenSent, Written, SessionShowsOwner, AnswersAreCurrent, AuditNamesBearer,
           LossIsExcused
<1>4. LookupInv
    BY DEF LookupInv, HistoryKeeps, NothingMissed, PresentIsFound
<1> QED
    BY <1>1, <1>2, <1>3, <1>4 DEF ApiInv, SessionInv

\* A row of audit_logs that forgets its actor keeps the rest.
LEMMA RowForgets ==
    ASSUME NEW row \in [request : Requests, actor : Ids \cup {Null}, status : Statuses], NEW i
    PROVE [row EXCEPT !.actor = IF @ = i THEN Null ELSE @]
              = [request |-> row.request, status |-> row.status,
                 actor |-> IF row.actor = i THEN Null ELSE row.actor]
OBVIOUS

\* A row that tells the truth may be added for a request that has none.
RowOf(r) == [request |-> r, actor |-> Actor(r), status |-> status[r]]

LEMMA NewRowNamesBearer ==
    ASSUME NEW r \in Requests, AuditNamesBearer, UNCHANGED <<users, bearer, seen, status>>,
           bearer[r] # Null, status[r] # 0, Exists(Actor(r)),
           \A row \in audit : row.request # r, audit' = audit \cup {RowOf(r)}
    PROVE  AuditNamesBearer'
<1>1. ASSUME NEW row \in audit'
      PROVE  /\ bearer'[row.request] # Null
             /\ row.status = status'[row.request] /\ row.status # 0
             /\ row.actor = IF Exists(Actor(row.request))' THEN Actor(row.request)' ELSE Null
    BY <1>1 DEF AuditNamesBearer, RowOf, Exists, Actor
<1>2. ASSUME NEW row \in audit', NEW other \in audit', other.request = row.request PROVE other = row
    BY <1>2 DEF AuditNamesBearer, RowOf
<1> QED
    BY <1>1, <1>2 DEF AuditNamesBearer, Exists, Actor

\* What sessions, answers and audit rows show is kept by every step.
LEMMA SessionStep == SessionInv /\ [Next]_vars => SessionInv'
<1> SUFFICES ASSUME SessionInv, [Next]_vars PROVE SessionInv'
    OBVIOUS
<1> USE NullAssumption, CallsAssumption, AccountsAssumption, SettingsAssumption, FaultsAssumption
    DEF SessionInv, TypeOK, States, Statuses, Row, NoRow, HistoryLags, SeenWasThere, LoginWasEarned,
        TokensAreEarned, AnsweredWhenSent, SessionShowsOwner, AnswersAreCurrent, AuditNamesBearer,
        LossIsExcused, Written, LetInto, Actor, Offers, Exists, data, history, request, vars
<1>1. ASSUME NEW i \in Ids, Create(i) PROVE SessionInv'
    BY <1>1 DEF Create
<1>2. ASSUME NEW i \in Ids, Disable(i) PROVE SessionInv'
    BY <1>2 DEF Disable
<1>3. ASSUME NEW i \in Ids, Enable(i) PROVE SessionInv'
    BY <1>3 DEF Enable
<1>4. ASSUME NEW i \in Ids, Delete(i) PROVE SessionInv'
    <2> DEFINE Kept(row) == [request |-> row.request, status |-> row.status,
                             actor |-> IF row.actor = i THEN Null ELSE row.actor]
    <2>1. ASSUME NEW old \in audit
          PROVE [old EXCEPT !.actor = IF @ = i THEN Null ELSE @] = Kept(old)
        <3>1. old \in [request : Requests, actor : Ids \cup {Null}, status : Statuses]
            OBVIOUS
        <3> HIDE DEF SessionInv
        <3> QED
            BY <3>1, RowForgets
    <2>2. \A row \in audit' : \E old \in audit : row = Kept(old)
        <3>1. audit' = {[old EXCEPT !.actor = IF @ = i THEN Null ELSE @] : old \in audit}
            BY <1>4 DEF Delete
        <3> HIDE DEF Kept
        <3> QED
            BY <3>1, <2>1
    <2>3. TypeOK' /\ HistoryLags'
        <3>1. ASSUME NEW old \in audit
              PROVE Kept(old) \in [request : Requests, actor : Ids \cup {Null}, status : Statuses]
            OBVIOUS
        <3>2. audit' \subseteq [request : Requests, actor : Ids \cup {Null}, status : Statuses]
            <4> HIDE DEF Kept
            <4> QED
                BY <2>2, <3>1
        <3> QED
            BY <1>4, <3>2 DEF Delete
    <2>4. AuditNamesBearer'
        <3>0. UNCHANGED <<bearer, status, seen>>
            BY <1>4 DEF Delete
        <3> SUFFICES ASSUME NEW row \in audit', NEW other \in audit'
                     PROVE /\ bearer[row.request] # Null
                           /\ row.status = status[row.request] /\ row.status # 0
                           /\ row.actor = IF Exists(Actor(row.request))' THEN Actor(row.request) ELSE Null
                           /\ other.request = row.request => other = row
            <4> HIDE DEF SessionInv
            <4> QED
                BY <3>0
        <3>1. PICK old \in audit : row = Kept(old)
            BY <2>2
        <3>2. PICK old2 \in audit : other = Kept(old2)
            BY <2>2
        <3>3. old.actor = IF Exists(Actor(row.request)) THEN Actor(row.request) ELSE Null
            BY <3>1
        <3>4. Actor(row.request) # i => Exists(Actor(row.request))' = Exists(Actor(row.request))
            BY <1>4, <3>1 DEF Delete
        <3>5. Actor(row.request) = i => Exists(Actor(row.request)) /\ ~Exists(Actor(row.request))'
            BY <1>4, <3>1 DEF Delete
        <3>6. row.actor = IF Exists(Actor(row.request))' THEN Actor(row.request) ELSE Null
            BY <3>1, <3>3, <3>4, <3>5
        <3>7. other.request = row.request => other = row
            BY <3>1, <3>2
        <3> QED
            BY <3>1, <3>6, <3>7
    <2>5. SeenWasThere' /\ LoginWasEarned' /\ TokensAreEarned'
        BY <1>4 DEF Delete
    <2>6. AnsweredWhenSent' /\ LossIsExcused'
        BY <1>4, <2>2 DEF Delete
    <2>7. SessionShowsOwner' /\ AnswersAreCurrent'
        BY <1>4 DEF Delete
    <2> QED
        BY <2>3, <2>4, <2>5, <2>6, <2>7
<1>5. ASSUME NEW l \in Requests, Expire(l) PROVE SessionInv'
    BY <1>5 DEF Expire
<1>6. ASSUME NEW r \in Requests, NEW c \in Calls, NEW user \in Requests \cup {Null},
             NEW answer \in Statuses \ {200}, Enter(r, c, user, answer),
             user # Null => token[user] # "none" /\ c.route \in Protected,
             answer = 0 /\ c.route \in Protected => user # Null,
             hits' \in 0..MaxRequests
      PROVE SessionInv'
    <2>1. TypeOK' /\ HistoryLags'
        BY <1>6 DEF Enter
    <2>2. SeenWasThere'
        BY <1>6 DEF Enter
    <2>3. LoginWasEarned' /\ TokensAreEarned'
        BY <1>6 DEF Enter
    <2>4. AnsweredWhenSent' /\ LossIsExcused'
        BY <1>6 DEF Enter
    <2>5. SessionShowsOwner' /\ AnswersAreCurrent'
        BY <1>6 DEF Enter
    <2>6. AuditNamesBearer'
        BY <1>6 DEF Enter
    <2> QED
        BY <2>1, <2>2, <2>3, <2>4, <2>5, <2>6
<1>7. ASSUME NEW r \in Requests, NEW c \in Calls,
             Malformed(r, c) \/ Limit(r, c) \/ \E l \in Requests \cup {Null} : Arrive(r, c, l)
      PROVE SessionInv'
    <2>1. CASE Malformed(r, c) \/ Limit(r, c)
        <3> HIDE DEF SessionInv
        <3>1. Enter(r, c, Null, 400) \/ Enter(r, c, Null, 429)
            BY <2>1 DEF Malformed, Limit
        <3>2. hits' \in 0..MaxRequests
            BY <2>1 DEF Malformed, Limit, SessionInv
        <3>3. {400, 429} \subseteq Statuses \ {200}
            OBVIOUS
        <3> QED
            BY <1>6, <3>1, <3>2, <3>3
    <2>2. ASSUME NEW l \in Requests \cup {Null}, Arrive(r, c, l) PROVE SessionInv'
        <3>1. Refusal(c, Verify(l)) \in Statuses \ {200}
            BY DEF Refusal
        <3>2. Verify(l) # Null => token[Verify(l)] # "none" /\ c.route \in Protected
            BY <2>2 DEF Arrive, Verify
        <3>3. Refusal(c, Verify(l)) = 0 /\ c.route \in Protected => Verify(l) # Null
            BY DEF Refusal
        <3>4. Verify(l) \in Requests \cup {Null}
            BY DEF Verify
        <3>5. hits' \in 0..MaxRequests
            BY <2>2 DEF Arrive, Overrun
        <3> HIDE DEF SessionInv
        <3> QED
            BY <1>6, <2>2, <3>1, <3>2, <3>3, <3>4, <3>5 DEF Arrive
    <2> QED
        BY <1>7, <2>1, <2>2
<1>8. ASSUME NEW r \in Requests, Read(r) PROVE SessionInv'
    <2>1. PICK row \in Returned(r) : seen' = [seen EXCEPT ![r] = row]
        BY <1>8 DEF Read
    <2>2. /\ row \in Row
          /\ row.id # Null => row.id \in Found(r)
          /\ row.id # Null /\ row.active => users[row.id] = "active"
        <3>1. CASE row = NoRow
            BY <3>1
        <3>2. ASSUME NEW i \in Found(r), row = [id |-> i, active |-> users[i] = "active"]
              PROVE /\ row \in Row
                    /\ row.id = i
                    /\ row.active => users[i] = "active"
            <4>1. i \in Ids
                BY DEF Found
            <4> QED
                BY <3>2, <4>1
        <3> QED
            BY <2>1, <3>1, <3>2 DEF Returned
    <2>3. row.id # Null => /\ Offers([call[r] EXCEPT !.route = "me"], row.id)
                           /\ users[row.id] \in {"active", "inactive"}
                           /\ row.active => users[row.id] = "active"
                           /\ call[r].route \in {"login", "find"} => HasAddress(row.id, call[r].email)
                           /\ call[r].route = "me" => row.id = Actor(r)
        BY <2>2 DEF Found, Wanted
    <2>4. TypeOK' /\ HistoryLags'
        BY <1>8, <2>1, <2>2, <2>3 DEF Read
    <2>5. SeenWasThere'
        BY <1>8, <2>1, <2>2, <2>3 DEF Read
    <2>6. LoginWasEarned' /\ TokensAreEarned'
        BY <1>8, <2>1, <2>2, <2>3 DEF Read
    <2>7. AnsweredWhenSent' /\ LossIsExcused'
        BY <1>8, <2>1, <2>2, <2>3 DEF Read
    <2>8. SessionShowsOwner' /\ AnswersAreCurrent'
        BY <1>8, <2>1, <2>2, <2>3 DEF Read
    <2>9. AuditNamesBearer'
        BY <1>8, <2>1, <2>2, <2>3 DEF Read
    <2> QED
        BY <2>4, <2>5, <2>6, <2>7, <2>8, <2>9
<1>9. ASSUME NEW r \in Requests, ReadFails(r) \/ AuditFails(r) PROVE SessionInv'
    <2>1. TypeOK' /\ HistoryLags'
        <3>1. faults' \in 0..MaxFaults
            BY <1>9 DEF ReadFails, AuditFails
        <3>2. pc' = [pc EXCEPT ![r] = "failed"] \/ pc' = [pc EXCEPT ![r] = "unaudited"]
            BY <1>9 DEF ReadFails, AuditFails
        <3>3. UNCHANGED <<config, users, audit, token, barred, kept, call, bearer, seen, status, hits>>
            BY <1>9 DEF ReadFails, AuditFails
        <3> QED
            BY <3>1, <3>2, <3>3
    <2>2. SeenWasThere'
        BY <1>9 DEF ReadFails, AuditFails
    <2>3. LoginWasEarned' /\ TokensAreEarned'
        BY <1>9 DEF ReadFails, AuditFails
    <2>4. AnsweredWhenSent' /\ LossIsExcused'
        BY <1>9 DEF ReadFails, AuditFails
    <2>5. SessionShowsOwner' /\ AnswersAreCurrent'
        BY <1>9 DEF ReadFails, AuditFails
    <2>6. AuditNamesBearer'
        BY <1>9 DEF ReadFails, AuditFails
    <2> QED
        BY <2>1, <2>2, <2>3, <2>4, <2>5, <2>6
<1>10. ASSUME NEW r \in Requests, Reply(r) PROVE SessionInv'
    <2>1. TypeOK' /\ HistoryLags'
        BY <1>10 DEF Reply, Outcome, LoginStatus, PasswordOk, HealthStatus, UserStatus, Protected, Routes
    <2>2. SeenWasThere'
        BY <1>10 DEF Reply, Outcome, LoginStatus, PasswordOk, HealthStatus, UserStatus, Protected, Routes
    <2>3. LoginWasEarned' /\ TokensAreEarned'
        <3>1. ASSUME call[r].route = "login", Outcome(r) = 200
              PROVE seen[r].id # Null /\ seen[r].active /\ LetInto(r, seen[r].id)
            BY <1>10, <3>1 DEF Reply, Outcome, LoginStatus, PasswordOk, HealthStatus, UserStatus, Routes
        <3>2. LoginWasEarned'
            BY <1>10, <3>1 DEF Reply
        <3>3. ASSUME call[r].route \in Protected, Outcome(r) = 200
              PROVE bearer[r] # Null
            BY <1>10, <3>3 DEF Reply, Outcome, HealthStatus, UserStatus, Protected, Routes
        <3>4. TokensAreEarned'
            BY <1>10, <3>3 DEF Reply
        <3> QED
            BY <3>2, <3>4
    <2>4. AnsweredWhenSent' /\ LossIsExcused'
        BY <1>10 DEF Reply, Outcome, LoginStatus, PasswordOk, HealthStatus, UserStatus, Protected, Routes
    <2>5. SessionShowsOwner' /\ AnswersAreCurrent'
        <3>1. ASSUME call[r].route = "me", Outcome(r) = 200
              PROVE bearer[r] \in Requests /\ seen[r].id \in Ids /\ LetInto(bearer[r], seen[r].id)
            <4>1. bearer[r] # Null /\ seen[r].id # Null
                BY <1>10, <3>1 DEF Reply, Outcome, HealthStatus, UserStatus, Protected, Routes
            <4>2. bearer[r] \in Requests /\ seen[r].id = seen[bearer[r]].id
                BY <1>10, <3>1, <4>1
            <4>3. status[bearer[r]] = 200 /\ call[bearer[r]] # Null /\ call[bearer[r]].route = "login"
                BY <4>1, <4>2
            <4> QED
                BY <4>1, <4>2, <4>3
        <3>2. SessionShowsOwner'
            BY <1>10, <3>1 DEF Reply
        <3>3. ASSUME seen[r].id # Null, Outcome(r) = 200 PROVE seen[r].id \notin barred[r]
            BY <1>10, <3>3 DEF Reply, Outcome, LoginStatus, PasswordOk, HealthStatus, UserStatus, Routes
        <3>4. AnswersAreCurrent'
            BY <1>10, <3>3 DEF Reply
        <3> QED
            BY <3>2, <3>4
    <2>6. AuditNamesBearer'
        BY <1>10 DEF Reply, Outcome, LoginStatus, PasswordOk, HealthStatus, UserStatus, Protected, Routes
    <2> QED
        BY <2>1, <2>2, <2>3, <2>4, <2>5, <2>6
<1>11. ASSUME NEW r \in Requests, HangUp(r) PROVE SessionInv'
    BY <1>11 DEF HangUp, Forget
<1>12. ASSUME NEW r \in Requests, Finish(r) PROVE SessionInv'
    <2>1. TypeOK' /\ HistoryLags'
        BY <1>12 DEF Finish, Forget, Audited
    <2>2. SeenWasThere'
        BY <1>12 DEF Finish, Forget, Audited
    <2>3. LoginWasEarned' /\ TokensAreEarned'
        <3>1. LoginWasEarned'
            BY <1>12 DEF Finish
        <3>2. call[r] # Null /\ (call[r].route = "login" => bearer[r] = Null)
            BY <1>12 DEF Finish, Protected
        <3>3. call[r].route = "login" => pc' = [pc EXCEPT ![r] = "done"]
            BY <1>12, <3>2 DEF Finish, Audited
        <3>4. TokensAreEarned'
            BY <1>12, <3>2, <3>3 DEF Finish
        <3> QED
            BY <3>1, <3>4
    <2>4. AnsweredWhenSent' /\ LossIsExcused'
        BY <1>12 DEF Finish, Forget, Audited
    <2>5. SessionShowsOwner' /\ AnswersAreCurrent'
        BY <1>12 DEF Finish, Forget, Audited
    <2>6. AuditNamesBearer'
        BY <1>12 DEF Finish, Forget, Audited
    <2> QED
        BY <2>1, <2>2, <2>3, <2>4, <2>5, <2>6
<1>13. ASSUME NEW r \in Requests, WriteAudit(r) PROVE SessionInv'
    <2>1. TypeOK' /\ HistoryLags'
        <3>1. [request |-> r, actor |-> Actor(r), status |-> status[r]]
                \in [request : Requests, actor : Ids \cup {Null}, status : Statuses]
            BY <1>13 DEF WriteAudit
        <3>2. audit' \subseteq [request : Requests, actor : Ids \cup {Null}, status : Statuses]
            BY <1>13, <3>1 DEF WriteAudit
        <3>3. pc' = [pc EXCEPT ![r] = "done"] \/ pc' = [pc EXCEPT ![r] = "unaudited"]
            BY <1>13 DEF WriteAudit
        <3>4. UNCHANGED <<config, users, token, barred, kept, call, bearer, seen, status, hits, faults>>
            BY <1>13 DEF WriteAudit
        <3>5. TypeOK'
            BY <3>2, <3>3, <3>4
        <3>6. HistoryLags'
            BY <3>4
        <3> QED
            BY <3>5, <3>6
    <2>2. SeenWasThere'
        BY <1>13 DEF WriteAudit
    <2>3. LoginWasEarned' /\ TokensAreEarned'
        BY <1>13 DEF WriteAudit
    <2>4. AnsweredWhenSent' /\ LossIsExcused'
        BY <1>13 DEF WriteAudit
    <2>5. SessionShowsOwner' /\ AnswersAreCurrent'
        BY <1>13 DEF WriteAudit
    <2>6. AuditNamesBearer'
        <3>1. UNCHANGED <<users, bearer, seen, status>>
            BY <1>13 DEF WriteAudit
        <3>2. bearer[r] # Null /\ status[r] # 0 /\ \A row \in audit : row.request # r
            <4>1. pc[r] = "auditing" /\ AnsweredWhenSent
                BY <1>13 DEF WriteAudit
            <4> HIDE DEF SessionInv, TokensAreEarned, LoginWasEarned, SeenWasThere
            <4> QED
                BY <4>1
        <3>3. CASE audit' = audit
            BY <3>1, <3>3
        <3>4. CASE Exists(Actor(r)) /\ audit' = audit \cup {RowOf(r)}
            <4> HIDE DEF AuditNamesBearer
            <4>1. AuditNamesBearer
                BY DEF SessionInv
            <4> QED
                BY <3>1, <3>2, <3>4, <4>1, NewRowNamesBearer
        <3> QED
            BY <1>13, <3>3, <3>4 DEF WriteAudit, RowOf
    <2> QED
        BY <2>1, <2>2, <2>3, <2>4, <2>5, <2>6
<1>14. CASE NewWindow \/ AtRest \/ UNCHANGED vars
    BY <1>14 DEF NewWindow, AtRest
<1> HIDE DEF SessionInv, vars
<1> QED
    BY <1>1, <1>2, <1>3, <1>4, <1>5, <1>7, <1>8, <1>9, <1>10, <1>11, <1>12, <1>13, <1>14
    DEF Next, Handle

\* Nor does any step lose an account that is there.
LEMMA LookupStep == SessionInv /\ LookupInv /\ [Next]_vars => LookupInv'
<1> SUFFICES ASSUME SessionInv, LookupInv, [Next]_vars PROVE LookupInv'
    OBVIOUS
<1> USE NullAssumption, CallsAssumption
    DEF LookupInv, HistoryKeeps, NothingMissed, PresentIsFound, Matches, IsLogin, Wanted, HasAddress, Actor, Offers,
        Exists, data, history, request, vars
<1>0. /\ TypeOK /\ SeenWasThere /\ AnsweredWhenSent /\ TokensAreEarned
    BY DEF SessionInv
<1>1. ASSUME NEW i \in Ids, Create(i) \/ Disable(i) \/ Enable(i) \/ Delete(i) PROVE LookupInv'
    <2>1. UNCHANGED <<call, bearer, seen, status, pc>>
        BY <1>1 DEF Create, Disable, Enable, Delete
    <2>2. \A r \in Requests : kept'[r] \subseteq kept[r]
        BY <1>0, <1>1 DEF Create, Disable, Enable, Delete, TypeOK
    <2>3. HistoryKeeps'
        BY <1>0, <1>1 DEF Create, Disable, Enable, Delete, TypeOK, States
    <2>4. NothingMissed' /\ PresentIsFound'
        BY <2>1, <2>2
    <2> QED
        BY <2>3, <2>4
<1>2. ASSUME NEW r \in Requests, NEW c \in Calls, NEW user, NEW answer, Enter(r, c, user, answer)
      PROVE LookupInv'
    BY <1>0, <1>2 DEF Enter, TypeOK, AnsweredWhenSent
<1>3. ASSUME NEW r \in Requests, Read(r) PROVE LookupInv'
    <2>1. /\ pc[r] = "query" /\ status[r] = 0 /\ call[r] # Null
          /\ pc' = [pc EXCEPT ![r] = "reply"]
          /\ UNCHANGED <<users, kept, call, bearer, status>>
        BY <1>0, <1>3 DEF Read, TypeOK, AnsweredWhenSent
    <2>2. PICK row \in Returned(r) : seen' = [seen EXCEPT ![r] = row]
        BY <1>3 DEF Read
    <2>3. ASSUME NEW i \in kept[r], Wanted(r, i)
          PROVE row.id # Null /\ (IsLogin(r) /\ row.id = i => row.active)
        <3>1. i \in Ids /\ Offers(call[r], i)
            BY <1>0, <2>1 DEF TypeOK
        <3>2. i \in Found(r)
            BY <2>3, <3>1 DEF Found
        <3>3. PICK j \in Found(r) : row = [id |-> j, active |-> users[j] = "active"]
            BY <2>2, <3>2 DEF Returned
        <3>4. j \in Ids
            BY <3>3 DEF Found
        <3> QED
            BY <3>1, <3>3, <3>4
    <2>4. \A q \in Requests : bearer[q] # Null => bearer[q] # r
        BY <1>0, <2>1 DEF TokensAreEarned
    <2>5. seen'[r] = row /\ \A q \in Requests : q # r => seen'[q] = seen[q]
        BY <1>0, <2>2 DEF TypeOK
    <2>6. HistoryKeeps'
        BY <1>0, <2>1
    <2>7. NothingMissed'
        <3> SUFFICES ASSUME NEW q \in Requests, pc'[q] = "reply", NEW i \in kept[q], Wanted(q, i)'
                     PROVE seen'[q].id # Null /\ (IsLogin(q) /\ seen'[q].id = i => seen'[q].active)
            BY <2>1
        <3>1. CASE q = r
            <4>1. call[r].route = "me" => bearer[r] # Null
                BY <1>0, <2>1 DEF TokensAreEarned, Protected
            <4>2. Wanted(r, i)
                BY <1>0, <2>1, <2>4, <2>5, <3>1, <4>1 DEF TypeOK
            <4> QED
                BY <2>3, <2>5, <3>1, <4>2
        <3>2. CASE q # r
            <4>1. pc[q] = "reply" /\ seen'[q] = seen[q]
                BY <1>0, <2>1, <2>5, <3>2 DEF TypeOK
            <4>2. call[q].route = "me" => bearer[q] # Null
                BY <1>0, <4>1 DEF TokensAreEarned, AnsweredWhenSent, Protected
            <4>3. Wanted(q, i)
                BY <1>0, <2>1, <2>4, <2>5, <4>2 DEF TypeOK
            <4> QED
                BY <4>1, <4>3
        <3> QED
            BY <3>1, <3>2
    <2>8. PresentIsFound'
        <3>1. \A q \in Requests : bearer[q] # Null => Actor(q)' = Actor(q)
            BY <1>0, <2>1, <2>4, <2>5 DEF TypeOK
        <3> QED
            BY <1>0, <2>1, <2>5, <3>1
    <2> QED
        BY <2>6, <2>7, <2>8
<1>4. ASSUME NEW r \in Requests, Reply(r) PROVE LookupInv'
    <2>1. /\ pc[r] \in {"reply", "failed"} /\ status[r] = 0 /\ call[r] # Null
          /\ pc' = [pc EXCEPT ![r] = "sent"]
          /\ status' = [status EXCEPT ![r] = Outcome(r)]
          /\ UNCHANGED <<users, kept, call, bearer, seen>>
        BY <1>0, <1>4 DEF Reply, TypeOK, AnsweredWhenSent
    <2>2. HistoryKeeps' /\ NothingMissed'
        BY <1>0, <2>1 DEF TypeOK
    <2>3. ASSUME NEW i \in kept[r], Outcome(r) \in {401, 404}
          PROVE /\ call[r].route = "login" /\ Matches(r, i) =>
                      seen[r].id \in Ids \ {i} /\ HasAddress(seen[r].id, call[r].email)
                /\ Outcome(r) = 404 =>
                      /\ call[r].route = "find" => ~HasAddress(i, call[r].email)
                      /\ call[r].route = "me" /\ bearer[r] # Null => i # Actor(r)
        <3>1. pc[r] = "reply" /\ call[r].route \in {"login", "me", "find"}
            BY <1>0, <2>1, <2>3 DEF Outcome, HealthStatus, TypeOK, Routes
        <3>2. CASE call[r].route = "login"
            BY <1>0, <2>1, <2>3, <3>1, <3>2 DEF Outcome, LoginStatus, PasswordOk, TypeOK, SeenWasThere, Row
        <3>3. CASE call[r].route \in {"me", "find"}
            BY <1>0, <2>1, <2>3, <3>1, <3>3 DEF Outcome, UserStatus, TypeOK
        <3> QED
            BY <3>1, <3>2, <3>3
    <2>4. PresentIsFound'
        BY <1>0, <2>1, <2>3 DEF TypeOK
    <2> QED
        BY <2>2, <2>4
<1>5. ASSUME NEW r \in Requests, HangUp(r) \/ Finish(r) PROVE LookupInv'
    BY <1>0, <1>5 DEF HangUp, Finish, Forget, TypeOK, AnsweredWhenSent
<1>6. ASSUME NEW r \in Requests, ReadFails(r) PROVE LookupInv'
    BY <1>0, <1>6 DEF ReadFails, TypeOK
<1>7. ASSUME NEW r \in Requests, WriteAudit(r) \/ AuditFails(r) \/ Expire(r) PROVE LookupInv'
    BY <1>0, <1>7 DEF WriteAudit, AuditFails, Expire, TypeOK
<1>8. CASE NewWindow \/ AtRest \/ UNCHANGED vars
    BY <1>8 DEF NewWindow, AtRest
<1> QED
    BY <1>1, <1>2, <1>3, <1>4, <1>5, <1>6, <1>7, <1>8
    DEF Next, Handle, Arrive, Limit, Malformed

LEMMA ApiStep == ApiInv /\ [Next]_vars => ApiInv'
BY SessionStep, LookupStep DEF ApiInv

\* The inductive invariant holds in every reachable state (AuthService,
\* UsersService, authenticate, audit_logger; any accounts, calls and failures).
THEOREM ApiInvariance == Spec => []ApiInv
BY ApiInit, ApiStep, PTL DEF Spec

\* Every variable of HttpApi keeps its type.
THEOREM TypeCorrect == Spec => []TypeOK
<1>1. ApiInv => TypeOK
    BY DEF ApiInv, SessionInv
<1> QED
    BY <1>1, ApiInvariance, PTL

\* GET /auth/me and /users/me only ever show the account whose password opened
\* the session, however accounts come, go and inherit addresses.
THEOREM SessionsShowTheirOwner == Spec => []SessionShowsOwner
<1>1. ApiInv => SessionShowsOwner
    BY DEF ApiInv, SessionInv
<1> QED
    BY <1>1, ApiInvariance, PTL

\* No answer is about an account that was gone, and no login succeeds for one
\* that was inactive, all the time from the request on.
THEOREM AnswersStayCurrent == Spec => []AnswersAreCurrent
<1>1. ApiInv => AnswersAreCurrent
    BY DEF ApiInv, SessionInv
<1> QED
    BY <1>1, ApiInvariance, PTL

\* An account that is there all the time (for a login: and active) is found and
\* let in: no answer denies it, unless a second spelling of its address shadows it.
THEOREM NobodyIsMissed == Spec => []PresentIsFound
<1>1. ApiInv => PresentIsFound
    BY DEF ApiInv, LookupInv
<1> QED
    BY <1>1, ApiInvariance, PTL

\* Every row audit_logger writes names who presented the token, and the status
\* the request was answered with; a request has one at most.
THEOREM AuditIsTruthful == Spec => []AuditNamesBearer
<1>1. ApiInv => AuditNamesBearer
    BY DEF ApiInv, SessionInv
<1> QED
    BY <1>1, ApiInvariance, PTL

-----------------------------------------------------------------------------
(* HttpApi implements Sessions.                                            *)

\* Nothing is decided anew about a request whose row, call and answer stay.
LEMMA SettledStays ==
    ASSUME NEW q \in Requests, pc'[q] = pc[q], status'[q] = status[q], seen'[q] = seen[q],
           call'[q] = call[q]
    PROVE  Settled(q)' = Settled(q)
BY DEF Settled, Outcome, LoginStatus, PasswordOk, HealthStatus, UserStatus

\* What has been answered has been decided that way.
LEMMA SettledWhenAnswered ==
    ASSUME NEW q \in Requests, status[q] # 0, pc[q] \notin {"idle", "query"}
    PROVE  Settled(q) = [status |-> status[q], account |-> IF status[q] = 200 THEN seen[q].id ELSE Null]
BY DEF Settled

\* Steps that decide about one request at most, and open and close no session.
LEMMA OneIsSettled ==
    ASSUME NEW r \in Requests, NEW s, Settled(r)' = s,
           \A q \in Requests \ {r} : Settled(q)' = Settled(q)
    PROVE  Outcomes' = [Outcomes EXCEPT ![r] = s]
BY DEF Outcomes

LEMMA NoneIsSettled ==
    ASSUME \A q \in Requests : Settled(q)' = Settled(q)
    PROVE  Outcomes' = Outcomes
BY DEF Outcomes

LEMMA SessionsStay ==
    ASSUME token' = token, \A q \in Requests : token[q] # "none" => seen'[q].id = seen[q].id
    PROVE  SessionOf' = SessionOf /\ Live' = Live
BY DEF SessionOf, Live

LEMMA DirectoryInit == Init => Directory!Init
<1> SUFFICES ASSUME Init PROVE Directory!Init
    OBVIOUS
<1>1. Outcomes = [r \in Requests |-> [status |-> 0, account |-> Null]]
    BY DEF Init, Outcomes, Settled
<1>2. SessionOf = [r \in Requests |-> Null] /\ Live = {}
    BY DEF Init, SessionOf, Live
<1> QED
    BY <1>1, <1>2 DEF Init, Directory!Init, Directory!Undecided

\* The account that a token names, for a request made with it.
LEMMA ActorIsSession ==
    ASSUME TypeOK, TokensAreEarned, NEW r \in Requests, bearer[r] # Null
    PROVE  bearer[r] \in Requests /\ Actor(r) = SessionOf[bearer[r]]
BY NullAssumption DEF TypeOK, TokensAreEarned, Actor, SessionOf

\* Requests come.
LEMMA DirectoryEnter ==
    ASSUME ApiInv, NEW r \in Requests, NEW c \in Calls, NEW user \in Requests \cup {Null},
           NEW answer \in {0, 400, 401, 429}, Enter(r, c, user, answer),
           user # Null => token[user] = "live" /\ c.route \in Protected,
           answer = 401 => user = Null /\ c.route \in Protected,
           answer = 0 /\ c.route \in Protected => user # Null
    PROVE  Directory!Next
<1>0. /\ TypeOK /\ AnsweredWhenSent
      /\ pc[r] = "idle" /\ call[r] = Null /\ status[r] = 0
    BY DEF ApiInv, SessionInv, AnsweredWhenSent, Enter
<1>1. SessionOf' = SessionOf /\ Live' = Live
    BY SessionsStay DEF Enter, data
<1>2. \A q \in Requests \ {r} : Settled(q)' = Settled(q)
    BY <1>0, SettledStays DEF Enter, TypeOK
<1>3. /\ user \in Live \cup {Null}
      /\ Directory!Come(r, c, user)
      /\ users' = users
    BY <1>0, NullAssumption DEF Live, Enter, data, Directory!Come
<1>4. CASE answer = 0
    <2>1. Settled(r)' = Settled(r)
        BY <1>0, <1>4 DEF Enter, Settled, TypeOK
    <2>2. Outcomes' = Outcomes
        BY <1>2, <2>1, NoneIsSettled
    <2>3. status' = status
        BY <1>0, <1>4 DEF Enter, TypeOK
    <2>4. user = Null <=> c.route \notin {"me", "find"}
        BY <1>4, NullAssumption DEF Protected
    <2>5. Directory!Ask(r, c, user)
        BY <1>1, <1>3, <2>2, <2>3, <2>4 DEF Directory!Ask, Directory!sessions
    <2> QED
        BY <2>5 DEF Directory!Next
<1>5. CASE answer # 0
    <2>1. Settled(r)' = [status |-> answer, account |-> Null]
        BY <1>0, <1>5 DEF Enter, Settled, TypeOK
    <2>2. Outcomes' = [Outcomes EXCEPT ![r] = [status |-> answer, account |-> Null]]
        BY <1>2, <2>1, OneIsSettled
    <2>3. status' = [status EXCEPT ![r] = answer]
        BY DEF Enter
    <2>4. answer = 401 => user = Null /\ c.route \in {"me", "find"}
        BY DEF Protected
    <2>5. Directory!Reject(r, c, user, answer)
        BY <1>1, <1>3, <2>2, <2>3, <2>4 DEF Directory!Reject, Directory!sessions
    <2> QED
        BY <1>5, <2>5 DEF Directory!Next
<1> QED
    BY <1>4, <1>5

\* PostgreSQL runs the query: this is the moment of the answer.
LEMMA DirectoryRead ==
    ASSUME ApiInv, NEW r \in Requests, Read(r)
    PROVE  Directory!Next
<1>0. /\ TypeOK /\ AnsweredWhenSent /\ TokensAreEarned
      /\ pc[r] = "query" /\ call[r] # Null /\ status[r] = 0
      /\ call[r].route \in Protected => bearer[r] # Null
      /\ token[r] = "none"
    BY DEF ApiInv, SessionInv, TypeOK, AnsweredWhenSent, TokensAreEarned, Read
<1>1. call[r] \in Calls /\ call[r].route \in Routes
    BY <1>0, CallsAssumption DEF TypeOK
<1>2. PICK row \in Returned(r) : seen' = [seen EXCEPT ![r] = row]
    BY DEF Read
<1>3. /\ pc' = [pc EXCEPT ![r] = "reply"]
      /\ UNCHANGED <<users, token, call, bearer, status>>
    BY DEF Read, data
<1>4. SessionOf' = SessionOf /\ Live' = Live
    BY <1>0, <1>2, <1>3, SessionsStay DEF TypeOK
<1>5. \A q \in Requests \ {r} : Settled(q)' = Settled(q)
    BY <1>0, <1>2, <1>3, SettledStays DEF TypeOK
<1>6. ASSUME NEW answer, NEW account,
             Settled(r)' = [status |-> answer, account |-> account]
      PROVE Directory!Decide(r, answer, account)
    <2>1. Outcomes' = [Outcomes EXCEPT ![r] = [status |-> answer, account |-> account]]
        BY <1>5, <1>6, OneIsSettled
    <2> QED
        BY <1>3, <1>4, <2>1 DEF Directory!Decide, Directory!sessions, Directory!requests
<1>7. ASSUME NEW routes, call[r].route \in routes PROVE Directory!Waits(r, routes)
    <2>1. Outcomes[r] = [status |-> 0, account |-> Null]
        BY <1>0 DEF Outcomes, Settled
    <2> QED
        BY <1>0, <1>7, <2>1 DEF Directory!Waits, Directory!Undecided
<1>8. ASSUME call[r].route \in {"login", "me", "find"}, NEW i \in Ids
      PROVE Directory!Meant(r, i) <=> i \in Found(r)
    <2>1. CASE call[r].route = "me"
        BY <1>0, <2>1, ActorIsSession
        DEF Found, Wanted, Exists, Directory!Meant, Directory!Exists, Protected
    <2>2. CASE call[r].route \in {"login", "find"}
        BY <2>2 DEF Found, Wanted, Exists, HasAddress, Directory!Meant, Directory!Exists
    <2> QED
        BY <1>8, <2>1, <2>2
<1>9. /\ seen'[r] = row /\ pc'[r] = "reply" /\ call'[r] = call[r] /\ status'[r] = 0
    BY <1>0, <1>2, <1>3 DEF TypeOK
<1>10. CASE call[r].route = "login"
    <2>1. CASE Found(r) = {}
        <3>1. row.id = Null
            BY <1>2, <2>1 DEF Returned, NoRow
        <3>2. Settled(r)' = [status |-> 401, account |-> Null]
            BY <1>9, <1>10, <3>1 DEF Settled, Outcome, LoginStatus
        <3>3. Directory!TurnDown(r)
            BY <1>6, <1>7, <1>8, <1>10, <2>1, <3>2 DEF Directory!TurnDown
        <3> QED
            BY <3>3 DEF Directory!Next
    <2>2. CASE Found(r) # {}
        <3>1. PICK i \in Found(r) : row = [id |-> i, active |-> users[i] = "active"]
            BY <1>2, <2>2 DEF Returned
        <3>2. i \in Ids /\ i # Null /\ Directory!Meant(r, i)
            BY <1>8, <1>10, <3>1, NullAssumption DEF Found
        <3>3. row.id = i /\ (row.active <=> users[i] = "active")
            BY <3>1
        <3>4. LoginStatus(r)' = IF Directory!MayEnter(r, i) THEN 200 ELSE 401
            BY <1>9, <3>2, <3>3 DEF LoginStatus, PasswordOk, Directory!MayEnter
        <3>5. Outcome(r)' = LoginStatus(r)'
            BY <1>9, <1>10 DEF Outcome
        <3>6. CASE Directory!MayEnter(r, i)
            <4>1. Settled(r)' = [status |-> 200, account |-> i]
                BY <1>9, <3>6, <3>3, <3>4, <3>5 DEF Settled
            <4>2. Directory!LetIn(r, i)
                BY <1>6, <1>7, <1>10, <3>2, <3>6, <4>1 DEF Directory!LetIn
            <4> QED
                BY <3>2, <4>2 DEF Directory!Next
        <3>7. CASE ~Directory!MayEnter(r, i)
            <4>1. Settled(r)' = [status |-> 401, account |-> Null]
                BY <1>9, <3>7, <3>4, <3>5 DEF Settled
            <4>2. Directory!TurnDown(r)
                BY <1>6, <1>7, <1>10, <3>2, <3>7, <4>1 DEF Directory!TurnDown
            <4> QED
                BY <4>2 DEF Directory!Next
        <3> QED
            BY <3>6, <3>7
    <2> QED
        BY <2>1, <2>2
<1>11. CASE call[r].route \in {"me", "find"}
    <2>1. CASE Found(r) = {}
        <3>1. row.id = Null
            BY <1>2, <2>1 DEF Returned, NoRow
        <3>2. Settled(r)' = [status |-> 404, account |-> Null]
            BY <1>9, <1>11, <3>1 DEF Settled, Outcome, UserStatus
        <3>3. Directory!Miss(r)
            BY <1>6, <1>7, <1>8, <1>11, <2>1, <3>2 DEF Directory!Miss
        <3> QED
            BY <3>3 DEF Directory!Next
    <2>2. CASE Found(r) # {}
        <3>1. PICK i \in Found(r) : row = [id |-> i, active |-> users[i] = "active"]
            BY <1>2, <2>2 DEF Returned
        <3>2. i \in Ids /\ i # Null /\ Directory!Meant(r, i)
            BY <1>8, <1>11, <3>1, NullAssumption DEF Found
        <3>3. Settled(r)' = [status |-> 200, account |-> i]
            BY <1>9, <1>11, <3>1, <3>2 DEF Settled, Outcome, UserStatus
        <3>4. Directory!Show(r, i)
            BY <1>6, <1>7, <1>11, <3>2, <3>3 DEF Directory!Show
        <3> QED
            BY <3>2, <3>4 DEF Directory!Next
    <2> QED
        BY <2>1, <2>2
<1>12. CASE call[r].route \in {"health", "ready"}
    <2>1. Found(r) = {}
        BY <1>12 DEF Found, Wanted
    <2>2. row.id = Null
        BY <1>2, <2>1 DEF Returned, NoRow
    <2>3. Settled(r)' = [status |-> 200, account |-> Null]
        BY <1>9, <1>12, <2>2 DEF Settled, Outcome, HealthStatus
    <2>4. Directory!Report(r)
        BY <1>6, <1>7, <1>12, <2>3 DEF Directory!Report
    <2> QED
        BY <2>4 DEF Directory!Next
<1> QED
    BY <1>1, <1>10, <1>11, <1>12 DEF Routes

LEMMA DirectoryReadFails ==
    ASSUME ApiInv, NEW r \in Requests, ReadFails(r)
    PROVE  Directory!Next
<1>0. /\ TypeOK /\ AnsweredWhenSent
      /\ pc[r] = "query" /\ call[r] # Null /\ status[r] = 0
      /\ seen[r].id = Null
    BY DEF ApiInv, SessionInv, AnsweredWhenSent, SeenWasThere, ReadFails
<1>1. call[r].route \in Routes
    BY <1>0, CallsAssumption DEF TypeOK
<1>2. /\ pc' = [pc EXCEPT ![r] = "failed"]
      /\ UNCHANGED <<users, token, call, bearer, seen, status>>
    BY DEF ReadFails, data, request
<1>3. SessionOf' = SessionOf /\ Live' = Live
    BY <1>2, SessionsStay
<1>4. \A q \in Requests \ {r} : Settled(q)' = Settled(q)
    BY <1>0, <1>2, SettledStays DEF TypeOK
<1>5. Outcomes[r] = [status |-> 0, account |-> Null]
    BY <1>0 DEF Outcomes, Settled
<1>6. ASSUME NEW answer, Settled(r)' = [status |-> answer, account |-> Null]
      PROVE Directory!Decide(r, answer, Null)
    <2>1. Outcomes' = [Outcomes EXCEPT ![r] = [status |-> answer, account |-> Null]]
        BY <1>4, <1>6, OneIsSettled
    <2> QED
        BY <1>2, <1>3, <2>1 DEF Directory!Decide, Directory!sessions, Directory!requests
<1>7. pc'[r] = "failed" /\ call'[r] = call[r] /\ status'[r] = 0 /\ seen'[r].id = Null
    BY <1>0, <1>2 DEF TypeOK
<1>8. CASE call[r].route \in {"login", "me", "find"}
    <2>1. Settled(r)' = [status |-> 500, account |-> Null]
        BY <1>7, <1>8 DEF Settled, Outcome
    <2>2. Directory!Fail(r)
        BY <1>0, <1>5, <1>6, <1>8, <2>1 DEF Directory!Fail, Directory!Waits, Directory!Undecided
    <2> QED
        BY <2>2 DEF Directory!Next
<1>9. CASE call[r].route = "health"
    <2>1. Settled(r)' = [status |-> 200, account |-> Null]
        BY <1>7, <1>9 DEF Settled, Outcome, HealthStatus
    <2>2. Directory!Report(r)
        BY <1>0, <1>5, <1>6, <1>9, <2>1 DEF Directory!Report, Directory!Waits, Directory!Undecided
    <2> QED
        BY <2>2 DEF Directory!Next
<1>10. CASE call[r].route = "ready"
    <2>1. Settled(r)' = [status |-> 503, account |-> Null]
        BY <1>7, <1>10 DEF Settled, Outcome, HealthStatus
    <2>2. Directory!Report(r)
        BY <1>0, <1>5, <1>6, <1>10, <2>1 DEF Directory!Report, Directory!Waits, Directory!Undecided
    <2> QED
        BY <2>2 DEF Directory!Next
<1> QED
    BY <1>1, <1>8, <1>9, <1>10 DEF Routes

LEMMA DirectoryReply ==
    ASSUME ApiInv, NEW r \in Requests, Reply(r)
    PROVE  Directory!Answer(r)
<1>0. /\ TypeOK /\ AnsweredWhenSent
      /\ pc[r] \in {"reply", "failed"} /\ call[r] # Null /\ status[r] = 0
    BY DEF ApiInv, SessionInv, AnsweredWhenSent, Reply
<1>1. call[r].route \in Routes
    BY <1>0, CallsAssumption DEF TypeOK
<1>2. /\ pc' = [pc EXCEPT ![r] = "sent"]
      /\ status' = [status EXCEPT ![r] = Outcome(r)]
      /\ UNCHANGED <<users, token, call, bearer, seen>>
    BY DEF Reply, data, request
<1>3. Outcome(r) # 0
    BY <1>0, <1>1 DEF Outcome, LoginStatus, HealthStatus, UserStatus, Routes
<1>4. Settled(r) = [status |-> Outcome(r), account |-> IF Outcome(r) = 200 THEN seen[r].id ELSE Null]
    BY <1>0 DEF Settled
<1>5. Settled(r)' = [status |-> Outcome(r), account |-> IF Outcome(r) = 200 THEN seen[r].id ELSE Null]
    <2>1. status'[r] = Outcome(r) /\ pc'[r] = "sent" /\ seen'[r] = seen[r]
        BY <1>0, <1>2 DEF TypeOK
    <2> QED
        BY <1>3, <2>1 DEF Settled
<1>6. \A q \in Requests \ {r} : Settled(q)' = Settled(q)
    BY <1>0, <1>2, SettledStays DEF TypeOK
<1>7. Outcomes' = Outcomes
    BY <1>4, <1>5, <1>6, NoneIsSettled
<1>8. Outcomes[r].status = Outcome(r)
    BY <1>4 DEF Outcomes
<1>9. SessionOf' = SessionOf /\ Live' = Live
    BY <1>2, SessionsStay
<1> QED
    BY <1>0, <1>2, <1>3, <1>7, <1>8, <1>9
    DEF Directory!Answer, Directory!Undecided, Directory!sessions, Directory!requests

\* The answer is out, and with it the token of a login.
LEMMA DirectoryFinish ==
    ASSUME ApiInv, NEW r \in Requests, Finish(r)
    PROVE  [Directory!Next]_(Directory!vars)
<1>0. /\ TypeOK /\ AnsweredWhenSent /\ TokensAreEarned /\ LoginWasEarned
      /\ pc[r] = "sent" /\ call[r] # Null /\ status[r] # 0
      /\ token[r] = "none"
    BY DEF ApiInv, SessionInv, TypeOK, AnsweredWhenSent, TokensAreEarned, Finish
<1>1. UNCHANGED <<users, call, bearer, seen, status>>
    BY DEF Finish, request
<1>2. Settled(r)' = Settled(r)
    <2>1. pc'[r] \in {"auditing", "done"} /\ status'[r] = status[r] /\ seen'[r] = seen[r]
        BY <1>0, <1>1 DEF Finish, TypeOK
    <2> QED
        BY <1>0, <2>1 DEF Settled
<1>3. \A q \in Requests \ {r} : Settled(q)' = Settled(q)
    BY <1>0, <1>1, SettledStays DEF Finish, TypeOK
<1>4. Outcomes' = Outcomes
    BY <1>2, <1>3, NoneIsSettled
<1>5. CASE call[r].route = "login" /\ status[r] = 200
    <2>1. token' = [token EXCEPT ![r] = "live"]
        BY <1>5 DEF Finish
    <2>2. Outcomes[r].account = seen[r].id
        BY <1>0, <1>5 DEF Outcomes, Settled
    <2>3. SessionOf' = [SessionOf EXCEPT ![r] = seen[r].id] /\ Live' = Live \cup {r}
        BY <1>0, <1>1, <2>1 DEF SessionOf, Live, TypeOK
    <2>4. SessionOf[r] = Null
        BY <1>0 DEF SessionOf
    <2>5. Directory!Open(r)
        BY <1>1, <1>4, <1>5, <2>2, <2>3, <2>4 DEF Directory!Open, Directory!requests
    <2> QED
        BY <2>5 DEF Directory!Next
<1>6. CASE ~(call[r].route = "login" /\ status[r] = 200)
    <2>1. token' = token
        BY <1>6 DEF Finish
    <2>2. SessionOf' = SessionOf /\ Live' = Live
        BY <1>1, <2>1, SessionsStay
    <2> QED
        BY <1>1, <1>4, <2>2 DEF Directory!vars, Directory!sessions, Directory!requests
<1> QED
    BY <1>5, <1>6

\* What happens to the table of accounts.
LEMMA DirectoryChange ==
    ASSUME ApiInv, NEW i \in Ids, Create(i) \/ Disable(i) \/ Enable(i) \/ Delete(i)
    PROVE  Directory!Change(i)
<1>1. UNCHANGED <<token, pc, call, bearer, seen, status>>
    BY DEF Create, Disable, Enable, Delete, request
<1>2. Outcomes' = Outcomes /\ SessionOf' = SessionOf /\ Live' = Live
    BY <1>1, SettledStays, NoneIsSettled, SessionsStay
<1> QED
    BY <1>1, <1>2
    DEF Create, Disable, Enable, Delete, Exists, Directory!Change, Directory!Exists,
        Directory!sessions, Directory!requests

\* Every step of the program is one of Sessions, or a stutter.
LEMMA DirectoryStep == ApiInv /\ [Next]_vars => [Directory!Next]_(Directory!vars)
<1> SUFFICES ASSUME ApiInv, [Next]_vars PROVE [Directory!Next]_(Directory!vars)
    OBVIOUS
<1>1. ASSUME NEW i \in Ids, Create(i) \/ Disable(i) \/ Enable(i) \/ Delete(i)
      PROVE Directory!Next
    BY <1>1, DirectoryChange DEF Directory!Next
<1>2. ASSUME NEW r \in Requests, NEW c \in Calls,
             Malformed(r, c) \/ Limit(r, c) \/ \E l \in Requests \cup {Null} : Arrive(r, c, l)
      PROVE Directory!Next
    <2>1. CASE Malformed(r, c) \/ Limit(r, c)
        <3>1. \E answer \in {400, 429} : Enter(r, c, Null, answer)
            BY <2>1 DEF Malformed, Limit
        <3> QED
            BY <3>1, DirectoryEnter
    <2>2. ASSUME NEW l \in Requests \cup {Null}, Arrive(r, c, l) PROVE Directory!Next
        <3> DEFINE user == Verify(l)
                   answer == Refusal(c, Verify(l))
        <3>1. Enter(r, c, user, answer)
            BY <2>2 DEF Arrive
        <3>2. user \in Requests \cup {Null} /\ answer \in {0, 400, 401, 429}
            BY DEF Verify, Refusal
        <3>3. user # Null => token[user] = "live" /\ c.route \in Protected
            BY <2>2 DEF Arrive, Verify
        <3>4. /\ answer = 401 => user = Null /\ c.route \in Protected
              /\ answer = 0 /\ c.route \in Protected => user # Null
            BY DEF Refusal
        <3> HIDE DEF user, answer
        <3> QED
            BY <3>1, <3>2, <3>3, <3>4, DirectoryEnter
    <2> QED
        BY <1>2, <2>1, <2>2
<1>3. ASSUME NEW l \in Requests, Expire(l) PROVE Directory!Next
    <2>1. /\ token[l] = "live" /\ token' = [token EXCEPT ![l] = "expired"]
          /\ token \in [Requests -> {"none", "live", "expired"}]
          /\ UNCHANGED <<users, pc, call, bearer, seen, status>>
        BY <1>3 DEF Expire, ApiInv, SessionInv, TypeOK, request
    <2>2. Outcomes' = Outcomes
        BY <2>1, SettledStays, NoneIsSettled
    <2>3. SessionOf' = SessionOf /\ l \in Live /\ Live' = Live \ {l}
        BY <2>1 DEF SessionOf, Live
    <2>4. Directory!Expire(l)
        BY <2>1, <2>2, <2>3 DEF Directory!Expire, Directory!requests
    <2> QED
        BY <2>4 DEF Directory!Next
<1>4. ASSUME NEW r \in Requests, Read(r) \/ ReadFails(r) \/ Reply(r) PROVE Directory!Next
    BY <1>4, DirectoryRead, DirectoryReadFails, DirectoryReply DEF Directory!Next
<1>5. ASSUME NEW r \in Requests, Finish(r) PROVE [Directory!Next]_(Directory!vars)
    BY <1>5, DirectoryFinish
<1>6. ASSUME NEW r \in Requests, HangUp(r) \/ WriteAudit(r) \/ AuditFails(r)
      PROVE UNCHANGED Directory!vars
    <2>1. /\ UNCHANGED <<users, token, call, bearer, seen, status>>
          /\ \A q \in Requests \ {r} : pc'[q] = pc[q]
          /\ pc[r] \in {"sent", "auditing"} /\ pc'[r] \in {"gone", "done", "unaudited"}
          /\ status[r] # 0
        BY <1>6 DEF HangUp, WriteAudit, AuditFails, ApiInv, SessionInv, TypeOK, AnsweredWhenSent,
                    data, request
    <2>2. Settled(r)' = Settled(r)
        BY <2>1 DEF Settled
    <2>3. Outcomes' = Outcomes /\ SessionOf' = SessionOf /\ Live' = Live
        BY <2>1, <2>2, SettledStays, NoneIsSettled, SessionsStay
    <2> QED
        BY <2>1, <2>3 DEF Directory!vars, Directory!sessions, Directory!requests
<1>7. CASE NewWindow \/ AtRest \/ UNCHANGED vars
    <2>1. UNCHANGED <<users, token, pc, call, bearer, seen, status>>
        BY <1>7 DEF NewWindow, AtRest, vars, data, request
    <2>2. Outcomes' = Outcomes /\ SessionOf' = SessionOf /\ Live' = Live
        BY <2>1, SettledStays, NoneIsSettled, SessionsStay
    <2> QED
        BY <2>1, <2>2 DEF Directory!vars, Directory!sessions, Directory!requests
<1> QED
    BY <1>1, <1>2, <1>3, <1>4, <1>5, <1>6, <1>7 DEF Next, Handle

\* Tokens that nobody stores and queries whose results come back late do what
\* sessions and answers decided at one moment would: AuthService, UsersService
\* and the middlewares before them implement Sessions.
THEOREM Refinement == Spec => ImplementsSessions
BY DirectoryInit, DirectoryStep, ApiInvariance, PTL DEF Spec, ImplementsSessions, Directory!Spec
=============================================================================
