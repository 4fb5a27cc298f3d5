----------------------------- MODULE MCHttpApi -----------------------------
(***************************************************************************)
(* Instances of HttpApi for TLC.                                           *)
(***************************************************************************)
EXTENDS HttpApi, TLC

CONSTANTS i1, i2, r1, r2, r3, lower, upper, p1, p2

TwoIds == {i1, i2}
ThreeRequests == {r1, r2, r3}
TwoRequests == {r1, r2}
OneAddress == {lower, upper}
TwoPasswords == {p1, p2}

Lower == [e \in {lower, upper} |-> lower]
Addresses == (i1 :> lower @@ i2 :> upper)
Secrets == (i1 :> p1 @@ i2 :> p2)

C(route, e, p, valid) == [route |-> route, email |-> e, password |-> p, valid |-> valid]

Set(limit, parser, injection) ==
    [rate_limit |-> limit, body_parser |-> parser, dependency_injection |-> injection]

\* As config.yaml has them, and with none.
SomeSettings == {Set(TRUE, TRUE, TRUE), Set(FALSE, FALSE, FALSE)}

\* One call of each kind, and one that is not valid.
EveryRoute ==
    {C("login", lower, p1, TRUE), C("me", lower, p1, TRUE), C("find", upper, p1, TRUE),
     C("login", lower, p1, FALSE), C("ready", lower, p1, TRUE), C("health", lower, p1, TRUE)}
=============================================================================
