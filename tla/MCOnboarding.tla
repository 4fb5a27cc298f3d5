---------------------------- MODULE MCOnboarding ----------------------------
(***************************************************************************)
(* An instance of Onboarding for TLC: two requests with one address.       *)
(***************************************************************************)
EXTENDS Onboarding

CONSTANTS r1, r2, c1, c2, c3, w1

TwoRequests == {r1, r2}
ThreeClients == {c1, c2, c3}
OneWorker == {w1}

OneEmail == {"ann"}
SameEmail == [r \in TwoRequests |-> "ann"]
AsWritten == [e \in OneEmail |-> e]
=============================================================================
