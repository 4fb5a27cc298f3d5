--------------------------- MODULE MCWelcomeJobs ---------------------------
(***************************************************************************)
(* Instances of WelcomeJobs for TLC.                                       *)
(***************************************************************************)
EXTENDS WelcomeJobs

CONSTANTS u1, u2, c1, w1, w2

TwoUsers == {u1, u2}
OneUser == {u1}
OneSocket == {c1}
NoSocket == {}
TwoWorkers == {w1, w2}
OneWorker == {w1}
=============================================================================
