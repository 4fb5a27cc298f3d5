--------------------------- MODULE MCRabbitQueue ---------------------------
(***************************************************************************)
(* Instances of RabbitQueue for TLC.                                       *)
(***************************************************************************)
EXTENDS RabbitQueue

CONSTANTS j1, j2, j3, w1, w2

ThreeJobs == {j1, j2, j3}
TwoJobs == {j1, j2}
TwoWorkers == {w1, w2}
OneWorker == {w1}
=============================================================================
