------------------------- MODULE MCServerLifecycle -------------------------
(***************************************************************************)
(* Instances of ServerLifecycle for TLC.                                   *)
(***************************************************************************)
EXTENDS ServerLifecycle

CONSTANTS r1, r2, r3, term, int

ThreeRequests == {r1, r2, r3}
TwoRequests == {r1, r2}
OnlyTerm == {term}
TwoSignals == {term, int}
=============================================================================
