--------------------------- MODULE MCRegistration ---------------------------
(***************************************************************************)
(* Instances of Registration for TLC.  Three requests: two spellings of    *)
(* one address, and the first spelling a second time.                      *)
(***************************************************************************)
EXTENDS Registration

CONSTANTS r1, r2, r3, c1, c2, c3, c4

MCRequests == {r1, r2, r3}
MCTwoRequests == {r1, r3}
MCEmails == {"ann", "Ann"}
MCEmailOf == [r \in MCRequests |-> IF r = r2 THEN "Ann" ELSE "ann"]
MCTwoEmailOf == [r \in MCTwoRequests |-> "ann"]
MCCanonical == [e \in MCEmails |-> "ann"]

TwoClients == {c1, c2}
ThreeClients == {c1, c2, c3}
FourClients == {c1, c2, c3, c4}

=============================================================================
