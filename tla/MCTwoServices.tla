--------------------------- MODULE MCTwoServices ----------------------------
(***************************************************************************)
(* Instances of TwoServices for TLC.                                       *)
(***************************************************************************)
EXTENDS TwoServices

CONSTANTS a1, a2, o1, k1, x, y

Req(d, f) == [order |-> o1, key |-> k1, details |-> d, fixture |-> f, flaws |-> {}]

\* two bodies for one key and one order, one of which loses its commit's
\* answer, and one whose payment is declined
RivalBodies ==
    {Req(x, "normal"), Req(y, "ack_lost_after_commit"), Req(x, "payment_declined")}

LostCommits == {CommitLost}
=============================================================================
