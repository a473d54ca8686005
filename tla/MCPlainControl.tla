---------------------------- MODULE MCPlainControl --------------------------
(***************************************************************************)
(* Instances of PlainControl for TLC.                                      *)
(***************************************************************************)
EXTENDS PlainControl, MCRequests, TLC

CONSTANTS a1, a2

EveryFixture ==
    EveryRequest({"normal", "manual_review", "policy_rejected", "out_of_stock",
                  "payment_declined", "decision_write_failure",
                  "ack_lost_after_commit"})

AllStoreFaults == DefiniteCodes \cup ConflictPathCodes \cup {CommitLost}

Symmetry == Permutations(Attempts)
=============================================================================
