------------------------ MODULE MCOrderAuthorization ------------------------
(***************************************************************************)
(* Instances of OrderAuthorization for TLC.                                *)
(***************************************************************************)
EXTENDS OrderRefinement, MCRequests, TLC

CONSTANTS a1, a2

EveryFixture == EveryRequest(Fixtures)

AllStoreFaults == DefiniteCodes \cup ConflictPathCodes \cup {CommitLost}
SomeStoreFaults == {"decision_insert_failed", "decision_lookup_failed", CommitLost}

Symmetry == Permutations(Attempts)
=============================================================================
